--------------------------- MODULE InformerProofs ---------------------------
(***************************************************************************)
(* Proofs about the API server's objects and the informers that follow     *)
(* them: about Informer and the Storage it extends, for any objects and    *)
(* contents, any number of changes, watches, resyncs and faults, and a     *)
(* handler that joins at any time; and, at the end, about the dags and the *)
(* calls of Api.                                                           *)
(***************************************************************************)
EXTENDS Informer, Api, FiniteSetTheorems, WellFoundedInduction, TLAPS

----------------------------------------------------------------------------
(* Types *)

Obj == [val : Vals, rev : Nat]
Maybe == Obj \cup {None}
Change == [type : {"Added", "Modified", "Deleted"}, key : Keys, obj : Obj]
End == [type : EndTypes]
DeltaType == {"Added", "Updated", "Deleted", "Replaced", "Sync"}
DeltaSet == [type : DeltaType, obj : Obj, unknown : BOOLEAN]
Note == {n \in [key : Keys, new : Maybe, old : Maybe] : n.new # None \/ n.old # None}
Fifo == [items : [Keys -> Seq(DeltaSet)], queue : Seq(Keys), populated : BOOLEAN,
         initialPopulationCount : Nat]

StorageTypeOK ==
  /\ kv \in [Keys -> Maybe] /\ log \in Seq(Change)
  /\ open \in BOOLEAN /\ pos \in Nat /\ pos <= Len(log) /\ stream \in Seq(Change \cup End)

TypeOK ==
  /\ StorageTypeOK
  /\ reflector \in {"list", "watch", "watching"} /\ received \in BOOLEAN /\ faults \in Nat
  /\ fifo \in Fifo
  /\ indexer \in [Keys -> Maybe] /\ indices \in [Vals -> SUBSET Keys]
  /\ listening \in BOOLEAN /\ syncing \in BOOLEAN
  /\ pending \in Seq(Note) /\ view \in [Keys -> Maybe]
  /\ awaited \subseteq Keys

----------------------------------------------------------------------------
(* The FIFO *)

\* A key waits once, and exactly when it has deltas.
FifoOK(f) ==
  /\ \A i, j \in 1..Len(f.queue) : i # j => f.queue[i] # f.queue[j]
  /\ \A k \in Keys : f.items[k] # <<>> <=> \E i \in 1..Len(f.queue) : f.queue[i] = k

\* The keys of the first list that were not popped are among the first
\* initialPopulationCount of the queue.
CountInv ==
  /\ ~fifo.populated => fifo.queue = <<>> /\ awaited = {}
  /\ \A k \in awaited : \E i \in 1..Len(fifo.queue) :
       i <= fifo.initialPopulationCount /\ fifo.queue[i] = k

----------------------------------------------------------------------------
(* The way of an object from etcd to the handler *)

InView(k, o) == view[k] = o /\ o # None
InNotes(k, i, o) ==
  i \in 1..Len(pending) /\ pending[i].key = k /\ pending[i].new = o /\ o # None
InStore(k, o) == indexer[k] = o /\ o # None
InFifo(k, i, o) ==
  i \in 1..Len(fifo.items[k]) /\ fifo.items[k][i].type # "Deleted" /\ fifo.items[k][i].obj = o
InStream(k, i, o) ==
  /\ i \in 1..Len(stream) /\ stream[i].type \in {"Added", "Modified"}
  /\ stream[i].key = k /\ stream[i].obj = o

\* The object is what the change of its version wrote.
Logged(k, o) == o.rev \in 1..Len(log) /\ log[o.rev].key = k /\ log[o.rev].obj = o

LogInv ==
  /\ \A i \in 1..Len(log) : log[i].obj.rev = i
  /\ \A k \in Keys : kv[k] # None =>
       /\ Logged(k, kv[k])
       /\ \A i \in 1..Len(log) : log[i].key = k => i <= kv[k].rev

\* What is on its way was written, and before what the watch has not taken yet.
OnItsWay(k, o) == Logged(k, o) /\ (open => o.rev <= pos)
LoggedInv ==
  \A k \in Keys, o \in Obj, i \in Nat :
    InView(k, o) \/ InNotes(k, i, o) \/ InStore(k, o) \/ InFifo(k, i, o) \/ InStream(k, i, o)
    => OnItsWay(k, o)

\* Whatever comes later on the way is at least as new.
OrderInv ==
  \A k \in Keys, o, p \in Obj, i, j \in Nat :
    \/ /\ InView(k, o)
       /\ InNotes(k, j, p) \/ InStore(k, p) \/ InFifo(k, j, p) \/ InStream(k, j, p)
    \/ /\ InNotes(k, i, o)
       /\ (InNotes(k, j, p) /\ i < j) \/ InStore(k, p) \/ InFifo(k, j, p) \/ InStream(k, j, p)
    \/ /\ InStore(k, o)
       /\ InFifo(k, j, p) \/ InStream(k, j, p)
    \/ /\ InFifo(k, i, o)
       /\ (InFifo(k, j, p) /\ i < j) \/ InStream(k, j, p)
    \/ InStream(k, i, o) /\ InStream(k, j, p) /\ i < j
    => o.rev <= p.rev

\* Between two watches nothing is on the way from the server.
WatchInv == reflector # "watching" => ~open /\ stream = <<>>

\* Nobody is told anything before the handler is a listener.
QuietInv == ~listening => pending = <<>> /\ \A k \in Keys : view[k] = None

IInv ==
  /\ TypeOK /\ FifoOK(fifo) /\ CountInv /\ IndexMatchesStore
  /\ LogInv /\ LoggedInv /\ OrderInv /\ WatchInv /\ QuietInv /\ HandlerMissesNothing
----------------------------------------------------------------------------
(* Sequences *)

LEMMA AppendIs ==
  ASSUME NEW S, NEW q \in Seq(S), NEW x \in S
  PROVE  /\ Append(q, x) \in Seq(S) /\ Len(Append(q, x)) = Len(q) + 1 /\ Len(q) \in Nat
         /\ \A i \in 1..Len(q) : Append(q, x)[i] = q[i]
         /\ Append(q, x)[Len(q) + 1] = x
         /\ \A i \in 1..Len(Append(q, x)) : i \in 1..Len(q) \/ i = Len(q) + 1
  OBVIOUS

LEMMA TailIs ==
  ASSUME NEW S, NEW q \in Seq(S), q # <<>>
  PROVE  /\ Tail(q) \in Seq(S) /\ Len(Tail(q)) = Len(q) - 1 /\ Len(q) \in Nat \ {0}
         /\ \A i \in 1..Len(Tail(q)) : Tail(q)[i] = q[i + 1] /\ i + 1 \in 1..Len(q)
         /\ Head(q) = q[1] /\ Head(q) \in S
  OBVIOUS

LEMMA ConcatIs ==
  ASSUME NEW S, NEW a \in Seq(S), NEW b \in Seq(S)
  PROVE  /\ a \o b \in Seq(S) /\ Len(a \o b) = Len(a) + Len(b)
         /\ Len(a) \in Nat /\ Len(b) \in Nat
         /\ \A n \in 1..Len(a) : (a \o b)[n] = a[n]
         /\ \A n \in 1..Len(b) : (a \o b)[Len(a) + n] = b[n]
         /\ \A n \in 1..Len(a \o b) : n \in 1..Len(a) \/ n - Len(a) \in 1..Len(b)
  OBVIOUS

LEMMA MadeIs ==
  ASSUME NEW S, NEW n \in Nat, NEW f \in [1..n -> S]
  PROVE  f \in Seq(S) /\ Len(f) = n
  OBVIOUS

LEMMA PrefixIs ==
  ASSUME NEW S, NEW q \in Seq(S), NEW n \in Nat, n <= Len(q)
  PROVE  /\ SubSeq(q, 1, n) \in Seq(S) /\ Len(SubSeq(q, 1, n)) = n
         /\ \A i \in 1..n : SubSeq(q, 1, n)[i] = q[i]
  OBVIOUS

\* r has the elements of seq at the indices I, all of them and in their order.
Picks(S, seq, I, r) ==
  /\ r \in Seq(S) /\ Len(r) <= Len(seq)
  /\ \E at \in [1..Len(r) -> I] :
       /\ \A m, n \in 1..Len(r) : m < n => at[m] < at[n]
       /\ \A i \in I : \E n \in 1..Len(r) : at[n] = i
       /\ \A n \in 1..Len(r) : r[n] = seq[at[n]]

LEMMA SelectedIs ==
  ASSUME NEW S, NEW seq \in Seq(S), NEW I, I \subseteq 1..Len(seq)
  PROVE  Picks(S, seq, I, Selected(seq, I))
  <1> DEFINE L == Len(seq)
             N == Cardinality(I)
             D(i) == {j \in I : j <= i}
             rank == [i \in I |-> Cardinality(D(i))]
             at == [n \in 1..N |-> CHOOSE i \in I : Cardinality(D(i)) = n]
  <1>1. L \in Nat /\ \A i \in I : i \in Int
    OBVIOUS
  <1>2. IsFiniteSet(I) /\ N \in Nat /\ N <= L
    <2>1. IsFiniteSet(1..L) /\ Cardinality(1..L) = L
      BY SMTT(30), <1>1, FS_Interval
    <2> QED BY <2>1, FS_Subset, FS_CardinalityType
  <1>3. \A i \in I : rank[i] \in 1..N
    <2> SUFFICES ASSUME NEW i \in I PROVE Cardinality(D(i)) \in 1..N
      OBVIOUS
    <2>1. D(i) \subseteq I /\ i \in D(i)
      BY <1>1
    <2> HIDE DEF D
    <2>2. IsFiniteSet(D(i)) /\ Cardinality(D(i)) <= N /\ Cardinality(D(i)) \in Nat
      BY <1>2, <2>1, FS_Subset, FS_CardinalityType
    <2>3. Cardinality(D(i)) # 0
      BY <2>1, <2>2, FS_EmptySet
    <2> QED BY <1>2, <2>2, <2>3
  <1>4. \A i, j \in I : i < j => rank[i] < rank[j]
    <2> SUFFICES ASSUME NEW i \in I, NEW j \in I, i < j
                 PROVE  Cardinality(D(i)) < Cardinality(D(j))
      OBVIOUS
    <2>0. i \in Int /\ j \in Int
      BY <1>1
    <2>1. D(i) \subseteq D(j) /\ j \in D(j) /\ j \notin D(i) /\ D(j) \subseteq I
      <3>1. \A x \in D(i) : x \in Int /\ x \in I /\ x <= i
        BY <1>1
      <3>2. \A x \in D(i) : x <= j
        BY <2>0, <3>1
      <3>3. D(i) \subseteq D(j)
        BY <3>1, <3>2
      <3>4. j <= j /\ ~(j <= i)
        BY <2>0
      <3> QED BY <3>3, <3>4
    <2> HIDE DEF D
    <2>2. IsFiniteSet(D(j)) /\ Cardinality(D(j)) \in Nat
      BY <1>2, <2>1, FS_Subset, FS_CardinalityType
    <2>3. /\ Cardinality(D(i)) <= Cardinality(D(j)) /\ Cardinality(D(i)) # Cardinality(D(j))
          /\ IsFiniteSet(D(i))
      BY <2>1, <2>2, FS_Subset
    <2>4. Cardinality(D(i)) \in Nat
      BY <2>3, FS_CardinalityType
    <2> QED BY <2>2, <2>3, <2>4
  <1>5. \A i, j \in I : rank[i] = rank[j] => i = j
    <2> SUFFICES ASSUME NEW i \in I, NEW j \in I, rank[i] = rank[j], i # j PROVE FALSE
      OBVIOUS
    <2>1. i \in Int /\ j \in Int /\ rank[i] \in 1..N /\ rank[j] \in 1..N
      BY <1>1, <1>3
    <2>2. rank[i] \in Int /\ rank[j] \in Int
      BY <1>2, <2>1
    <2>3. i < j \/ j < i
      BY <2>1
    <2> HIDE DEF rank
    <2> QED BY <1>4, <2>2, <2>3
  <1> HIDE DEF rank
  <1>6. \A n \in 1..N : \E i \in I : rank[i] = n
    <2>1. rank \in Injection(I, 1..N)
      BY <1>3, <1>5 DEF Injection, IsInjective, rank
    <2>2. IsFiniteSet(1..N) /\ Cardinality(1..N) = N
      BY <1>2, FS_Interval
    <2>3. rank \in Surjection(I, 1..N)
      BY <2>1, <2>2, FS_Injection
    <2> QED BY <2>3 DEF Surjection
  <1>7. \A i \in I : rank[i] = Cardinality(D(i))
    BY DEF rank
  <1> HIDE DEF D, N
  <1>8. \A n \in 1..N : at[n] \in I /\ rank[at[n]] = n
    BY <1>6, <1>7
  <1> DEFINE r == Selected(seq, I)
  <1>9. r = [n \in 1..N |-> seq[at[n]]]
    BY DEF Selected, D, N
  <1> HIDE DEF at
  <1>10. \A i \in I : seq[i] \in S
    BY <1>1
  <1>11. r \in Seq(S) /\ Len(r) = N /\ \A n \in 1..N : r[n] = seq[at[n]]
    <2> HIDE DEF r
    <2>1. \A n \in 1..N : seq[at[n]] \in S
      BY <1>8, <1>10
    <2>2. r \in [1..N -> S] /\ \A n \in 1..N : r[n] = seq[at[n]]
      BY <1>9, <2>1
    <2> QED BY <1>2, <2>2, MadeIs
  <1>12. \A m, n \in 1..N : m < n => at[m] < at[n]
    <2> SUFFICES ASSUME NEW m \in 1..N, NEW n \in 1..N, m < n PROVE at[m] < at[n]
      OBVIOUS
    <2>1. at[m] \in I /\ at[n] \in I
      BY <1>8
    <2>2. at[m] \in Int /\ at[n] \in Int /\ m \in Int /\ n \in Int
      <3>1. at[m] \in Int /\ at[n] \in Int
        BY <1>1, <2>1
      <3>2. N \in Nat
        BY <1>2
      <3>3. m \in Int /\ n \in Int
        BY <3>2
      <3> QED BY <3>1, <3>3
    <2>3. rank[at[m]] = m /\ rank[at[n]] = n
      BY <1>8
    <2>4. at[n] < at[m] => n < m
      BY <1>4, <2>1, <2>3
    <2>5. at[n] = at[m] => n = m
      BY <2>3
    <2> QED BY <2>2, <2>4, <2>5
  <1>13. \A i \in I : \E n \in 1..N : at[n] = i
    BY <1>3, <1>5, <1>8
  <1>14. at \in [1..N -> I]
    BY <1>8 DEF at
  <1> HIDE DEF r
  <1> QED BY <1>2, <1>11, <1>12, <1>13, <1>14 DEF r, Picks

\* An order of a finite set has all its elements, each once.
LEMMA OrderIs ==
  ASSUME NEW S, IsFiniteSet(S), NEW order \in SetToSeqs(S)
  PROVE  /\ order \in Seq(S)
         /\ \A i, j \in 1..Len(order) : i # j => order[i] # order[j]
         /\ \A x \in S : \E i \in 1..Len(order) : order[i] = x
  <1> DEFINE N == Cardinality(S)
  <1>1. N \in Nat
    BY FS_CardinalityType
  <1>2. order \in [1..N -> S] /\ \A i, j \in 1..N : i # j => order[i] # order[j]
    BY DEF SetToSeqs
  <1>3. IsFiniteSet(1..N) /\ Cardinality(1..N) = N
    BY <1>1, FS_Interval
  <1> HIDE DEF N
  <1>4. order \in Seq(S) /\ Len(order) = N
    BY <1>1, <1>2, MadeIs
  <1>5. order \in Injection(1..N, S)
    BY <1>2 DEF Injection, IsInjective
  <1>6. order \in Surjection(1..N, S)
    BY <1>3, <1>5, FS_Injection DEF N
  <1> QED BY <1>2, <1>4, <1>6 DEF Surjection

LEMMA SetToSeqIs ==
  ASSUME NEW S, IsFiniteSet(S)
  PROVE  SetToSeq(S) \in Seq(S) /\ Len(SetToSeq(S)) = Cardinality(S) /\ Cardinality(S) \in Nat
  <1> DEFINE N == Cardinality(S)
  <1>1. N \in Nat /\ ExistsBijection(1..N, S)
    BY FS_CardinalityType
  <1>2. \E f \in [1..N -> S] : IsInjective(f)
    BY <1>1 DEF ExistsBijection, Bijection, Injection
  <1>3. SetToSeq(S) \in [1..N -> S]
    BY <1>2 DEF SetToSeq
  <1> HIDE DEF N
  <1>4. SetToSeq(S) \in Seq(S) /\ Len(SetToSeq(S)) = N
    BY <1>1, <1>3, MadeIs
  <1> QED BY <1>1, <1>4 DEF N
----------------------------------------------------------------------------
(* The FIFO's operations *)

\* The deltas e are ds and one more: of deletions one may take the place of another.
Extends(ds, d, e) ==
  /\ e \in Seq(DeltaSet) /\ e # <<>>
  /\ \A i \in 1..Len(e) : e[i].type # "Deleted" =>
       \/ i \in 1..Len(ds) /\ e[i] = ds[i]
       \/ i = Len(ds) + 1 /\ e[i] = d

LEMMA DedupIs ==
  ASSUME NEW ds \in Seq(DeltaSet), NEW d \in DeltaSet
  PROVE  Extends(ds, d, dedupDeltas(Append(ds, d)))
  <1> DEFINE a == Append(ds, d)
             n == Len(a)
             x == IF a[n - 1].unknown THEN a[n] ELSE a[n - 1]
             e == dedupDeltas(a)
  <1>1. /\ a \in Seq(DeltaSet) /\ n = Len(ds) + 1 /\ Len(ds) \in Nat /\ a[n] = d
        /\ \A i \in 1..Len(ds) : a[i] = ds[i]
        /\ \A i \in 1..n : i \in 1..Len(ds) \/ i = Len(ds) + 1
    BY AppendIs
  <1>2. a # <<>> /\ n \in Nat /\ n >= 1
    <2> HIDE DEF a
    <2> QED BY <1>1
  <1>3. CASE n < 2 \/ a[n].type # "Deleted" \/ a[n - 1].type # "Deleted"
    <2>1. e = a
      BY <1>3 DEF dedupDeltas
    <2> HIDE DEF a, e, n
    <2> QED BY <1>1, <1>2, <2>1 DEF a, e, n, Extends
  <1>4. CASE ~(n < 2 \/ a[n].type # "Deleted" \/ a[n - 1].type # "Deleted")
    <2>1. e = Append(SubSeq(a, 1, n - 2), x)
      BY <1>4 DEF dedupDeltas
    <2> HIDE DEF a, e, n
    <2>2. n >= 2 /\ n - 2 \in Nat /\ n - 2 <= Len(a)
      BY <1>2, <1>4 DEF n
    <2>3. x \in DeltaSet /\ x.type = "Deleted"
      BY <1>1, <1>2, <1>4, <2>2 DEF n
    <2> DEFINE b == SubSeq(a, 1, n - 2)
    <2>4. b \in Seq(DeltaSet) /\ Len(b) = n - 2 /\ \A i \in 1..(n - 2) : b[i] = a[i]
      BY <1>1, <2>2, PrefixIs
    <2> HIDE DEF b, x
    <2>5. /\ e \in Seq(DeltaSet) /\ Len(e) = n - 1 /\ e[n - 1] = x
          /\ \A i \in 1..(n - 2) : e[i] = a[i]
      <3>1. e = Append(b, x)
        BY <2>1 DEF b
      <3>2. /\ e \in Seq(DeltaSet) /\ Len(e) = Len(b) + 1 /\ e[Len(b) + 1] = x
            /\ \A i \in 1..Len(b) : e[i] = b[i]
        BY <2>3, <2>4, <3>1, AppendIs
      <3>3. Len(b) + 1 = n - 1
        BY <1>2, <2>4
      <3> QED BY <2>4, <3>2, <3>3
    <2>6. \A i \in 1..(n - 1) : i \in 1..(n - 2) \/ i = n - 1
      BY <1>2, <2>2
    <2>7. \A i \in 1..(n - 2) : i \in 1..Len(ds)
      BY <1>1, <2>2
    <2>8. e # <<>>
      BY <1>2, <2>2, <2>5
    <2> QED BY <1>1, <2>3, <2>5, <2>6, <2>7, <2>8 DEF a, e, Extends
  <1> QED BY <1>3, <1>4

\* g has what f has, and for keys of Ks at most one delta more.
Gains(f, g, Ks, delta) ==
  /\ Len(f.queue) <= Len(g.queue) /\ \A i \in 1..Len(f.queue) : g.queue[i] = f.queue[i]
  /\ \A k \in Keys : \A i \in 1..Len(g.items[k]) : g.items[k][i].type # "Deleted" =>
       \/ i \in 1..Len(f.items[k]) /\ g.items[k][i] = f.items[k][i]
       \/ k \in Ks /\ i = Len(f.items[k]) + 1 /\ g.items[k][i] = delta[k]

LEMMA GainsNothing ==
  ASSUME NEW f \in Fifo, NEW g, g.items = f.items, g.queue = f.queue, NEW delta
  PROVE  Gains(f, g, {}, delta)
  <1>1. /\ Len(f.queue) \in Nat /\ \A k \in Keys : Len(f.items[k]) \in Nat
    BY DEF Fifo
  <1> QED BY <1>1 DEF Gains

LEMMA QueueOneIs ==
  ASSUME NEW f \in Fifo, FifoOK(f), NEW k \in Keys, NEW d \in DeltaSet
  PROVE  /\ queueActionLocked(f, k, d) \in Fifo /\ FifoOK(queueActionLocked(f, k, d))
         /\ queueActionLocked(f, k, d).populated
         /\ queueActionLocked(f, k, d).initialPopulationCount = f.initialPopulationCount
         /\ Gains(f, queueActionLocked(f, k, d), {k}, [j \in Keys |-> d])
  <1> DEFINE g == queueActionLocked(f, k, d)
             e == dedupDeltas(Append(f.items[k], d))
             q == IF f.items[k] = <<>> THEN Append(f.queue, k) ELSE f.queue
             its == [f.items EXCEPT ![k] = e]
  <1>1. /\ f.items \in [Keys -> Seq(DeltaSet)] /\ f.queue \in Seq(Keys)
        /\ f.initialPopulationCount \in Nat /\ Len(f.queue) \in Nat
        /\ f.items[k] \in Seq(DeltaSet)
    BY DEF Fifo
  <1>2. g = [items |-> its, queue |-> q, populated |-> TRUE,
             initialPopulationCount |-> f.initialPopulationCount]
    BY DEF queueActionLocked
  <1>3. /\ e \in Seq(DeltaSet) /\ e # <<>>
        /\ \A i \in 1..Len(e) : e[i].type # "Deleted" =>
             \/ i \in 1..Len(f.items[k]) /\ e[i] = f.items[k][i]
             \/ i = Len(f.items[k]) + 1 /\ e[i] = d
    <2>1. Extends(f.items[k], d, e)
      BY <1>1, DedupIs
    <2> HIDE DEF e
    <2> QED BY <2>1 DEF Extends
  <1>4. q \in Seq(Keys) /\ Len(f.queue) <= Len(q) /\ \A i \in 1..Len(f.queue) : q[i] = f.queue[i]
    BY <1>1, AppendIs
  <1> HIDE DEF e, q, g, its
  <1>5. /\ its \in [Keys -> Seq(DeltaSet)] /\ its[k] = e
        /\ \A j \in Keys : j # k => its[j] = f.items[j]
    BY <1>1, <1>3 DEF its
  <1>6. /\ g.items = its /\ g.queue = q /\ g.populated
        /\ g.initialPopulationCount = f.initialPopulationCount
    BY <1>2
  <1>7. g \in Fifo
    BY <1>1, <1>2, <1>4, <1>5 DEF Fifo
  <1>8. FifoOK(g)
    <2>1. CASE f.items[k] = <<>>
      <3>1. q = Append(f.queue, k)
        BY <2>1 DEF q
      <3>2. /\ Len(q) = Len(f.queue) + 1 /\ q[Len(f.queue) + 1] = k
            /\ \A i \in 1..Len(q) : i \in 1..Len(f.queue) \/ i = Len(f.queue) + 1
            /\ \A i \in 1..Len(f.queue) : q[i] = f.queue[i] /\ i \in 1..Len(q)
            /\ Len(f.queue) + 1 \in 1..Len(q)
        BY <1>1, <3>1, AppendIs
      <3>3. \A i \in 1..Len(f.queue) : f.queue[i] # k
        BY <2>1 DEF FifoOK
      <3>4. \A i, j \in 1..Len(q) : i # j => q[i] # q[j]
        BY <3>2, <3>3 DEF FifoOK
      <3>5. ASSUME NEW j \in Keys PROVE its[j] # <<>> <=> \E i \in 1..Len(q) : q[i] = j
        <4>1. CASE j = k
          BY <1>3, <1>5, <3>2, <4>1
        <4>2. CASE j # k
          <5>1. its[j] # <<>> <=> \E i \in 1..Len(f.queue) : f.queue[i] = j
            BY <1>5, <4>2 DEF FifoOK
          <5>2. ASSUME NEW i \in 1..Len(q), q[i] = j PROVE \E n \in 1..Len(f.queue) : f.queue[n] = j
            BY <3>2, <4>2, <5>2
          <5>3. ASSUME NEW i \in 1..Len(f.queue), f.queue[i] = j PROVE \E n \in 1..Len(q) : q[n] = j
            BY <3>2, <5>3
          <5> QED BY <5>1, <5>2, <5>3
        <4> QED BY <4>1, <4>2
      <3> QED BY <1>6, <3>4, <3>5 DEF FifoOK
    <2>2. CASE f.items[k] # <<>>
      <3>1. q = f.queue
        BY <2>2 DEF q
      <3> QED BY <1>3, <1>5, <1>6, <2>2, <3>1 DEF FifoOK
    <2> QED BY <2>1, <2>2
  <1>9. Gains(f, g, {k}, [j \in Keys |-> d])
    <2>1. \A j \in Keys : \A i \in 1..Len(its[j]) : its[j][i].type # "Deleted" =>
            \/ i \in 1..Len(f.items[j]) /\ its[j][i] = f.items[j][i]
            \/ j = k /\ i = Len(f.items[j]) + 1 /\ its[j][i] = d
      <3> SUFFICES ASSUME NEW j \in Keys, NEW i \in 1..Len(its[j]), its[j][i].type # "Deleted"
                   PROVE  \/ i \in 1..Len(f.items[j]) /\ its[j][i] = f.items[j][i]
                          \/ j = k /\ i = Len(f.items[j]) + 1 /\ its[j][i] = d
        OBVIOUS
      <3>1. CASE j = k
        BY <1>3, <1>5, <3>1
      <3>2. CASE j # k
        BY <1>5, <3>2
      <3> QED BY <3>1, <3>2
    <2> QED BY <1>4, <1>6, <2>1 DEF Gains
  <1> QED BY <1>6, <1>7, <1>8, <1>9 DEF g

\* g is f after the deltas of the keys of an order were queued.
Filled(f, g, order, delta, count) ==
  /\ g \in Fifo /\ FifoOK(g) /\ g.populated
  /\ g.initialPopulationCount = IF f.populated THEN f.initialPopulationCount ELSE count
  /\ Gains(f, g, Range(order), delta)
  /\ Len(g.queue) <= Len(f.queue) + Len(order)
  /\ \A i \in 1..Len(order) : g.items[order[i]] # <<>>

Distinct(order) == \A i, j \in 1..Len(order) : i # j => order[i] # order[j]

LEMMA QueueActionsIs ==
  ASSUME NEW f \in Fifo, FifoOK(f), NEW order \in Seq(Keys), Distinct(order),
         NEW delta, \A i \in 1..Len(order) : delta[order[i]] \in DeltaSet,
         NEW count \in Nat
  PROVE  Filled(f, queueActions(f, order, delta, count), order, delta, count)
  <1> DEFINE g == queueActions(f, order, delta, count)
             I == {i \in 1..Len(order) : f.items[order[i]] = <<>>}
             s == Selected(order, I)
             q == f.queue \o s
             c == IF f.populated THEN f.initialPopulationCount ELSE count
             its == [k \in Keys |-> IF k \in Range(order)
                                    THEN dedupDeltas(Append(f.items[k], delta[k]))
                                    ELSE f.items[k]]
  <1>1. /\ f.items \in [Keys -> Seq(DeltaSet)] /\ f.queue \in Seq(Keys)
        /\ f.initialPopulationCount \in Nat /\ Len(f.queue) \in Nat /\ Len(order) \in Nat
        /\ \A i \in 1..Len(order) : order[i] \in Keys
    BY DEF Fifo
  <1>2. g = [items |-> its, queue |-> q, populated |-> TRUE, initialPopulationCount |-> c]
    BY DEF queueActions
  <1>3. c \in Nat
    BY <1>1
  <1>4. \A k : k \in Range(order) <=> \E i \in 1..Len(order) : order[i] = k
    BY DEF Range
  <1>5. I \subseteq 1..Len(order)
    OBVIOUS
  <1>6. /\ s \in Seq(Keys) /\ Len(s) <= Len(order)
        /\ \E at \in [1..Len(s) -> I] :
              /\ \A m, n \in 1..Len(s) : m < n => at[m] < at[n]
              /\ \A i \in I : \E n \in 1..Len(s) : at[n] = i
              /\ \A n \in 1..Len(s) : s[n] = order[at[n]]
    <2>1. Picks(Keys, order, I, s)
      <3> HIDE DEF I
      <3> QED BY <1>5, SelectedIs
    <2> HIDE DEF I, s
    <2> QED BY <2>1 DEF Picks
  <1>7. PICK at \in [1..Len(s) -> I] :
              /\ \A m, n \in 1..Len(s) : m < n => at[m] < at[n]
              /\ \A i \in I : \E n \in 1..Len(s) : at[n] = i
              /\ \A n \in 1..Len(s) : s[n] = order[at[n]]
    BY <1>6
  <1> HIDE DEF s
  <1>8. /\ q \in Seq(Keys) /\ Len(q) = Len(f.queue) + Len(s) /\ Len(s) \in Nat
        /\ \A n \in 1..Len(f.queue) : q[n] = f.queue[n]
        /\ \A n \in 1..Len(s) : q[Len(f.queue) + n] = s[n]
        /\ \A n \in 1..Len(q) : n \in 1..Len(f.queue) \/ n - Len(f.queue) \in 1..Len(s)
    BY <1>1, <1>6, ConcatIs
  <1>9. /\ \A n \in 1..Len(s) : f.items[s[n]] = <<>> /\ \E i \in 1..Len(order) : s[n] = order[i]
        /\ \A i \in 1..Len(order) : f.items[order[i]] = <<>> => \E n \in 1..Len(s) : s[n] = order[i]
    BY <1>7
  <1>10. \A m, n \in 1..Len(s) : m # n => s[m] # s[n]
    <2> SUFFICES ASSUME NEW m \in 1..Len(s), NEW n \in 1..Len(s), m # n PROVE s[m] # s[n]
      OBVIOUS
    <2>1. at[m] \in 1..Len(order) /\ at[n] \in 1..Len(order)
      BY <1>7
    <2>2. at[m] \in Int /\ at[n] \in Int /\ m \in Int /\ n \in Int
      BY <1>1, <1>8, <2>1
    <2>3. m < n \/ n < m
      BY <2>2
    <2>4. at[m] # at[n]
      BY <1>7, <2>2, <2>3
    <2> QED BY <1>7, <2>1, <2>4 DEF Distinct
  <1>11. \A k \in Keys : k \in Range(order) =>
           /\ its[k] \in Seq(DeltaSet) /\ its[k] # <<>>
           /\ \A i \in 1..Len(its[k]) : its[k][i].type # "Deleted" =>
                \/ i \in 1..Len(f.items[k]) /\ its[k][i] = f.items[k][i]
                \/ i = Len(f.items[k]) + 1 /\ its[k][i] = delta[k]
    <2> SUFFICES ASSUME NEW k \in Keys, k \in Range(order)
                 PROVE  /\ its[k] \in Seq(DeltaSet) /\ its[k] # <<>>
                        /\ \A i \in 1..Len(its[k]) : its[k][i].type # "Deleted" =>
                             \/ i \in 1..Len(f.items[k]) /\ its[k][i] = f.items[k][i]
                             \/ i = Len(f.items[k]) + 1 /\ its[k][i] = delta[k]
      OBVIOUS
    <2>1. its[k] = dedupDeltas(Append(f.items[k], delta[k]))
      OBVIOUS
    <2>2. delta[k] \in DeltaSet /\ f.items[k] \in Seq(DeltaSet)
      BY <1>1, <1>4
    <2>3. Extends(f.items[k], delta[k], dedupDeltas(Append(f.items[k], delta[k])))
      BY <2>2, DedupIs
    <2> HIDE DEF its
    <2> QED BY <2>1, <2>3 DEF Extends
  <1>12. \A k \in Keys : k \notin Range(order) => its[k] = f.items[k]
    OBVIOUS
  <1>13. its \in [Keys -> Seq(DeltaSet)]
    <2>1. \A k \in Keys : its[k] \in Seq(DeltaSet)
      BY <1>1, <1>11, <1>12
    <2> QED BY <2>1
  <1> HIDE DEF q, g, its, I, c
  <1>14. /\ g.items = its /\ g.queue = q /\ g.populated /\ g.initialPopulationCount = c
    BY <1>2
  <1>15. g \in Fifo
    BY <1>2, <1>3, <1>8, <1>13 DEF Fifo
  <1>16. FifoOK(g)
    <2>1. \A i \in 1..Len(f.queue) : f.items[f.queue[i]] # <<>>
      BY <1>1 DEF FifoOK
    <2>2. \A i, j \in 1..Len(q) : i # j => q[i] # q[j]
      <3> SUFFICES ASSUME NEW i \in 1..Len(q), NEW j \in 1..Len(q), i # j PROVE q[i] # q[j]
        OBVIOUS
      <3>1. i \in Int /\ j \in Int
        BY <1>1, <1>8
      <3>2. \A n \in 1..Len(q) : n \notin 1..Len(f.queue) =>
              n - Len(f.queue) \in 1..Len(s) /\ q[n] = s[n - Len(f.queue)]
        <4> SUFFICES ASSUME NEW n \in 1..Len(q), n \notin 1..Len(f.queue)
                     PROVE  n - Len(f.queue) \in 1..Len(s) /\ q[n] = s[n - Len(f.queue)]
          OBVIOUS
        <4>1. n - Len(f.queue) \in 1..Len(s) /\ n \in Int
          BY <1>1, <1>8
        <4>2. n = Len(f.queue) + (n - Len(f.queue))
          BY <1>1, <4>1
        <4> QED BY <1>8, <4>1, <4>2
      <3>3. CASE i \in 1..Len(f.queue) /\ j \in 1..Len(f.queue)
        BY <1>8, <3>3 DEF FifoOK
      <3> DEFINE m(n) == n - Len(f.queue)
      <3> HIDE DEF m
      <3>7. \A n \in 1..Len(q) : n \notin 1..Len(f.queue) => f.items[q[n]] = <<>>
        <4>1. \A n \in 1..Len(q) : n \notin 1..Len(f.queue) =>
                m(n) \in 1..Len(s) /\ q[n] = s[m(n)]
          BY <3>2 DEF m
        <4>2. \A x \in 1..Len(s) : f.items[s[x]] = <<>>
          BY <1>9
        <4> QED BY <4>1, <4>2
      <3>8. \A n \in 1..Len(f.queue) : f.items[q[n]] # <<>>
        BY <1>8, <2>1
      <3>4. CASE i \in 1..Len(f.queue) /\ j \notin 1..Len(f.queue)
        BY <3>4, <3>7, <3>8
      <3>5. CASE i \notin 1..Len(f.queue) /\ j \in 1..Len(f.queue)
        BY <3>5, <3>7, <3>8
      <3>6. CASE i \notin 1..Len(f.queue) /\ j \notin 1..Len(f.queue)
        <4>1. i - Len(f.queue) # j - Len(f.queue)
          BY <1>1, <3>1
        <4> QED BY <1>10, <3>2, <3>6, <4>1
      <3> QED BY <3>3, <3>4, <3>5, <3>6
    <2>3. \A k : (\E i \in 1..Len(q) : q[i] = k) <=>
            \/ \E i \in 1..Len(f.queue) : f.queue[i] = k
            \/ \E n \in 1..Len(s) : s[n] = k
      <3>1. \A n \in 1..Len(f.queue) : n \in 1..Len(q)
        BY <1>1, <1>8
      <3>2. \A n \in 1..Len(s) : Len(f.queue) + n \in 1..Len(q)
        BY <1>1, <1>8
      <3>3. \A n \in 1..Len(q) : n \notin 1..Len(f.queue) =>
              \E m \in 1..Len(s) : n = Len(f.queue) + m
        <4> SUFFICES ASSUME NEW n \in 1..Len(q), n \notin 1..Len(f.queue)
                     PROVE  \E m \in 1..Len(s) : n = Len(f.queue) + m
          OBVIOUS
        <4>1. n - Len(f.queue) \in 1..Len(s) /\ n \in Int
          BY <1>1, <1>8
        <4>2. n = Len(f.queue) + (n - Len(f.queue))
          BY <1>1, <4>1
        <4> QED BY <4>1, <4>2
      <3> SUFFICES ASSUME NEW k
                   PROVE (\E i \in 1..Len(q) : q[i] = k) <=>
                           \/ \E i \in 1..Len(f.queue) : f.queue[i] = k
                           \/ \E n \in 1..Len(s) : s[n] = k
        OBVIOUS
      <3>4. ASSUME NEW i \in 1..Len(q), q[i] = k
            PROVE  \/ \E n \in 1..Len(f.queue) : f.queue[n] = k
                   \/ \E n \in 1..Len(s) : s[n] = k
        <4>1. CASE i \in 1..Len(f.queue)
          BY <1>8, <3>4, <4>1
        <4>2. CASE i \notin 1..Len(f.queue)
          <5>1. PICK m \in 1..Len(s) : i = Len(f.queue) + m
            BY <3>3, <4>2
          <5> QED BY <1>8, <3>4, <5>1
        <4> QED BY <4>1, <4>2
      <3>5. ASSUME NEW n \in 1..Len(f.queue), f.queue[n] = k PROVE \E i \in 1..Len(q) : q[i] = k
        BY <1>8, <3>1, <3>5
      <3>6. ASSUME NEW n \in 1..Len(s), s[n] = k PROVE \E i \in 1..Len(q) : q[i] = k
        BY <1>8, <3>2, <3>6
      <3> QED BY <3>4, <3>5, <3>6
    <2>4. ASSUME NEW k \in Keys PROVE its[k] # <<>> <=> \E i \in 1..Len(q) : q[i] = k
      <3>1. CASE k \in Range(order)
        <4>1. its[k] # <<>>
          BY <1>11, <3>1
        <4>2. \E i \in 1..Len(q) : q[i] = k
          <5>1. CASE f.items[k] = <<>>
            <6>1. PICK i \in 1..Len(order) : order[i] = k
              BY <1>4, <3>1
            <6>2. \E n \in 1..Len(s) : s[n] = k
              BY <1>9, <5>1, <6>1
            <6> QED BY <2>3, <6>2
          <5>2. CASE f.items[k] # <<>>
            <6>1. \E i \in 1..Len(f.queue) : f.queue[i] = k
              BY <5>2 DEF FifoOK
            <6> QED BY <2>3, <6>1
          <5> QED BY <5>1, <5>2
        <4> QED BY <4>1, <4>2
      <3>2. CASE k \notin Range(order)
        <4>1. its[k] = f.items[k]
          BY <1>12, <3>2
        <4>2. ~\E n \in 1..Len(s) : s[n] = k
          BY <1>4, <1>9, <3>2
        <4> QED BY <2>3, <4>1, <4>2 DEF FifoOK
      <3> QED BY <3>1, <3>2
    <2> QED BY <1>14, <2>2, <2>4 DEF FifoOK
  <1>17. Gains(f, g, Range(order), delta)
    <2>1. ASSUME NEW k \in Keys, NEW i \in 1..Len(its[k]), its[k][i].type # "Deleted"
          PROVE  \/ i \in 1..Len(f.items[k]) /\ its[k][i] = f.items[k][i]
                 \/ k \in Range(order) /\ i = Len(f.items[k]) + 1 /\ its[k][i] = delta[k]
      <3>1. CASE k \in Range(order)
        BY <1>11, <2>1, <3>1
      <3>2. CASE k \notin Range(order)
        BY <1>12, <3>2
      <3> QED BY <3>1, <3>2
    <2>2. Len(f.queue) <= Len(q)
      BY <1>1, <1>8
    <2> QED BY <1>8, <1>14, <2>1, <2>2 DEF Gains
  <1>18. Len(g.queue) <= Len(f.queue) + Len(order)
    BY <1>1, <1>6, <1>8, <1>14
  <1>19. \A i \in 1..Len(order) : g.items[order[i]] # <<>>
    BY <1>1, <1>4, <1>11, <1>14
  <1> QED BY <1>14, <1>15, <1>16, <1>17, <1>18, <1>19 DEF g, c, Filled
----------------------------------------------------------------------------
(* Steps that leave parts of the state alone *)

LEMMA NoneIs == None \notin Obj /\ IsFiniteSet(Keys)
  BY StorageAssumption DEF Obj

LEMMA SubsetsFinite == ASSUME NEW S, S \subseteq Keys PROVE IsFiniteSet(S)
  BY NoneIs, FS_Subset

\* What the FIFO's and the indexer's invariants depend on.
LEMMA FifoSame ==
  ASSUME FifoOK(fifo), CountInv, IndexMatchesStore,
         UNCHANGED <<fifo, awaited, indexer, indices>>
  PROVE  FifoOK(fifo)' /\ CountInv' /\ IndexMatchesStore'
  BY DEF FifoOK, CountInv, IndexMatchesStore, Known

LEMMA HandlerSame ==
  ASSUME QuietInv, HandlerMissesNothing, UNCHANGED <<indexer, listening, pending, view>>
  PROVE  QuietInv' /\ HandlerMissesNothing'
  <1>1. Expected' = Expected
    BY DEF Expected, Tells, Says, Accepted, Accepts
  <1> QED BY <1>1 DEF QuietInv, HandlerMissesNothing, Known, Accepts

LEMMA LogSame == ASSUME LogInv, UNCHANGED <<kv, log>> PROVE LogInv'
  BY DEF LogInv, Logged

\* A step after which nothing is on its way that was not, and the log has not
\* lost anything.
LEMMA FlowLess ==
  ASSUME LoggedInv, OrderInv,
         \A k \in Keys, o \in Obj, i \in Nat :
           /\ InView(k, o)' => InView(k, o)
           /\ InNotes(k, i, o)' => InNotes(k, i, o)
           /\ InStore(k, o)' => InStore(k, o)
           /\ InFifo(k, i, o)' => InFifo(k, i, o)
           /\ InStream(k, i, o)' => InStream(k, i, o)
           /\ OnItsWay(k, o) => OnItsWay(k, o)'
  PROVE  LoggedInv' /\ OrderInv'
  <1>1. LoggedInv'
    BY DEF LoggedInv
  <1>2. OrderInv'
    BY DEF OrderInv
  <1> QED BY <1>1, <1>2

LEMMA InformerSame ==
  ASSUME UNCHANGED <<view, pending, indexer, fifo>>, NEW k, NEW o, NEW i
  PROVE  /\ InView(k, o)' <=> InView(k, o)
         /\ InNotes(k, i, o)' <=> InNotes(k, i, o)
         /\ InStore(k, o)' <=> InStore(k, o)
         /\ InFifo(k, i, o)' <=> InFifo(k, i, o)
  BY DEF InView, InNotes, InStore, InFifo

LEMMA StreamSame ==
  ASSUME UNCHANGED stream, NEW k, NEW o, NEW i PROVE InStream(k, i, o)' <=> InStream(k, i, o)
  BY DEF InStream

----------------------------------------------------------------------------
(* The storage *)

\* A write: its change is the log's last one and the object's version.
Writes(k, x, e) ==
  /\ e \in Change /\ e.key = k /\ e.obj.rev = Len(log) + 1
  /\ x \in Maybe /\ (x # None => x = e.obj)
  /\ kv' = [kv EXCEPT ![k] = x] /\ log' = Append(log, e)
  /\ UNCHANGED <<open, pos, stream>>

LEMMA WriteIs ==
  ASSUME TypeOK, Write PROVE \E k \in Keys, x \in Maybe, e \in Change : Writes(k, x, e)
  <1>1. PICK k \in Keys : (\E v \in Vals : Create(k, v) \/ Update(k, v)) \/ Purge(k)
    BY DEF Write
  <1>2. Len(log) + 1 \in Nat /\ kv[k] \in Maybe
    BY DEF TypeOK, StorageTypeOK
  <1>3. CASE \E v \in Vals : Create(k, v) \/ Update(k, v)
    <2>1. PICK v \in Vals : Create(k, v) \/ Update(k, v)
      BY <1>3
    <2> DEFINE obj == [val |-> v, rev |-> Len(log) + 1]
    <2>2. PICK type \in {"Added", "Modified"} :
            /\ kv' = [kv EXCEPT ![k] = obj] /\ log' = Append(log, Event(type, k, obj))
      BY <2>1 DEF Create, Update, etcdCreate, etcdGuaranteedUpdate, etcdPut
    <2>3. obj \in Obj /\ obj.rev = Len(log) + 1
      BY <1>2 DEF Obj
    <2> HIDE DEF obj
    <2> DEFINE e == Event(type, k, obj)
    <2>4. e \in Change /\ e.key = k /\ e.obj = obj
      BY <2>3 DEF Event, Change
    <2>5. UNCHANGED <<open, pos, stream>>
      BY <2>1 DEF Create, Update
    <2> HIDE DEF e
    <2>6. Writes(k, obj, e)
      BY <2>2, <2>3, <2>4, <2>5 DEF Writes, Maybe, e
    <2> QED BY <2>3, <2>4, <2>6 DEF Maybe
  <1>4. CASE Purge(k)
    <2> DEFINE obj == [val |-> kv[k].val, rev |-> Len(log) + 1]
               e == Event("Deleted", k, obj)
    <2>1. kv[k] \in Obj
      BY <1>2, <1>4 DEF Purge, Maybe
    <2>2. obj \in Obj /\ obj.rev = Len(log) + 1
      BY <1>2, <2>1 DEF Obj
    <2> HIDE DEF obj
    <2>3. e \in Change /\ e.key = k /\ e.obj = obj
      BY <2>2 DEF Event, Change
    <2>4. /\ kv' = [kv EXCEPT ![k] = None] /\ log' = Append(log, e)
          /\ UNCHANGED <<open, pos, stream>>
      BY <1>4 DEF Purge, obj
    <2> HIDE DEF e
    <2>5. Writes(k, None, e)
      BY <2>2, <2>3, <2>4 DEF Writes, Maybe
    <2> QED BY <2>3, <2>5 DEF Maybe
  <1> QED BY <1>1, <1>3, <1>4

LEMMA WriteKeeps == ASSUME IInv, Write PROVE IInv'
  <1>1. PICK k \in Keys, x \in Maybe, e \in Change : Writes(k, x, e)
    BY WriteIs DEF IInv
  <1>2. UNCHANGED <<reflector, received, faults, fifo, indexer, indices, listening, syncing,
                    pending, view, awaited>>
    BY DEF Write, informerVars
  <1>3. /\ kv' = [kv EXCEPT ![k] = x] /\ log' = Append(log, e)
        /\ UNCHANGED <<open, pos, stream>> /\ kv \in [Keys -> Maybe] /\ log \in Seq(Change)
        /\ pos \in Nat /\ pos <= Len(log)
    BY <1>1 DEF Writes, IInv, TypeOK, StorageTypeOK
  <1>4. /\ Len(log) \in Nat /\ log' \in Seq(Change) /\ Len(log') = Len(log) + 1
        /\ log'[Len(log) + 1] = e /\ \A i \in 1..Len(log) : log'[i] = log[i]
        /\ \A i \in 1..Len(log') : i \in 1..Len(log) \/ i = Len(log) + 1
    BY <1>1, <1>3, AppendIs
  <1>5. /\ kv' \in [Keys -> Maybe] /\ kv'[k] = x
        /\ \A j \in Keys : j # k => kv'[j] = kv[j]
    BY <1>1, <1>3
  <1>6. TypeOK'
    BY <1>2, <1>3, <1>4, <1>5 DEF IInv, TypeOK, StorageTypeOK
  <1>7. ASSUME NEW j \in Keys, NEW o \in Obj, Logged(j, o) PROVE Logged(j, o)'
    <2>1. o.rev \in 1..Len(log) /\ o.rev \in 1..Len(log')
      BY <1>4, <1>7 DEF Logged
    <2> QED BY <1>4, <1>7, <2>1 DEF Logged
  <1>8. e.key = k /\ e.obj.rev = Len(log) + 1 /\ (x # None => x = e.obj)
    BY <1>1 DEF Writes
  <1>9. LogInv'
    <2>1. \A i \in 1..Len(log') : log'[i].obj.rev = i
      BY <1>4, <1>8 DEF IInv, LogInv
    <2>2. ASSUME NEW j \in Keys, kv'[j] # None
          PROVE  /\ Logged(j, kv[j])'
                 /\ \A i \in 1..Len(log') : log'[i].key = j => i <= kv'[j].rev
      <3>1. CASE j = k
        <4>1. kv'[j] = e.obj /\ kv'[j].rev = Len(log) + 1
          BY <1>5, <1>8, <2>2, <3>1
        <4>2. Logged(j, kv[j])'
          BY <1>4, <1>8, <3>1, <4>1 DEF Logged
        <4>3. \A i \in 1..Len(log') : i <= Len(log) + 1
          BY <1>4
        <4> QED BY <4>1, <4>2, <4>3
      <3>2. CASE j # k
        <4>1. kv'[j] = kv[j] /\ kv[j] # None /\ kv[j] \in Obj
          BY <1>3, <1>5, <2>2, <3>2 DEF Maybe
        <4>2. Logged(j, kv[j]) /\ \A i \in 1..Len(log) : log[i].key = j => i <= kv[j].rev
          BY <4>1 DEF IInv, LogInv
        <4>3. Logged(j, kv[j])'
          <5>1. kv[j].rev \in 1..Len(log) /\ kv[j].rev \in 1..Len(log')
            BY <1>4, <4>2 DEF Logged
          <5> QED BY <1>4, <4>1, <4>2, <5>1 DEF Logged
        <4>4. \A i \in 1..Len(log') : log'[i].key = j => i <= kv'[j].rev
          BY <1>4, <1>8, <3>2, <4>1, <4>2
        <4> QED BY <4>3, <4>4
      <3> QED BY <3>1, <3>2
    <2> QED BY <2>1, <2>2 DEF LogInv
  <1>10. LoggedInv' /\ OrderInv'
    <2>1. \A j \in Keys, o \in Obj : OnItsWay(j, o) => OnItsWay(j, o)'
      BY <1>3, <1>7 DEF OnItsWay
    <2> QED BY <1>2, <1>3, <2>1, InformerSame, StreamSame, FlowLess DEF IInv
  <1>11. FifoOK(fifo)' /\ CountInv' /\ IndexMatchesStore' /\ QuietInv' /\ HandlerMissesNothing'
    BY <1>2, FifoSame, HandlerSame DEF IInv
  <1>12. WatchInv'
    BY <1>2, <1>3 DEF IInv, WatchInv
  <1> QED BY <1>6, <1>9, <1>10, <1>11, <1>12 DEF IInv

LEMMA ServeKeeps == ASSUME IInv, Serve PROVE IInv'
  <1>1. UNCHANGED <<kv, log, open, reflector, received, faults, fifo, indexer, indices,
                    listening, syncing, pending, view, awaited>>
    BY DEF Serve, processEvent, informerVars
  <1>2. /\ open /\ pos < Len(log) /\ pos' = pos + 1
        /\ stream' = Append(stream, transform(log[pos + 1]))
        /\ pos \in Nat /\ stream \in Seq(Change \cup End) /\ log \in Seq(Change)
        /\ Len(log) \in Nat
    BY DEF Serve, processEvent, IInv, TypeOK, StorageTypeOK
  <1>3. pos + 1 \in 1..Len(log) /\ log[pos + 1] \in Change
    BY <1>2
  <1>e. PICK e \in Change : e = log[pos + 1]
    BY <1>3
  <1> DEFINE t == transform(e)
  <1>4. /\ t \in Change /\ t.key = e.key /\ t.obj = e.obj
    BY DEF transform, Event, Change
  <1>5. e.obj.rev = pos + 1
    BY <1>3, <1>e DEF IInv, LogInv
  <1> HIDE DEF t
  <1>6. /\ stream' \in Seq(Change \cup End) /\ Len(stream') = Len(stream) + 1
        /\ Len(stream) \in Nat
        /\ \A i \in 1..Len(stream) : stream'[i] = stream[i]
        /\ stream'[Len(stream) + 1] = t
        /\ \A i \in 1..Len(stream') : i \in 1..Len(stream) \/ i = Len(stream) + 1
    <2>1. stream' = Append(stream, t) /\ t \in Change \cup End
      BY <1>2, <1>4, <1>e DEF t
    <2> QED BY <1>2, <2>1, AppendIs
  <1>7. TypeOK'
    BY <1>1, <1>2, <1>6 DEF IInv, TypeOK, StorageTypeOK
  <1>8. ASSUME NEW k \in Keys, NEW o \in Obj, NEW i \in Nat, InStream(k, i, o)'
        PROVE  InStream(k, i, o) \/ (i = Len(stream) + 1 /\ k = e.key /\ o = e.obj)
    BY <1>4, <1>6, <1>8 DEF InStream
  <1>9. ASSUME NEW k \in Keys, NEW o \in Obj, OnItsWay(k, o)
        PROVE  OnItsWay(k, o)' /\ o.rev <= pos /\ o.rev \in Nat
    BY <1>1, <1>2, <1>9 DEF OnItsWay, Logged, Obj
  <1>10. OnItsWay(e.key, e.obj)'
    BY <1>1, <1>2, <1>3, <1>5, <1>e DEF OnItsWay, Logged
  <1>11. e.obj \in Obj
    BY DEF Change
  <1>12. ASSUME NEW k, NEW o, NEW i
         PROVE  /\ InView(k, o)' <=> InView(k, o)
                /\ InNotes(k, i, o)' <=> InNotes(k, i, o)
                /\ InStore(k, o)' <=> InStore(k, o)
                /\ InFifo(k, i, o)' <=> InFifo(k, i, o)
    BY <1>1, InformerSame
  <1>13. LoggedInv'
    <2> SUFFICES ASSUME NEW k \in Keys, NEW o \in Obj, NEW i \in Nat,
                        \/ InView(k, o)' \/ InNotes(k, i, o)' \/ InStore(k, o)'
                        \/ InFifo(k, i, o)' \/ InStream(k, i, o)'
                 PROVE  OnItsWay(k, o)'
      BY DEF LoggedInv
    <2>1. \/ InView(k, o) \/ InNotes(k, i, o) \/ InStore(k, o) \/ InFifo(k, i, o)
          \/ InStream(k, i, o) \/ (k = e.key /\ o = e.obj)
      BY <1>8, <1>12
    <2>2. OnItsWay(k, o) \/ (k = e.key /\ o = e.obj)
      BY <2>1 DEF IInv, LoggedInv
    <2> QED BY <1>9, <1>10, <2>2
  <1>14. ASSUME NEW k \in Keys, NEW o \in Obj, NEW i \in Nat,
                InView(k, o) \/ InNotes(k, i, o) \/ InStore(k, o) \/ InFifo(k, i, o) \/ InStream(k, i, o)
         PROVE  o.rev <= e.obj.rev
    <2>1. OnItsWay(k, o)
      BY <1>14 DEF IInv, LoggedInv
    <2> QED BY <1>2, <1>5, <1>9, <2>1
  <1>15. \A k \in Keys, o \in Obj, i \in Nat : InStream(k, i, o) => i <= Len(stream)
    BY <1>6 DEF InStream
  <1>16. \A k \in Keys, o \in Obj, i \in Nat : InStream(k, i, o)' => i <= Len(stream) + 1
    BY <1>6 DEF InStream
  <1>17. OrderInv'
    <2> SUFFICES ASSUME NEW k \in Keys, NEW o \in Obj, NEW p \in Obj, NEW i \in Nat, NEW j \in Nat,
         \/ /\ InView(k, o)'
            /\ InNotes(k, j, p)' \/ InStore(k, p)' \/ InFifo(k, j, p)' \/ InStream(k, j, p)'
         \/ /\ InNotes(k, i, o)'
            /\ (InNotes(k, j, p)' /\ i < j) \/ InStore(k, p)' \/ InFifo(k, j, p)' \/ InStream(k, j, p)'
         \/ /\ InStore(k, o)'
            /\ InFifo(k, j, p)' \/ InStream(k, j, p)'
         \/ /\ InFifo(k, i, o)'
            /\ (InFifo(k, j, p)' /\ i < j) \/ InStream(k, j, p)'
         \/ InStream(k, i, o)' /\ InStream(k, j, p)' /\ i < j
                 PROVE o.rev <= p.rev
      BY DEF OrderInv
    <2>1. CASE InStream(k, j, p)' /\ ~InStream(k, j, p)
      <3>1. p = e.obj /\ j = Len(stream) + 1
        BY <1>8, <2>1
      <3>2. CASE InStream(k, i, o)' /\ ~InStream(k, i, o)
        <4>1. o = e.obj
          BY <1>8, <3>2
        <4> QED BY <1>2, <1>5, <3>1, <4>1
      <3>3. CASE ~(InStream(k, i, o)' /\ ~InStream(k, i, o))
        <4>1. InView(k, o) \/ InNotes(k, i, o) \/ InStore(k, o) \/ InFifo(k, i, o) \/ InStream(k, i, o)
          BY <1>12, <3>3
        <4> QED BY <1>14, <3>1, <4>1
      <3> QED BY <3>2, <3>3
    <2>2. CASE ~(InStream(k, j, p)' /\ ~InStream(k, j, p))
      <3>1. InStream(k, i, o)' /\ InStream(k, j, p)' /\ i < j => InStream(k, i, o)
        BY <1>6, <1>8, <1>15, <2>2
      <3> QED BY <1>12, <2>2, <3>1 DEF IInv, OrderInv
    <2> QED BY <2>1, <2>2
  <1>18. /\ FifoOK(fifo)' /\ CountInv' /\ IndexMatchesStore' /\ QuietInv'
         /\ HandlerMissesNothing' /\ LogInv'
    BY <1>1, FifoSame, HandlerSame, LogSame DEF IInv
  <1>19. WatchInv'
    BY <1>1, <1>2 DEF IInv, WatchInv
  <1> QED BY <1>7, <1>13, <1>17, <1>18, <1>19 DEF IInv

\* A step of the reflector or of the server after which the stream has at most
\* the changes it had, and the watch is not open.
LEMMA CloseKeeps ==
  ASSUME IInv, UNCHANGED <<kv, log, pos, fifo, indexer, indices, listening, syncing, pending,
                           view, awaited>>,
         reflector' \in {"list", "watch", "watching"}, received' \in BOOLEAN, faults' \in Nat,
         open' = FALSE, stream' \in Seq(Change \cup End), WatchInv',
         \A i \in 1..Len(stream') : stream'[i].type \notin EndTypes =>
           i \in 1..Len(stream) /\ stream'[i] = stream[i]
  PROVE  IInv'
  <1>1. TypeOK'
    BY DEF IInv, TypeOK, StorageTypeOK
  <1>2. ASSUME NEW k \in Keys, NEW o \in Obj, NEW i \in Nat, InStream(k, i, o)'
        PROVE  InStream(k, i, o)
    <2>1. i \in 1..Len(stream') /\ stream'[i].type \notin EndTypes
      BY <1>2 DEF InStream, EndTypes
    <2>2. i \in 1..Len(stream) /\ stream'[i] = stream[i]
      BY <2>1
    <2> QED BY <1>2, <2>2 DEF InStream
  <1>3. \A k \in Keys, o \in Obj : OnItsWay(k, o) => OnItsWay(k, o)'
    BY DEF OnItsWay, Logged
  <1>4. LoggedInv' /\ OrderInv'
    <2>1. LoggedInv /\ OrderInv
      BY DEF IInv
    <2> QED BY <1>2, <1>3, <2>1, InformerSame, FlowLess
  <1>5. /\ FifoOK(fifo)' /\ CountInv' /\ IndexMatchesStore' /\ QuietInv'
        /\ HandlerMissesNothing' /\ LogInv'
    BY FifoSame, HandlerSame, LogSame DEF IInv
  <1> QED BY <1>1, <1>4, <1>5 DEF IInv

LEMMA WatchEndsKeeps == ASSUME IInv, WatchEnds PROVE IInv'
  <1>1. PICK how \in EndTypes : ServeHTTPReturns(how)
    BY DEF WatchEnds
  <1>2. stream \in Seq(Change \cup End) /\ Len(stream) \in Nat /\ open
    BY <1>1 DEF IInv, TypeOK, StorageTypeOK, ServeHTTPReturns
  <1>3. PICK n \in 0..Len(stream) : stream' = Append(SubSeq(stream, 1, n), [type |-> how])
    BY <1>1 DEF ServeHTTPReturns
  <1> DEFINE b == SubSeq(stream, 1, n)
             x == [type |-> how]
  <1>4. x \in End /\ x.type \in EndTypes
    BY <1>1 DEF End
  <1>5. n \in Nat /\ n <= Len(stream)
    BY <1>2
  <1>6. b \in Seq(Change \cup End) /\ Len(b) = n /\ \A i \in 1..n : b[i] = stream[i]
    BY <1>2, <1>5, PrefixIs
  <1> HIDE DEF b, x
  <1>7. /\ stream' \in Seq(Change \cup End) /\ \A i \in 1..n : stream'[i] = stream[i]
        /\ stream'[n + 1] = x /\ \A i \in 1..Len(stream') : i \in 1..n \/ i = n + 1
    <2>1. stream' = Append(b, x)
      BY <1>3 DEF b, x
    <2>2. x \in Change \cup End
      BY <1>4
    <2> QED BY <1>6, <2>1, <2>2, AppendIs
  <1>8. \A i \in 1..n : i \in 1..Len(stream)
    BY <1>2, <1>5
  <1>9. \A i \in 1..Len(stream') : stream'[i].type \notin EndTypes =>
          i \in 1..Len(stream) /\ stream'[i] = stream[i]
    BY <1>4, <1>7, <1>8
  <1>10. /\ UNCHANGED <<kv, log, pos, fifo, indexer, indices, listening, syncing, pending, view,
                        awaited, reflector, received>>
         /\ faults' \in Nat /\ open' = FALSE
    BY <1>1 DEF WatchEnds, ServeHTTPReturns, handlerVars, IInv, TypeOK
  <1>11. WatchInv'
    BY <1>2, <1>10 DEF IInv, WatchInv
  <1> QED BY <1>7, <1>9, <1>10, <1>11, CloseKeeps DEF IInv, TypeOK

LEMMA WatchFailsKeeps == ASSUME IInv, WatchFails PROVE IInv'
  <1>1. /\ UNCHANGED <<kv, log, open, pos, stream, fifo, indexer, indices, listening, syncing,
                       pending, view, awaited, received>>
        /\ faults' \in Nat /\ reflector' = "list" /\ reflector = "watch"
    BY DEF WatchFails, storageVars, handlerVars, IInv, TypeOK
  <1>2. open = FALSE /\ stream = <<>> /\ stream \in Seq(Change \cup End)
    BY <1>1 DEF IInv, WatchInv, TypeOK, StorageTypeOK
  <1>3. WatchInv'
    BY <1>1, <1>2 DEF WatchInv
  <1> QED BY <1>1, <1>2, <1>3, CloseKeeps DEF IInv, TypeOK

LEMMA WatchReturnsKeeps == ASSUME IInv, WatchReturns PROVE IInv'
  <1>1. /\ UNCHANGED <<kv, log, pos, fifo, indexer, indices, listening, syncing, pending, view,
                       awaited, received, faults>>
        /\ reflector' \in {"list", "watch"} /\ open' = FALSE /\ stream' = <<>>
    BY DEF WatchReturns, StopWatch, handlerVars
  <1>2. WatchInv' /\ stream' \in Seq(Change \cup End) /\ Len(stream') = 0
    BY <1>1 DEF WatchInv
  <1>3. received \in BOOLEAN /\ faults \in Nat
    BY DEF IInv, TypeOK
  <1>4. \A i \in 1..Len(stream') : FALSE
    BY <1>2
  <1>5. reflector' \in {"list", "watch", "watching"} /\ received' \in BOOLEAN /\ faults' \in Nat
    BY <1>1, <1>3
  <1> QED BY <1>1, <1>2, <1>4, <1>5, CloseKeeps

----------------------------------------------------------------------------
(* The reflector *)

\* What etcd has of an object is the newest there is.
LEMMA NewestIs ==
  ASSUME LogInv, NEW k \in Keys, NEW o \in Obj, Logged(k, o), kv[k] # None
  PROVE  o.rev <= kv[k].rev
  BY DEF LogInv, Logged

LEMMA WatchKeeps == ASSUME IInv, Watch PROVE IInv'
  <1>1. /\ UNCHANGED <<kv, log, faults, fifo, indexer, indices, listening, syncing, pending, view,
                       awaited>>
        /\ reflector = "watch" /\ reflector' = "watching" /\ received' = FALSE
        /\ open' = TRUE /\ pos' = Len(log) /\ stream' = Sync
    BY DEF Watch, WatchList, startWatching, handlerVars
  <1>2. ~open /\ stream = <<>> /\ kv \in [Keys -> Maybe] /\ Len(log) \in Nat
    BY <1>1 DEF IInv, WatchInv, TypeOK, StorageTypeOK
  <1>3. IsFiniteSet(Live)
    BY SubsetsFinite DEF Live
  <1> DEFINE live == SetToSeq(Live)
             n == Len(live)
  <1>4. live \in Seq(Live) /\ n \in Nat /\ \A i \in 1..n : live[i] \in Live
    BY <1>3, SetToSeqIs
  <1>5. Sync = [i \in 1..n |-> Event("Added", live[i], kv[live[i]])]
    BY DEF Sync
  <1> HIDE DEF live, n
  <1>6. \A i \in 1..n : live[i] \in Keys /\ kv[live[i]] \in Obj
    BY <1>2, <1>4 DEF Live, Maybe
  <1>7. /\ stream' \in Seq(Change \cup End)
        /\ \A i \in 1..Len(stream') : \E j \in Keys :
             kv[j] \in Obj /\ stream'[i] = [type |-> "Added", key |-> j, obj |-> kv[j]]
    <2>1. \A i \in 1..n : Event("Added", live[i], kv[live[i]]) \in Change \cup End
      BY <1>6 DEF Event, Change
    <2>2. stream' \in [1..n -> Change \cup End]
      BY <1>1, <1>5, <2>1
    <2>3. stream' \in Seq(Change \cup End) /\ Len(stream') = n
      BY <1>4, <2>2, MadeIs
    <2> QED BY <1>1, <1>5, <1>6, <2>3 DEF Event
  <1>8. TypeOK'
    <2>1. open' \in BOOLEAN /\ received' \in BOOLEAN
      BY <1>1
    <2>2. pos' \in Nat /\ pos' <= Len(log') /\ log' = log
      BY <1>1, <1>2
    <2> QED BY <1>1, <1>7, <2>1, <2>2 DEF IInv, TypeOK, StorageTypeOK
  <1>9. ASSUME NEW k \in Keys, NEW o \in Obj, NEW i \in Nat, InStream(k, i, o)'
        PROVE  kv[k] # None /\ o = kv[k]
    <2>1. PICK j \in Keys :
            kv[j] \in Obj /\ stream'[i] = [type |-> "Added", key |-> j, obj |-> kv[j]]
      BY <1>7, <1>9 DEF InStream
    <2> QED BY <1>9, <2>1, NoneIs DEF InStream
  <1>10. ASSUME NEW k \in Keys, NEW o \in Obj, NEW i \in Nat,
                InView(k, o) \/ InNotes(k, i, o) \/ InStore(k, o) \/ InFifo(k, i, o)
         PROVE  Logged(k, o)
    BY <1>10 DEF IInv, LoggedInv, OnItsWay
  <1>11. \A k \in Keys : kv[k] # None => Logged(k, kv[k])
    BY DEF IInv, LogInv
  <1>12. ASSUME NEW k \in Keys, NEW o \in Obj, NEW i \in Nat,
                \/ InView(k, o)' \/ InNotes(k, i, o)' \/ InStore(k, o)'
                \/ InFifo(k, i, o)' \/ InStream(k, i, o)'
         PROVE  Logged(k, o)
    <2>1. CASE InStream(k, i, o)'
      BY <1>9, <1>11, <2>1
    <2>2. CASE ~InStream(k, i, o)'
      <3>1. InView(k, o) \/ InNotes(k, i, o) \/ InStore(k, o) \/ InFifo(k, i, o)
        BY <1>1, <1>12, <2>2, InformerSame
      <3> QED BY <1>10, <3>1
    <2> QED BY <2>1, <2>2
  <1>13. LoggedInv'
    <2>1. \A k \in Keys, o \in Obj : Logged(k, o) => OnItsWay(k, o)'
      BY <1>1, <1>2 DEF OnItsWay, Logged
    <2> QED BY <1>12, <2>1 DEF LoggedInv
  <1>14. ASSUME NEW k \in Keys, NEW o \in Obj, NEW p \in Obj, NEW i \in Nat, NEW j \in Nat,
                \/ InView(k, o)' \/ InNotes(k, i, o)' \/ InStore(k, o)'
                \/ InFifo(k, i, o)' \/ InStream(k, i, o)',
                InStream(k, j, p)'
         PROVE  o.rev <= p.rev
    <2>1. Logged(k, o)
      BY <1>12, <1>14
    <2> QED BY <1>9, <1>14, <2>1, NewestIs DEF IInv
  <1>15. OrderInv'
    <2>1. \A k \in Keys, o \in Obj, i \in Nat :
            /\ InView(k, o)' <=> InView(k, o)
            /\ InNotes(k, i, o)' <=> InNotes(k, i, o)
            /\ InStore(k, o)' <=> InStore(k, o)
            /\ InFifo(k, i, o)' <=> InFifo(k, i, o)
      BY <1>1, InformerSame
    <2> QED BY <1>14, <2>1 DEF IInv, OrderInv
  <1>16. /\ FifoOK(fifo)' /\ CountInv' /\ IndexMatchesStore' /\ QuietInv'
         /\ HandlerMissesNothing' /\ LogInv'
    BY <1>1, FifoSame, HandlerSame, LogSame DEF IInv
  <1>17. WatchInv'
    BY <1>1 DEF WatchInv
  <1> QED BY <1>8, <1>13, <1>15, <1>16, <1>17 DEF IInv

\* An object that may enter the FIFO for k: it was written, is as new as what has
\* passed the FIFO and no newer than what is still to come.
Enters(k, o) ==
  /\ OnItsWay(k, o)
  /\ \A p \in Obj, i \in Nat :
       /\ InView(k, p) \/ InNotes(k, i, p) \/ InStore(k, p) \/ InFifo(k, i, p) => p.rev <= o.rev
       /\ InStream(k, i, p)' => o.rev <= p.rev

\* A step that fills the FIFO, having taken d events of the stream.
LEMMA FillKeeps ==
  ASSUME IInv, UNCHANGED <<kv, log, open, pos, indexer, indices, listening, pending, view, faults>>,
         TypeOK', FifoOK(fifo)', CountInv', WatchInv',
         NEW Ks, NEW delta, Gains(fifo, fifo', Ks, delta),
         NEW d \in Nat,
         \A k \in Keys, o \in Obj, i \in Nat : InStream(k, i, o)' => InStream(k, i + d, o),
         \A k \in Keys : k \in Ks /\ delta[k].type # "Deleted" => Enters(k, delta[k].obj)
  PROVE  IInv'
  <1>1. ASSUME NEW k \in Keys, NEW o \in Obj, NEW i \in Nat
        PROVE  /\ InView(k, o)' <=> InView(k, o)
               /\ InNotes(k, i, o)' <=> InNotes(k, i, o)
               /\ InStore(k, o)' <=> InStore(k, o)
               /\ OnItsWay(k, o)' <=> OnItsWay(k, o)
    BY DEF InView, InNotes, InStore, OnItsWay, Logged
  <1>2. fifo \in Fifo /\ fifo' \in Fifo
    BY DEF IInv, TypeOK
  <1>3. ASSUME NEW k \in Keys, NEW o \in Obj, NEW i \in Nat, InFifo(k, i, o)'
        PROVE  InFifo(k, i, o) \/ (i = Len(fifo.items[k]) + 1 /\ Enters(k, o))
    <2>1. /\ i \in 1..Len(fifo'.items[k]) /\ fifo'.items[k][i].type # "Deleted"
          /\ fifo'.items[k][i].obj = o
      BY <1>3 DEF InFifo
    <2>2. \/ i \in 1..Len(fifo.items[k]) /\ fifo'.items[k][i] = fifo.items[k][i]
          \/ k \in Ks /\ i = Len(fifo.items[k]) + 1 /\ fifo'.items[k][i] = delta[k]
      BY <2>1 DEF Gains
    <2> QED BY <2>1, <2>2 DEF InFifo
  <1>4. ASSUME NEW k \in Keys, NEW o \in Obj, NEW i \in Nat, InFifo(k, i, o)
        PROVE  i <= Len(fifo.items[k])
    BY <1>2, <1>4 DEF InFifo, Fifo
  <1>5. LoggedInv'
    <2> SUFFICES ASSUME NEW k \in Keys, NEW o \in Obj, NEW i \in Nat,
                        \/ InView(k, o)' \/ InNotes(k, i, o)' \/ InStore(k, o)'
                        \/ InFifo(k, i, o)' \/ InStream(k, i, o)'
                 PROVE  OnItsWay(k, o)'
      BY DEF LoggedInv
    <2>1. CASE InFifo(k, i, o)' /\ ~InFifo(k, i, o)
      <3>1. OnItsWay(k, o)
        BY <1>3, <2>1 DEF Enters
      <3> QED BY <1>1, <3>1
    <2>2. CASE ~(InFifo(k, i, o)' /\ ~InFifo(k, i, o))
      <3>1. i + d \in Nat
        OBVIOUS
      <3>2. \/ InView(k, o) \/ InNotes(k, i, o) \/ InStore(k, o)
            \/ InFifo(k, i, o) \/ InStream(k, i + d, o)
        BY <1>1, <2>2
      <3>3. OnItsWay(k, o)
        <4>1. LoggedInv
          BY DEF IInv
        <4> QED BY <3>1, <3>2, <4>1 DEF LoggedInv
      <3> QED BY <1>1, <3>3
    <2> QED BY <2>1, <2>2
  <1>6. ASSUME NEW k \in Keys, NEW o \in Obj, NEW p \in Obj, NEW i \in Nat, NEW j \in Nat
        PROVE  /\ InFifo(k, j, p)' /\ ~InFifo(k, j, p)
                  /\ (InView(k, o) \/ InNotes(k, i, o) \/ InStore(k, o) \/ InFifo(k, i, o))
                  => o.rev <= p.rev
               /\ InFifo(k, i, o)' /\ ~InFifo(k, i, o) /\ InStream(k, j, p)' => o.rev <= p.rev
               /\ InFifo(k, i, o)' /\ InFifo(k, j, p)' /\ i < j => InFifo(k, i, o)
    <2>1. /\ InFifo(k, j, p)' /\ ~InFifo(k, j, p)
                  /\ (InView(k, o) \/ InNotes(k, i, o) \/ InStore(k, o) \/ InFifo(k, i, o))
                  => o.rev <= p.rev
      BY <1>3 DEF Enters
    <2>2. InFifo(k, i, o)' /\ ~InFifo(k, i, o) /\ InStream(k, j, p)' => o.rev <= p.rev
      BY <1>3 DEF Enters
    <2>3. Len(fifo.items[k]) \in Nat
      BY <1>2 DEF Fifo
    <2>4. InFifo(k, i, o)' /\ InFifo(k, j, p)' /\ i < j => InFifo(k, i, o)
      BY <1>3, <1>4, <2>3
    <2> QED BY <2>1, <2>2, <2>4
  <1>7. OrderInv'
    <2> SUFFICES ASSUME NEW k \in Keys, NEW o \in Obj, NEW p \in Obj, NEW i \in Nat, NEW j \in Nat,
         \/ /\ InView(k, o)'
            /\ InNotes(k, j, p)' \/ InStore(k, p)' \/ InFifo(k, j, p)' \/ InStream(k, j, p)'
         \/ /\ InNotes(k, i, o)'
            /\ (InNotes(k, j, p)' /\ i < j) \/ InStore(k, p)' \/ InFifo(k, j, p)' \/ InStream(k, j, p)'
         \/ /\ InStore(k, o)'
            /\ InFifo(k, j, p)' \/ InStream(k, j, p)'
         \/ /\ InFifo(k, i, o)'
            /\ (InFifo(k, j, p)' /\ i < j) \/ InStream(k, j, p)'
         \/ InStream(k, i, o)' /\ InStream(k, j, p)' /\ i < j
                 PROVE o.rev <= p.rev
      BY DEF OrderInv
    <2>0. OrderInv
      BY DEF IInv
    <2> DEFINE a == i + d
               b == j + d
    <2>1. a \in Nat /\ b \in Nat /\ (i < j => a < b)
      OBVIOUS
    <2>2. (InStream(k, i, o)' => InStream(k, a, o)) /\ (InStream(k, j, p)' => InStream(k, b, p))
      OBVIOUS
    <2> HIDE DEF a, b
    <2>3. CASE InStream(k, j, p)' /\ InStream(k, i, o)' /\ i < j
      BY <2>0, <2>1, <2>2, <2>3 DEF OrderInv
    <2>4. CASE InStream(k, j, p)' /\ InFifo(k, i, o)'
      <3>1. CASE InFifo(k, i, o)
        BY <2>0, <2>1, <2>2, <2>4, <3>1 DEF OrderInv
      <3>2. CASE ~InFifo(k, i, o)
        BY <1>6, <2>4, <3>2
      <3> QED BY <3>1, <3>2
    <2>5. CASE InStream(k, j, p)' /\ (InView(k, o)' \/ InNotes(k, i, o)' \/ InStore(k, o)')
      <3>1. InStream(k, b, p) /\ (InView(k, o) \/ InNotes(k, i, o) \/ InStore(k, o))
        BY <1>1, <2>2, <2>5
      <3> QED BY <2>0, <2>1, <3>1 DEF OrderInv
    <2>6. CASE InFifo(k, j, p)' /\ (\/ InView(k, o)' \/ InNotes(k, i, o)' \/ InStore(k, o)'
                                    \/ (InFifo(k, i, o)' /\ i < j))
      <3>1. InView(k, o) \/ InNotes(k, i, o) \/ InStore(k, o) \/ (InFifo(k, i, o) /\ i < j)
        BY <1>1, <1>6, <2>6
      <3>2. CASE InFifo(k, j, p)
        BY <2>0, <3>1, <3>2 DEF OrderInv
      <3>3. CASE ~InFifo(k, j, p)
        BY <1>6, <2>6, <3>1, <3>3
      <3> QED BY <3>2, <3>3
    <2>7. CASE \/ InView(k, o)' /\ (InNotes(k, j, p)' \/ InStore(k, p)')
               \/ InNotes(k, i, o)' /\ ((InNotes(k, j, p)' /\ i < j) \/ InStore(k, p)')
      <3>1. \/ InView(k, o) /\ (InNotes(k, j, p) \/ InStore(k, p))
            \/ InNotes(k, i, o) /\ ((InNotes(k, j, p) /\ i < j) \/ InStore(k, p))
        BY <1>1, <2>7
      <3> QED BY <2>0, <3>1 DEF OrderInv
    <2> QED BY <2>3, <2>4, <2>5, <2>6, <2>7
  <1>8. QuietInv' /\ HandlerMissesNothing' /\ LogInv'
    BY HandlerSame, LogSame DEF IInv
  <1>9. IndexMatchesStore'
    BY DEF IInv, IndexMatchesStore, Known
  <1> QED BY <1>5, <1>7, <1>8, <1>9 DEF IInv

\* What is awaited stays where it is when the FIFO gains.
LEMMA CountGains ==
  ASSUME fifo \in Fifo, CountInv, NEW Ks, NEW delta, Gains(fifo, fifo', Ks, delta),
         fifo'.populated, fifo'.queue \in Seq(Keys),
         fifo'.initialPopulationCount = fifo.initialPopulationCount, UNCHANGED awaited
  PROVE  CountInv'
  <1>1. /\ Len(fifo.queue) <= Len(fifo'.queue) /\ Len(fifo.queue) \in Nat /\ Len(fifo'.queue) \in Nat
        /\ \A i \in 1..Len(fifo.queue) : fifo'.queue[i] = fifo.queue[i]
    BY DEF Gains, Fifo
  <1>2. \A i \in 1..Len(fifo.queue) : i \in 1..Len(fifo'.queue)
    BY <1>1
  <1> QED BY <1>1, <1>2 DEF CountInv

LEMMA ListKeeps == ASSUME IInv, List PROVE IInv'
  <1>1. PICK listed \in etcdGetList, gone \in SetToSeqs(Known \ Live) :
          fifo' = Replace(fifo, listed, gone)
    BY DEF List
  <1>2. /\ UNCHANGED <<kv, log, open, pos, stream, indexer, indices, listening, syncing, pending,
                       view, faults, received>>
        /\ reflector = "list" /\ reflector' = "watch"
        /\ awaited' = IF fifo.populated THEN awaited ELSE Live
    BY DEF List, storageVars, handlerVars
  <1>3. /\ kv \in [Keys -> Maybe] /\ indexer \in [Keys -> Maybe] /\ fifo \in Fifo /\ FifoOK(fifo)
        /\ ~open /\ stream = <<>> /\ awaited \subseteq Keys
    BY <1>2 DEF IInv, TypeOK, StorageTypeOK, WatchInv
  <1>4. Live \subseteq Keys /\ Known \subseteq Keys
    BY DEF Live, Known
  <1>5. listed \in SetToSeqs(Live)
    BY DEF etcdGetList
  <1>6. /\ listed \in Seq(Live)
        /\ \A i, j \in 1..Len(listed) : i # j => listed[i] # listed[j]
        /\ \A x \in Live : \E i \in 1..Len(listed) : listed[i] = x
    BY SMTT(30), <1>4, <1>5, SubsetsFinite, OrderIs
  <1>7. /\ gone \in Seq(Known \ Live)
        /\ \A i, j \in 1..Len(gone) : i # j => gone[i] # gone[j]
    <2>1. IsFiniteSet(Known \ Live)
      BY <1>4, SubsetsFinite
    <2> QED BY <2>1, OrderIs
  <1> DEFINE order == listed \o gone
             count == Len(listed) + Len(gone)
  <1>8. listed \in Seq(Keys) /\ gone \in Seq(Keys)
    BY <1>4, <1>6, <1>7
  <1>9. /\ order \in Seq(Keys) /\ Len(order) = count /\ Len(listed) \in Nat /\ Len(gone) \in Nat
        /\ \A n \in 1..Len(listed) : order[n] = listed[n]
        /\ \A n \in 1..Len(gone) : order[Len(listed) + n] = gone[n]
        /\ \A n \in 1..Len(order) : n \in 1..Len(listed) \/ n - Len(listed) \in 1..Len(gone)
    BY <1>8, ConcatIs
  <1> HIDE DEF order
  <1>10. ASSUME NEW n \in 1..Len(order), n \notin 1..Len(listed)
         PROVE  \E m \in 1..Len(gone) : n = Len(listed) + m /\ order[n] = gone[m]
    <2> DEFINE m == n - Len(listed)
    <2>1. m \in 1..Len(gone) /\ n \in Int
      BY <1>9, <1>10
    <2>2. n = Len(listed) + m
      BY <1>9, <2>1
    <2> HIDE DEF m
    <2> QED BY <1>9, <2>1, <2>2
  <1>11. \A n \in 1..Len(order) : n \notin 1..Len(listed) => order[n] \in Known \ Live
    <2> SUFFICES ASSUME NEW n \in 1..Len(order), n \notin 1..Len(listed)
                 PROVE  order[n] \in Known \ Live
      OBVIOUS
    <2>1. PICK m \in 1..Len(gone) : order[n] = gone[m]
      BY <1>10
    <2>2. gone[m] \in Known \ Live
      BY <1>7
    <2> QED BY <2>1, <2>2
  <1>12. \A n \in 1..Len(order) : n \in 1..Len(listed) => order[n] \in Live
    <2>1. \A n \in 1..Len(listed) : listed[n] \in Live
      BY <1>6
    <2> QED BY <1>9, <2>1
  <1>13. \A i, j \in 1..Len(order) : i # j => order[i] # order[j]
    <2> SUFFICES ASSUME NEW i \in 1..Len(order), NEW j \in 1..Len(order), i # j
                 PROVE  order[i] # order[j]
      OBVIOUS
    <2>1. CASE i \in 1..Len(listed) /\ j \in 1..Len(listed)
      BY <1>6, <1>9, <2>1
    <2>2. CASE i \in 1..Len(listed) /\ j \notin 1..Len(listed)
      BY <1>11, <1>12, <2>2
    <2>3. CASE i \notin 1..Len(listed) /\ j \in 1..Len(listed)
      BY <1>11, <1>12, <2>3
    <2>4. CASE i \notin 1..Len(listed) /\ j \notin 1..Len(listed)
      <3>1. PICK m \in 1..Len(gone) : i = Len(listed) + m /\ order[i] = gone[m]
        BY <1>10, <2>4
      <3>2. PICK n \in 1..Len(gone) : j = Len(listed) + n /\ order[j] = gone[n]
        BY <1>10, <2>4
      <3>3. m # n
        BY <3>1, <3>2
      <3> QED BY <1>7, <3>1, <3>2, <3>3
    <2> QED BY <2>1, <2>2, <2>3, <2>4
  <1>14. \A i \in 1..Len(order) : Listed[order[i]] \in DeltaSet
    <2> SUFFICES ASSUME NEW i \in 1..Len(order) PROVE Listed[order[i]] \in DeltaSet
      OBVIOUS
    <2>1. order[i] \in Keys /\ (order[i] \in Live \/ order[i] \in Known)
      BY <1>4, <1>11, <1>12
    <2>2. kv[order[i]] \in Obj \/ (kv[order[i]] = None /\ indexer[order[i]] \in Obj)
      BY <1>3, <2>1 DEF Live, Known, Maybe
    <2>3. \/ kv[order[i]] # None /\ Listed[order[i]] = Delta("Replaced", kv[order[i]], FALSE)
          \/ kv[order[i]] = None /\ Listed[order[i]] = Delta("Deleted", indexer[order[i]], TRUE)
      BY <2>1 DEF Listed
    <2>4. CASE kv[order[i]] # None
      <3>1. kv[order[i]] \in Obj /\ Listed[order[i]] = Delta("Replaced", kv[order[i]], FALSE)
        BY <2>2, <2>3, <2>4
      <3> QED BY <3>1 DEF Delta, DeltaSet, DeltaType
    <2>5. CASE kv[order[i]] = None
      <3>1. indexer[order[i]] \in Obj /\ Listed[order[i]] = Delta("Deleted", indexer[order[i]], TRUE)
        BY <2>2, <2>3, <2>5, NoneIs
      <3> QED BY <3>1 DEF Delta, DeltaSet, DeltaType
    <2> QED BY <2>4, <2>5
  <1>15. fifo' = queueActions(fifo, order, Listed, count)
    BY <1>1 DEF Replace, order
  <1>16. count \in Nat
    BY <1>9
  <1> HIDE DEF count
  <1>17. PICK delta : delta = Listed
    OBVIOUS
  <1>18. /\ fifo' \in Fifo /\ FifoOK(fifo') /\ fifo'.populated
         /\ fifo'.initialPopulationCount =
              IF fifo.populated THEN fifo.initialPopulationCount ELSE count
         /\ Gains(fifo, fifo', Range(order), delta)
         /\ Len(fifo'.queue) <= Len(fifo.queue) + Len(order)
         /\ \A i \in 1..Len(order) : fifo'.items[order[i]] # <<>>
    <2>1. \A i \in 1..Len(order) : delta[order[i]] \in DeltaSet
      BY <1>14, <1>17
    <2>2. Filled(fifo, fifo', order, delta, count)
      <3>1. Filled(fifo, queueActions(fifo, order, delta, count), order, delta, count)
        <4>1. fifo \in Fifo /\ FifoOK(fifo) /\ order \in Seq(Keys)
          BY <1>3, <1>9
        <4>2. Distinct(order)
          BY <1>13 DEF Distinct
        <4> QED BY <1>16, <2>1, <4>1, <4>2, QueueActionsIs
      <3> QED BY <1>15, <1>17, <3>1
    <2> QED BY <2>2 DEF Filled
  <1>19. TypeOK'
    <2>1. awaited' \subseteq Keys
      BY <1>2, <1>3, <1>4
    <2> QED BY <1>2, <1>18, <2>1 DEF IInv, TypeOK, StorageTypeOK
  <1>20. CountInv'
    <2>1. CASE fifo.populated
      BY <1>2, <1>3, <1>18, <2>1, CountGains DEF IInv, Fifo
    <2>2. CASE ~fifo.populated
      <3>1. fifo.queue = <<>> /\ awaited' = Live /\ fifo'.initialPopulationCount = count
        BY <1>2, <1>18, <2>2 DEF IInv, CountInv
      <3>2. Len(fifo'.queue) <= count /\ Len(fifo'.queue) \in Nat
        BY <1>9, <1>18, <3>1 DEF Fifo, count
      <3>3. ASSUME NEW k \in Live
            PROVE  \E i \in 1..Len(fifo'.queue) : i <= count /\ fifo'.queue[i] = k
        <4>1. PICK n \in 1..Len(listed) : listed[n] = k
          BY <1>6
        <4>2. n \in 1..Len(order) /\ order[n] = k
          BY <1>9, <4>1 DEF count
        <4>3. fifo'.items[k] # <<>> /\ k \in Keys
          BY <1>4, <1>18, <4>2
        <4>4. PICK i \in 1..Len(fifo'.queue) : fifo'.queue[i] = k
          BY <1>18, <4>3 DEF FifoOK
        <4>5. i <= count
          BY <1>16, <3>2
        <4> QED BY <4>4, <4>5
      <3> QED BY <1>18, <3>1, <3>3 DEF CountInv
    <2> QED BY <2>1, <2>2
  <1>21. ASSUME NEW k \in Keys, delta[k].type # "Deleted", k \in Range(order)
         PROVE  Enters(k, delta[k].obj)
    <2>1. kv[k] # None /\ delta[k].obj = kv[k]
      BY <1>17, <1>21 DEF Listed, Delta
    <2>2. OnItsWay(k, kv[k])
      BY <1>3, <2>1 DEF OnItsWay, IInv, LogInv
    <2>3. ASSUME NEW p \in Obj, NEW i \in Nat,
                 InView(k, p) \/ InNotes(k, i, p) \/ InStore(k, p) \/ InFifo(k, i, p)
          PROVE  p.rev <= kv[k].rev
      <3>1. Logged(k, p)
        BY <2>3 DEF IInv, LoggedInv, OnItsWay
      <3> QED BY <2>1, <3>1, NewestIs DEF IInv
    <2>4. ASSUME NEW p \in Obj, NEW i \in Nat, InStream(k, i, p)' PROVE FALSE
      BY <1>2, <1>3, <2>4 DEF InStream
    <2> QED BY <2>1, <2>2, <2>3, <2>4 DEF Enters
  <1>22. WatchInv'
    BY <1>2, <1>3 DEF WatchInv
  <1>23. FifoOK(fifo)'
    BY <1>18 DEF FifoOK
  <1>24. \A k \in Keys, o \in Obj, i \in Nat : InStream(k, i, o)' => InStream(k, i + 0, o)
    BY <1>2, <1>3 DEF InStream
  <1>25. \A k \in Keys : k \in Range(order) /\ delta[k].type # "Deleted" => Enters(k, delta[k].obj)
    BY <1>21
  <1> QED BY <1>2, <1>18, <1>19, <1>20, <1>22, <1>23, <1>24, <1>25, FillKeeps

\* The FIFO has gained, at most, the object of the change e.
Takes(e, Ks, delta) ==
  /\ fifo' \in Fifo /\ FifoOK(fifo') /\ fifo'.populated
  /\ fifo'.initialPopulationCount = fifo.initialPopulationCount
  /\ Gains(fifo, fifo', Ks, delta)
  /\ \A k \in Keys : k \in Ks /\ delta[k].type # "Deleted" =>
       k = e.key /\ e.type # "Deleted" /\ delta[k].obj = e.obj

LEMMA ReceiveEventKeeps == ASSUME IInv, ReceiveEvent PROVE IInv'
  <1>1. /\ UNCHANGED <<kv, log, open, pos, reflector, faults, indexer, indices, listening, syncing,
                       pending, view, awaited>>
        /\ reflector = "watching" /\ stream # <<>> /\ Head(stream).type \notin EndTypes
        /\ fifo' = StoreEvent(Head(stream)) /\ stream' = Tail(stream) /\ received' = TRUE
    BY DEF ReceiveEvent, handlerVars
  <1>2. /\ stream \in Seq(Change \cup End) /\ fifo \in Fifo /\ FifoOK(fifo) /\ CountInv
        /\ LoggedInv /\ OrderInv
    BY DEF IInv, TypeOK, StorageTypeOK
  <1>3. /\ stream' \in Seq(Change \cup End) /\ Head(stream) = stream[1]
        /\ Head(stream) \in Change \cup End /\ Len(stream) \in Nat \ {0}
        /\ \A i \in 1..Len(stream') : stream'[i] = stream[i + 1] /\ i + 1 \in 1..Len(stream)
    BY <1>1, <1>2, TailIs
  <1>4. Head(stream) \in Change
    BY <1>1, <1>3 DEF End
  <1>5. PICK e \in Change : e = Head(stream)
    BY <1>4
  <1>6. e.type \in {"Added", "Modified", "Deleted"} /\ e.key \in Keys /\ e.obj \in Obj
    BY DEF Change
  <1> DEFINE d(type) == Delta(type, e.obj, FALSE)
  <1>t. \E Ks, delta : Takes(e, Ks, delta)
    <2>1. ASSUME NEW type \in DeltaType, type # "Deleted" => e.type # "Deleted",
                 fifo' = queueActionLocked(fifo, e.key, d(type))
          PROVE  \E Ks, delta : Takes(e, Ks, delta)
      <3>1. PICK x : x = d(type)
        OBVIOUS
      <3>2. x \in DeltaSet /\ x.type = type /\ x.obj = e.obj
        BY <1>6, <3>1 DEF Delta, DeltaSet
      <3>3. fifo' = queueActionLocked(fifo, e.key, x)
        BY <2>1, <3>1
      <3>4. /\ fifo' \in Fifo /\ FifoOK(fifo') /\ fifo'.populated
            /\ fifo'.initialPopulationCount = fifo.initialPopulationCount
            /\ Gains(fifo, fifo', {e.key}, [j \in Keys |-> x])
        BY <1>2, <1>6, <3>2, <3>3, QueueOneIs
      <3>5. \A k \in Keys : k \in {e.key} /\ [j \in Keys |-> x][k].type # "Deleted" =>
              k = e.key /\ e.type # "Deleted" /\ [j \in Keys |-> x][k].obj = e.obj
        BY <2>1, <3>2
      <3>6. Takes(e, {e.key}, [j \in Keys |-> x])
        BY <3>4, <3>5 DEF Takes
      <3> QED BY <3>6
    <2>2. CASE e.type = "Added"
      <3>1. fifo' = queueActionLocked(fifo, e.key, d("Added"))
        BY <1>1, <1>5, <2>2 DEF StoreEvent, FifoAdd
      <3> QED BY <2>1, <2>2, <3>1 DEF DeltaType
    <2>3. CASE e.type = "Modified"
      <3>1. fifo' = queueActionLocked(fifo, e.key, d("Updated"))
        BY <1>1, <1>5, <2>3 DEF StoreEvent, FifoUpdate
      <3> QED BY <2>1, <2>3, <3>1 DEF DeltaType
    <2>4. CASE e.type = "Deleted"
      <3>1. fifo' = FifoDelete(fifo, e.key, e.obj)
        BY <1>1, <1>5, <2>4 DEF StoreEvent
      <3>2. CASE e.key \notin Known /\ fifo.items[e.key] = <<>>
        <4>1. fifo' = [items |-> fifo.items, queue |-> fifo.queue, populated |-> TRUE,
                       initialPopulationCount |-> fifo.initialPopulationCount]
          BY <3>1, <3>2 DEF FifoDelete
        <4>2. /\ fifo'.items = fifo.items /\ fifo'.queue = fifo.queue /\ fifo'.populated
              /\ fifo'.initialPopulationCount = fifo.initialPopulationCount
          BY <4>1
        <4>3. fifo' \in Fifo
          BY <1>2, <4>1 DEF Fifo
        <4>4. FifoOK(fifo')
          BY <1>2, <4>2 DEF FifoOK
        <4>5. Gains(fifo, fifo', {}, NoObjects)
          BY <1>2, <4>2, GainsNothing
        <4>6. Takes(e, {}, NoObjects)
          BY <4>2, <4>3, <4>4, <4>5 DEF Takes
        <4> QED BY <4>6
      <3>3. CASE ~(e.key \notin Known /\ fifo.items[e.key] = <<>>)
        <4>1. fifo' = queueActionLocked(fifo, e.key, d("Deleted"))
          BY <3>1, <3>3 DEF FifoDelete
        <4> QED BY <2>1, <4>1 DEF DeltaType
      <3> QED BY <3>2, <3>3
    <2> QED BY <1>6, <2>2, <2>3, <2>4
  <1>p. PICK Ks, delta : Takes(e, Ks, delta)
    BY <1>t
  <1>7. /\ fifo' \in Fifo /\ FifoOK(fifo') /\ fifo'.populated
        /\ fifo'.initialPopulationCount = fifo.initialPopulationCount
        /\ Gains(fifo, fifo', Ks, delta)
        /\ \A k \in Keys : k \in Ks /\ delta[k].type # "Deleted" =>
             k = e.key /\ e.type # "Deleted" /\ delta[k].obj = e.obj
    BY <1>p DEF Takes
  <1>8. ASSUME NEW k \in Keys, NEW o \in Obj, NEW i \in Nat, InStream(k, i, o)'
        PROVE  InStream(k, i + 1, o)
    BY <1>3, <1>8 DEF InStream
  <1>9. ASSUME e.type # "Deleted" PROVE Enters(e.key, e.obj)
    <2>1. InStream(e.key, 1, e.obj)
      BY <1>3, <1>5, <1>6, <1>9 DEF InStream
    <2>2. OnItsWay(e.key, e.obj)
      BY <1>2, <1>6, <2>1 DEF LoggedInv
    <2>3. ASSUME NEW p \in Obj, NEW i \in Nat,
                 \/ InView(e.key, p) \/ InNotes(e.key, i, p) \/ InStore(e.key, p)
                 \/ InFifo(e.key, i, p)
          PROVE  p.rev <= e.obj.rev
      BY <1>2, <1>6, <2>1, <2>3 DEF OrderInv
    <2>4. ASSUME NEW p \in Obj, NEW i \in Nat, InStream(e.key, i, p)' PROVE e.obj.rev <= p.rev
      <3>1. InStream(e.key, i + 1, p) /\ i + 1 \in Nat /\ 1 < i + 1
        BY <1>3, <1>6, <1>8, <2>4 DEF InStream
      <3> QED BY <1>2, <1>6, <2>1, <3>1 DEF OrderInv
    <2> QED BY <2>2, <2>3, <2>4 DEF Enters
  <1>10. TypeOK'
    <2>1. received' \in BOOLEAN
      BY <1>1
    <2> QED BY <1>1, <1>3, <1>7, <2>1 DEF IInv, TypeOK, StorageTypeOK
  <1>11. CountInv'
    <2>1. fifo'.queue \in Seq(Keys)
      BY <1>7 DEF Fifo
    <2> QED BY <1>1, <1>2, <1>7, <2>1, CountGains
  <1>12. WatchInv'
    BY <1>1 DEF WatchInv
  <1>13. FifoOK(fifo)'
    BY <1>7 DEF FifoOK
  <1>14. \A k \in Keys : k \in Ks /\ delta[k].type # "Deleted" => Enters(k, delta[k].obj)
    BY <1>7, <1>9
  <1>15. \A k \in Keys, o \in Obj, i \in Nat : InStream(k, i, o)' => InStream(k, i + 1, o)
    BY <1>8
  <1> QED BY <1>1, <1>7, <1>10, <1>11, <1>12, <1>13, <1>14, <1>15, FillKeeps

LEMMA ResyncKeeps == ASSUME IInv, Resync PROVE IInv'
  <1>1. /\ UNCHANGED <<kv, log, open, pos, stream, reflector, received, faults, indexer, indices,
                       listening, pending, view, awaited>>
        /\ fifo.populated /\ syncing' \in BOOLEAN
        /\ (fifo' = fifo \/ \E order \in SetToSeqs(Known) : fifo' = FifoResync(fifo, order))
    BY DEF Resync, shouldResync, storageVars
  <1>2. /\ fifo \in Fifo /\ FifoOK(fifo) /\ CountInv /\ LoggedInv /\ OrderInv /\ WatchInv
        /\ indexer \in [Keys -> Maybe]
    BY DEF IInv, TypeOK
  <1>3. WatchInv'
    BY <1>1, <1>2 DEF WatchInv
  <1>4. \A k \in Keys, o \in Obj, i \in Nat : InStream(k, i, o)' => InStream(k, i + 0, o)
    BY <1>1 DEF InStream
  <1>5. CASE fifo' = fifo
    <2>1. TypeOK'
      BY <1>1, <1>5 DEF IInv, TypeOK, StorageTypeOK
    <2>2. FifoOK(fifo)' /\ CountInv'
      BY <1>1, <1>2, <1>5 DEF FifoOK, CountInv
    <2>3. Gains(fifo, fifo', {}, NoObjects)
      BY <1>2, <1>5, GainsNothing
    <2> QED BY <1>1, <1>3, <1>4, <2>1, <2>2, <2>3, FillKeeps
  <1>6. ASSUME NEW order \in SetToSeqs(Known), fifo' = FifoResync(fifo, order) PROVE IInv'
    <2>1. Known \subseteq Keys
      BY DEF Known
    <2>2. /\ order \in Seq(Known) /\ \A i, j \in 1..Len(order) : i # j => order[i] # order[j]
      BY <2>1, SubsetsFinite, OrderIs
    <2> DEFINE I == {i \in 1..Len(order) : fifo.items[order[i]] = <<>>}
               s == Selected(order, I)
    <2>3. fifo' = queueActions(fifo, s, Synced, 0)
      BY <1>6 DEF FifoResync
    <2>4. Picks(Known, order, I, s)
      <3>1. I \subseteq 1..Len(order)
        OBVIOUS
      <3> HIDE DEF I
      <3> QED BY <2>2, <3>1, SelectedIs
    <2>5. \A i \in I : i \in 1..Len(order) /\ fifo.items[order[i]] = <<>>
      OBVIOUS
    <2> HIDE DEF I, s
    <2>6. s \in Seq(Known) /\ s \in Seq(Keys) /\ Len(s) \in Nat
      BY <2>1, <2>4 DEF Picks
    <2>7. PICK at \in [1..Len(s) -> I] :
            /\ \A m, n \in 1..Len(s) : m < n => at[m] < at[n]
            /\ \A n \in 1..Len(s) : s[n] = order[at[n]]
      BY <2>4 DEF Picks
    <2>8. \A n \in 1..Len(s) : at[n] \in 1..Len(order) /\ at[n] \in Int /\ fifo.items[s[n]] = <<>>
      <3>1. \A n \in 1..Len(s) : at[n] \in 1..Len(order) /\ fifo.items[s[n]] = <<>>
        BY <2>5, <2>7
      <3>2. Len(order) \in Nat
        BY <2>2
      <3> QED BY <3>1, <3>2
    <2>9. Distinct(s)
      <3> SUFFICES ASSUME NEW m \in 1..Len(s), NEW n \in 1..Len(s), m # n PROVE s[m] # s[n]
        BY DEF Distinct
      <3>1. m < n \/ n < m
        BY <2>6
      <3>2. at[m] # at[n]
        BY <2>7, <2>8, <3>1
      <3> QED BY <2>2, <2>7, <2>8, <3>2
    <2>10. PICK delta : delta = Synced
      OBVIOUS
    <2>11. \A k \in Known : delta[k] \in DeltaSet /\ delta[k].obj = indexer[k] /\ indexer[k] \in Obj
      <3> SUFFICES ASSUME NEW k \in Known
                   PROVE  delta[k] \in DeltaSet /\ delta[k].obj = indexer[k] /\ indexer[k] \in Obj
        OBVIOUS
      <3>1. indexer[k] \in Obj /\ k \in Keys
        BY <1>2 DEF Known, Maybe
      <3>2. delta[k] = Delta("Sync", indexer[k], FALSE)
        BY <2>10, <3>1 DEF Synced
      <3> QED BY <3>1, <3>2 DEF Delta, DeltaSet, DeltaType
    <2>12. Filled(fifo, fifo', s, delta, 0)
      <3>1. \A i \in 1..Len(s) : delta[s[i]] \in DeltaSet
        BY <2>6, <2>11
      <3>2. Filled(fifo, queueActions(fifo, s, delta, 0), s, delta, 0)
        BY <1>2, <2>6, <2>9, <3>1, QueueActionsIs
      <3> QED BY <2>3, <2>10, <3>2
    <2>13. /\ fifo' \in Fifo /\ FifoOK(fifo') /\ fifo'.populated
           /\ fifo'.initialPopulationCount = fifo.initialPopulationCount
           /\ Gains(fifo, fifo', Range(s), delta)
      BY <1>1, <2>12 DEF Filled
    <2>14. TypeOK'
      BY <1>1, <2>13 DEF IInv, TypeOK, StorageTypeOK
    <2>15. CountInv'
      <3>1. fifo'.queue \in Seq(Keys)
        BY <2>13 DEF Fifo
      <3> QED BY <1>1, <1>2, <2>13, <3>1, CountGains
    <2>16. FifoOK(fifo)'
      BY <2>13 DEF FifoOK
    <2>17. ASSUME NEW k \in Keys, k \in Range(s) PROVE Enters(k, delta[k].obj)
      <3>1. PICK n \in 1..Len(s) : s[n] = k
        BY <2>17 DEF Range
      <3>2. fifo.items[k] = <<>> /\ k \in Known
        BY <2>6, <2>8, <3>1
      <3>3. delta[k].obj = indexer[k] /\ indexer[k] \in Obj
        BY <2>11, <3>2
      <3>4. InStore(k, indexer[k])
        BY <3>2 DEF InStore, Known
      <3>5. OnItsWay(k, indexer[k])
        BY <1>2, <3>3, <3>4 DEF LoggedInv
      <3>6. ASSUME NEW p \in Obj, NEW i \in Nat,
                   InView(k, p) \/ InNotes(k, i, p) \/ InStore(k, p) \/ InFifo(k, i, p)
            PROVE  p.rev <= indexer[k].rev
        <4>1. ~InFifo(k, i, p)
          BY <3>2 DEF InFifo
        <4>2. CASE InStore(k, p)
          BY <3>3, <4>2 DEF InStore, Obj
        <4>3. CASE InView(k, p) \/ InNotes(k, i, p)
          BY <1>2, <3>3, <3>4, <4>3 DEF OrderInv
        <4> QED BY <3>6, <4>1, <4>2, <4>3
      <3>7. ASSUME NEW p \in Obj, NEW i \in Nat, InStream(k, i, p)' PROVE indexer[k].rev <= p.rev
        <4>1. InStream(k, i, p)
          BY <1>1, <3>7 DEF InStream
        <4> QED BY <1>2, <3>3, <3>4, <4>1 DEF OrderInv
      <3> QED BY <3>3, <3>5, <3>6, <3>7 DEF Enters
    <2> QED BY <1>1, <1>3, <1>4, <2>13, <2>14, <2>15, <2>16, <2>17, FillKeeps
  <1> QED BY <1>1, <1>5, <1>6

----------------------------------------------------------------------------
(* The handler *)

Below == {ss \in Nat \X Nat : ss[1] < ss[2]}

LEMMA BelowIsWellFounded == IsWellFoundedOn(Below, Nat)
  <1>1. OpToRel(<, Nat) = Below
    BY Zenon DEF OpToRel, Below
  <1> QED BY <1>1, NatLessThanWellFounded, Zenon

\* A set of numbers that is not empty has a least one, and a bounded one a greatest.
LEMMA Least ==
  ASSUME NEW T, T \subseteq Nat, T # {}
  PROVE  \E m \in T : \A n \in T : m <= n
  <1>1. PICK m \in T : \A n \in T : <<n, m>> \notin Below
    BY BelowIsWellFounded, WFMin
  <1>2. ASSUME NEW n \in T PROVE m <= n
    <2>1. <<n, m>> \notin Below /\ <<n, m>> \in Nat \X Nat
      BY <1>1
    <2> QED BY <2>1 DEF Below
  <1> QED BY <1>2

LEMMA MaxIs ==
  ASSUME NEW n \in Nat, NEW T, T \subseteq 1..n, T # {}
  PROVE  Max(T) \in T /\ \A i \in T : i <= Max(T)
  <1> DEFINE D == {n - i : i \in T}
  <1>1. \A i \in T : i \in Int /\ n - i \in Nat
    OBVIOUS
  <1>2. D \subseteq Nat /\ D # {}
    BY <1>1
  <1>3. PICK d \in D : \A e \in D : d <= e
    BY <1>2, Least
  <1>4. PICK m \in T : d = n - m
    OBVIOUS
  <1>5. \A i \in T : n - m <= n - i
    BY <1>3, <1>4
  <1>6. \A i \in T : m >= i
    BY <1>1, <1>5
  <1>7. Max(T) \in T /\ \A i \in T : Max(T) >= i
    BY <1>6 DEF Max
  <1> QED BY <1>1, <1>7

\* The notifications of k that tell the handler something.
TellsOf(k, i) == pending[i].key = k /\ Tells(pending[i])

\* x is what the handler will know of k.
WillKnow(k, x) ==
  \/ x = view[k] /\ \A i \in 1..Len(pending) : ~TellsOf(k, i)
  \/ \E m \in 1..Len(pending) :
       /\ TellsOf(k, m) /\ x = Says(pending[m])
       /\ \A i \in 1..Len(pending) : i > m => ~TellsOf(k, i)

LEMMA ExpectedIs ==
  ASSUME pending \in Seq(Note), NEW k \in Keys, NEW x
  PROVE  Expected[k] = x <=> WillKnow(k, x)
  <1> DEFINE told == {i \in 1..Len(pending) : pending[i].key = k /\ Tells(pending[i])}
  <1>1. Expected[k] = IF told = {} THEN view[k] ELSE Says(pending[Max(told)])
    BY DEF Expected
  <1>2. \A i : i \in told <=> i \in 1..Len(pending) /\ TellsOf(k, i)
    BY DEF TellsOf
  <1>3. told \subseteq 1..Len(pending) /\ Len(pending) \in Nat
    OBVIOUS
  <1> HIDE DEF told
  <1>4. CASE told = {}
    BY <1>1, <1>2, <1>4 DEF WillKnow
  <1>5. CASE told # {}
    <2>1. Max(told) \in told /\ \A i \in told : i <= Max(told)
      BY <1>3, <1>5, MaxIs
    <2>2. \A i \in told : i \in Int
      BY <1>3
    <2> DEFINE m == Max(told)
    <2> HIDE DEF m
    <2>3. m \in told /\ (\A i \in told : i <= m) /\ Expected[k] = Says(pending[m]) /\ m \in Int
      BY <1>1, <1>5, <2>1, <2>2 DEF m
    <2>4. ASSUME Expected[k] = x PROVE WillKnow(k, x)
      <3>1. m \in 1..Len(pending) /\ TellsOf(k, m) /\ x = Says(pending[m])
        BY <1>2, <2>3, <2>4
      <3>2. \A i \in 1..Len(pending) : i > m => ~TellsOf(k, i)
        <4> SUFFICES ASSUME NEW i \in 1..Len(pending), i > m, TellsOf(k, i) PROVE FALSE
          OBVIOUS
        <4>1. i \in told /\ i \in Int
          BY <1>2, <2>2
        <4> QED BY <2>3, <4>1
      <3> QED BY <3>1, <3>2 DEF WillKnow
    <2>5. ASSUME WillKnow(k, x) PROVE Expected[k] = x
      <3>1. PICK a \in 1..Len(pending) :
              /\ TellsOf(k, a) /\ x = Says(pending[a])
              /\ \A i \in 1..Len(pending) : i > a => ~TellsOf(k, i)
        BY <1>2, <1>5, <2>3, <2>5 DEF WillKnow
      <3>2. a \in told /\ a \in Int
        BY <1>2, <1>3, <3>1
      <3>3. a <= m /\ ~(m > a)
        BY <1>2, <2>3, <3>1, <3>2
      <3>4. a = m
        BY <2>3, <3>2, <3>3
      <3> QED BY <2>3, <3>1, <3>4
    <2> QED BY <2>4, <2>5
  <1> QED BY <1>4, <1>5

\* HandlerMissesNothing, in these terms.
WillMissNothing ==
  listening => \A k \in Known : Accepts(indexer[k]) => WillKnow(k, indexer[k])

LEMMA MissesIs == pending \in Seq(Note) => (HandlerMissesNothing <=> WillMissNothing)
  <1> SUFFICES ASSUME pending \in Seq(Note) PROVE HandlerMissesNothing <=> WillMissNothing
    OBVIOUS
  <1>1. \A k \in Known : Expected[k] = indexer[k] <=> WillKnow(k, indexer[k])
    BY ExpectedIs DEF Known
  <1> QED BY <1>1 DEF HandlerMissesNothing, WillMissNothing

LEMMA MissesNext == (pending \in Seq(Note))' => (HandlerMissesNothing' <=> WillMissNothing')
  BY MissesIs, PTL

\* What the handler makes of a notification.
LEMMA ToldIs ==
  ASSUME NEW w \in [Keys -> Maybe], NEW note \in Note
  PROVE  /\ Told(w, note) \in [Keys -> Maybe]
         /\ \A k \in Keys : Told(w, note)[k] =
              IF k = note.key /\ Tells(note) THEN Says(note) ELSE w[k]
  <1>1. /\ note.key \in Keys /\ note.new \in Maybe /\ note.old \in Maybe
        /\ (note.new # None \/ note.old # None)
    BY DEF Note
  <1>2. CASE note.old = None
    <2>1. Told(w, note) = IF Accepts(note.new) THEN [w EXCEPT ![note.key] = note.new] ELSE w
      BY <1>1, <1>2 DEF Told, OnAdd
    <2>2. Tells(note) <=> Accepts(note.new)
      BY <1>1, <1>2 DEF Tells, Accepted
    <2>3. Accepts(note.new) => Says(note) = note.new
      BY <1>1, <1>2 DEF Says, Accepted
    <2> QED BY <1>1, <2>1, <2>2, <2>3
  <1>3. CASE note.old # None /\ note.new = None
    <2>1. Told(w, note) = IF Accepts(note.old) THEN [w EXCEPT ![note.key] = None] ELSE w
      BY <1>3 DEF Told, OnDelete
    <2>2. Tells(note) <=> Accepts(note.old)
      BY <1>1, <1>3 DEF Tells, Accepted
    <2>3. Says(note) = None
      BY <1>3 DEF Says, Accepted
    <2> QED BY <1>1, <2>1, <2>2, <2>3 DEF Maybe
  <1>4. CASE note.old # None /\ note.new # None
    <2>1. Told(w, note) = OnUpdate(w, note.key, note.old, note.new)
      BY <1>4 DEF Told
    <2>2. CASE Accepts(note.new)
      <3>1. Told(w, note) = [w EXCEPT ![note.key] = note.new]
        BY <2>1, <2>2 DEF OnUpdate
      <3>2. Tells(note) /\ Says(note) = note.new
        BY <1>4, <2>2 DEF Tells, Says, Accepted
      <3> QED BY <1>1, <3>1, <3>2
    <2>3. CASE ~Accepts(note.new) /\ Accepts(note.old)
      <3>1. Told(w, note) = [w EXCEPT ![note.key] = None]
        BY <2>1, <2>3 DEF OnUpdate
      <3>2. Tells(note) /\ Says(note) = None
        BY <1>4, <2>3 DEF Tells, Says, Accepted
      <3> QED BY <1>1, <3>1, <3>2 DEF Maybe
    <2>4. CASE ~Accepts(note.new) /\ ~Accepts(note.old)
      <3>1. Told(w, note) = w
        BY <2>1, <2>4 DEF OnUpdate
      <3>2. ~Tells(note)
        BY <2>4 DEF Tells, Accepted
      <3> QED BY <1>1, <3>1, <3>2
    <2> QED BY <2>2, <2>3, <2>4
  <1> QED BY <1>2, <1>3, <1>4

LEMMA NotifyKeeps == ASSUME IInv, Notify PROVE IInv'
  <1>1. /\ UNCHANGED <<kv, log, open, pos, stream, reflector, received, faults, fifo, indexer,
                       indices, listening, syncing, awaited>>
        /\ pending # <<>> /\ view' = Told(view, Head(pending)) /\ pending' = Tail(pending)
    BY DEF Notify, storageVars
  <1>2. /\ pending \in Seq(Note) /\ view \in [Keys -> Maybe] /\ LoggedInv /\ OrderInv
        /\ QuietInv /\ HandlerMissesNothing
    BY DEF IInv, TypeOK
  <1>3. /\ pending' \in Seq(Note) /\ Len(pending') = Len(pending) - 1 /\ Len(pending) \in Nat \ {0}
        /\ \A i \in 1..Len(pending') : pending'[i] = pending[i + 1] /\ i + 1 \in 1..Len(pending)
        /\ Head(pending) = pending[1] /\ Head(pending) \in Note
    BY <1>1, <1>2, TailIs
  <1>4. PICK note \in Note : note = Head(pending)
    BY <1>3
  <1>5. note = pending[1] /\ 1 \in 1..Len(pending) /\ note.key \in Keys
    BY <1>3, <1>4 DEF Note
  <1>6. /\ view' \in [Keys -> Maybe]
        /\ \A k \in Keys : view'[k] =
             IF k = note.key /\ Tells(note) THEN Says(note) ELSE view[k]
    BY <1>1, <1>2, <1>4, ToldIs
  <1>7. TypeOK'
    BY <1>1, <1>3, <1>6 DEF IInv, TypeOK, StorageTypeOK
  <1>8. \A i \in 1..Len(pending) : i # 1 => i - 1 \in 1..Len(pending') /\ pending'[i - 1] = pending[i]
    <2> SUFFICES ASSUME NEW i \in 1..Len(pending), i # 1
                 PROVE  i - 1 \in 1..Len(pending') /\ pending'[i - 1] = pending[i]
      OBVIOUS
    <2>1. i \in Int /\ i - 1 \in 1..Len(pending') /\ (i - 1) + 1 = i
      BY <1>3
    <2> QED BY <1>3, <2>1
  <1>9. ASSUME NEW k \in Keys, NEW o \in Obj, NEW i \in Nat
        PROVE  /\ InView(k, o)' => InView(k, o) \/ InNotes(k, 1, o)
               /\ InNotes(k, i, o)' => InNotes(k, i + 1, o) /\ i >= 1
               /\ InStore(k, o)' <=> InStore(k, o)
               /\ InFifo(k, i, o)' <=> InFifo(k, i, o)
               /\ InStream(k, i, o)' <=> InStream(k, i, o)
               /\ OnItsWay(k, o)' <=> OnItsWay(k, o)
    <2>1. InView(k, o)' => InView(k, o) \/ InNotes(k, 1, o)
      <3> SUFFICES ASSUME view'[k] = o, o # None, view[k] # o PROVE InNotes(k, 1, o)
        BY DEF InView
      <3>1. k = note.key /\ Tells(note) /\ o = Says(note)
        BY <1>6
      <3>2. note.new = o
        BY <3>1 DEF Says
      <3> QED BY <1>5, <3>1, <3>2 DEF InNotes
    <2>2. InNotes(k, i, o)' => InNotes(k, i + 1, o) /\ i >= 1
      BY <1>3 DEF InNotes
    <2>3. /\ InStore(k, o)' <=> InStore(k, o)
          /\ InFifo(k, i, o)' <=> InFifo(k, i, o)
          /\ InStream(k, i, o)' <=> InStream(k, i, o)
          /\ OnItsWay(k, o)' <=> OnItsWay(k, o)
      BY <1>1 DEF InStore, InFifo, InStream, OnItsWay, Logged
    <2> QED BY <2>1, <2>2, <2>3
  <1>10. LoggedInv'
    <2> SUFFICES ASSUME NEW k \in Keys, NEW o \in Obj, NEW i \in Nat,
                        \/ InView(k, o)' \/ InNotes(k, i, o)' \/ InStore(k, o)'
                        \/ InFifo(k, i, o)' \/ InStream(k, i, o)'
                 PROVE  OnItsWay(k, o)'
      BY DEF LoggedInv
    <2> DEFINE a == i + 1
    <2>1. a \in Nat /\ 1 \in Nat
      OBVIOUS
    <2>2. \/ InView(k, o) \/ InNotes(k, 1, o) \/ InNotes(k, a, o) \/ InStore(k, o)
          \/ InFifo(k, i, o) \/ InStream(k, i, o)
      BY <1>9
    <2> HIDE DEF a
    <2>3. OnItsWay(k, o)
      BY <1>2, <2>1, <2>2 DEF LoggedInv
    <2> QED BY <1>9, <2>3
  <1>11. OrderInv'
    <2> SUFFICES ASSUME NEW k \in Keys, NEW o \in Obj, NEW p \in Obj, NEW i \in Nat, NEW j \in Nat,
         \/ /\ InView(k, o)'
            /\ InNotes(k, j, p)' \/ InStore(k, p)' \/ InFifo(k, j, p)' \/ InStream(k, j, p)'
         \/ /\ InNotes(k, i, o)'
            /\ (InNotes(k, j, p)' /\ i < j) \/ InStore(k, p)' \/ InFifo(k, j, p)' \/ InStream(k, j, p)'
         \/ /\ InStore(k, o)'
            /\ InFifo(k, j, p)' \/ InStream(k, j, p)'
         \/ /\ InFifo(k, i, o)'
            /\ (InFifo(k, j, p)' /\ i < j) \/ InStream(k, j, p)'
         \/ InStream(k, i, o)' /\ InStream(k, j, p)' /\ i < j
                 PROVE o.rev <= p.rev
      BY DEF OrderInv
    <2> DEFINE a == i + 1
               b == j + 1
    <2>1. a \in Nat /\ b \in Nat /\ 1 \in Nat /\ (i < j => a < b) /\ (j >= 1 => 1 < b)
      OBVIOUS
    <2>2. /\ InNotes(k, i, o)' => InNotes(k, a, o)
          /\ InNotes(k, j, p)' => InNotes(k, b, p) /\ 1 < b
      BY <1>9, <2>1
    <2> HIDE DEF a, b
    <2>3. CASE InView(k, o)'
      <3>2. CASE InNotes(k, j, p)' \/ InStore(k, p)' \/ InFifo(k, j, p)' \/ InStream(k, j, p)'
        <4>1. (InNotes(k, b, p) /\ 1 < b) \/ InStore(k, p) \/ InFifo(k, j, p) \/ InStream(k, j, p)
          BY <1>9, <2>2, <3>2
        <4>2. InView(k, o) \/ InNotes(k, 1, o)
          BY <1>9, <2>3
        <4>3. CASE InView(k, o)
          BY <1>2, <2>1, <4>1, <4>3 DEF OrderInv
        <4>4. CASE InNotes(k, 1, o)
          BY <1>2, <2>1, <4>1, <4>4 DEF OrderInv
        <4> QED BY <4>2, <4>3, <4>4
      <3>3. CASE ~(InNotes(k, j, p)' \/ InStore(k, p)' \/ InFifo(k, j, p)' \/ InStream(k, j, p)')
        BY <3>3
      <3> QED BY <3>2, <3>3
    <2>4. CASE InNotes(k, i, o)' /\ (\/ (InNotes(k, j, p)' /\ i < j) \/ InStore(k, p)'
                                     \/ InFifo(k, j, p)' \/ InStream(k, j, p)')
      <3>1. /\ InNotes(k, a, o)
            /\ \/ (InNotes(k, b, p) /\ a < b) \/ InStore(k, p)
               \/ InFifo(k, j, p) \/ InStream(k, j, p)
        BY <1>9, <2>1, <2>2, <2>4
      <3> QED BY <1>2, <2>1, <3>1 DEF OrderInv
    <2>5. CASE \/ InStore(k, o)' /\ (InFifo(k, j, p)' \/ InStream(k, j, p)')
               \/ InFifo(k, i, o)' /\ ((InFifo(k, j, p)' /\ i < j) \/ InStream(k, j, p)')
               \/ InStream(k, i, o)' /\ InStream(k, j, p)' /\ i < j
      <3>1. \/ InStore(k, o) /\ (InFifo(k, j, p) \/ InStream(k, j, p))
            \/ InFifo(k, i, o) /\ ((InFifo(k, j, p) /\ i < j) \/ InStream(k, j, p))
            \/ InStream(k, i, o) /\ InStream(k, j, p) /\ i < j
        BY <1>9, <2>5
      <3> QED BY <1>2, <3>1 DEF OrderInv
    <2> QED BY <2>3, <2>4, <2>5
  <1>12. HandlerMissesNothing'
    <2>1. ASSUME NEW k \in Keys, NEW x, WillKnow(k, x) PROVE WillKnow(k, x)'
      <3>0. /\ \A i \in 1..Len(pending') : TellsOf(k, i)' <=> TellsOf(k, i + 1)
            /\ TellsOf(k, 1) <=> k = note.key /\ Tells(note)
        BY <1>3, <1>5 DEF TellsOf, Tells, Accepted, Accepts
      <3>1. CASE x = view[k] /\ \A i \in 1..Len(pending) : ~TellsOf(k, i)
        <4>1. view'[k] = view[k]
          BY <1>5, <1>6, <3>0, <3>1
        <4>2. \A i \in 1..Len(pending') : ~TellsOf(k, i)'
          BY <1>3, <3>0, <3>1
        <4> QED BY <3>1, <4>1, <4>2 DEF WillKnow
      <3>2. ASSUME NEW m \in 1..Len(pending), TellsOf(k, m), x = Says(pending[m]),
                   \A i \in 1..Len(pending) : i > m => ~TellsOf(k, i)
            PROVE  WillKnow(k, x)'
        <4>0. m \in Int
          BY <1>3
        <4>1. CASE m = 1
          <5>1. view'[k] = x
            BY <1>5, <1>6, <3>0, <3>2, <4>1
          <5>2. \A i \in 1..Len(pending') : ~TellsOf(k, i)'
            <6> SUFFICES ASSUME NEW i \in 1..Len(pending') PROVE ~TellsOf(k, i)'
              OBVIOUS
            <6>1. i + 1 \in 1..Len(pending) /\ i + 1 > m
              BY <1>3, <4>1
            <6> QED BY <3>0, <3>2, <6>1
          <5> QED BY <5>1, <5>2 DEF WillKnow
        <4>2. CASE m # 1
          <5> DEFINE n == m - 1
          <5>1. n \in 1..Len(pending') /\ pending'[n] = pending[m] /\ n + 1 = m
            BY <1>8, <4>0, <4>2
          <5> HIDE DEF n
          <5>2. TellsOf(k, n)' /\ x = Says(pending[n])'
            BY <3>0, <3>2, <5>1 DEF Says, Accepted, Accepts
          <5>3. \A i \in 1..Len(pending') : i > n => ~TellsOf(k, i)'
            <6> SUFFICES ASSUME NEW i \in 1..Len(pending'), i > n PROVE ~TellsOf(k, i)'
              OBVIOUS
            <6>1. i + 1 \in 1..Len(pending) /\ i + 1 > m
              BY <1>3, <5>1
            <6> QED BY <3>0, <3>2, <6>1
          <5> QED BY <5>1, <5>2, <5>3 DEF WillKnow
        <4> QED BY <4>1, <4>2
      <3> QED BY <2>1, <3>1, <3>2 DEF WillKnow
    <2>2. listening => \A k \in Known : Accepts(indexer[k]) => WillKnow(k, indexer[k])
      BY <1>2, MissesIs DEF WillMissNothing
    <2>3. WillMissNothing'
      <3> SUFFICES ASSUME listening', NEW k \in Known', Accepts(indexer[k])'
                   PROVE  WillKnow(k, indexer[k])'
        BY DEF WillMissNothing
      <3>1. listening /\ k \in Known /\ k \in Keys /\ Accepts(indexer[k]) /\ indexer'[k] = indexer[k]
        BY <1>1 DEF Known, Accepts
      <3>2. PICK x : x = indexer[k]
        OBVIOUS
      <3>3. WillKnow(k, x)
        BY <2>2, <3>1, <3>2
      <3>4. WillKnow(k, x)' /\ x = indexer'[k]
        BY <2>1, <3>1, <3>2, <3>3
      <3> QED BY <3>4 DEF WillKnow
    <2> QED BY <1>3, <2>3, MissesNext
  <1>13. FifoOK(fifo)' /\ CountInv' /\ IndexMatchesStore' /\ LogInv'
    BY <1>1, FifoSame, LogSame DEF IInv
  <1>14. WatchInv'
    BY <1>1 DEF IInv, WatchInv
  <1>15. QuietInv'
    BY <1>1, <1>2 DEF QuietInv
  <1> QED BY <1>7, <1>10, <1>11, <1>12, <1>13, <1>14, <1>15 DEF IInv

LEMMA AddEventHandlerKeeps == ASSUME IInv, AddEventHandler PROVE IInv'
  <1>1. /\ UNCHANGED <<kv, log, open, pos, stream, reflector, received, faults, fifo, indexer,
                       indices, view, awaited>>
        /\ ~listening /\ listening' = TRUE /\ syncing' = TRUE
    BY DEF AddEventHandler, storageVars
  <1>2. PICK order \in SetToSeqs(Known) :
          pending' = [i \in 1..Len(order) |->
                       [key |-> order[i], old |-> None, new |-> indexer[order[i]]]]
    BY DEF AddEventHandler
  <1>3. /\ indexer \in [Keys -> Maybe] /\ LoggedInv /\ OrderInv
        /\ pending = <<>> /\ \A k \in Keys : view[k] = None
    BY <1>1 DEF IInv, TypeOK, QuietInv
  <1>4. Known \subseteq Keys /\ \A k \in Known : indexer[k] \in Obj /\ indexer[k] # None
    BY <1>3 DEF Known, Maybe
  <1>5. /\ order \in Seq(Known) /\ Len(order) \in Nat
        /\ \A i, j \in 1..Len(order) : i # j => order[i] # order[j]
        /\ \A x \in Known : \E i \in 1..Len(order) : order[i] = x
    BY <1>4, SubsetsFinite, OrderIs
  <1>6. \A i \in 1..Len(order) : order[i] \in Known
    BY <1>5
  <1>7. pending' \in Seq(Note) /\ Len(pending') = Len(order)
    <2>1. \A k \in Known : [key |-> k, old |-> None, new |-> indexer[k]] \in Note
      BY <1>4 DEF Note, Maybe
    <2>2. pending' \in [1..Len(order) -> Note]
      BY <1>2, <1>6, <2>1
    <2> QED BY <1>5, <2>2, MadeIs
  <1>8. \A i \in 1..Len(pending') : /\ pending'[i].key = order[i] /\ pending'[i].old = None
                                    /\ pending'[i].new = indexer[order[i]]
    BY <1>2, <1>7
  <1>9. TypeOK'
    <2>1. listening' \in BOOLEAN /\ syncing' \in BOOLEAN
      BY <1>1
    <2> QED BY <1>1, <1>7, <2>1 DEF IInv, TypeOK, StorageTypeOK
  <1>10. ASSUME NEW k \in Keys, NEW o \in Obj, NEW i \in Nat
         PROVE  /\ ~InView(k, o)'
                /\ InNotes(k, i, o)' => InStore(k, o)
                /\ InStore(k, o)' <=> InStore(k, o)
                /\ InFifo(k, i, o)' <=> InFifo(k, i, o)
                /\ InStream(k, i, o)' <=> InStream(k, i, o)
                /\ OnItsWay(k, o)' <=> OnItsWay(k, o)
    <2>1. InNotes(k, i, o)' => InStore(k, o)
      BY <1>8 DEF InNotes, InStore
    <2>2. /\ ~InView(k, o)'
          /\ InStore(k, o)' <=> InStore(k, o)
          /\ InFifo(k, i, o)' <=> InFifo(k, i, o)
          /\ InStream(k, i, o)' <=> InStream(k, i, o)
          /\ OnItsWay(k, o)' <=> OnItsWay(k, o)
      BY <1>1, <1>3 DEF InView, InStore, InFifo, InStream, OnItsWay, Logged
    <2> QED BY <2>1, <2>2
  <1>11. LoggedInv'
    <2> SUFFICES ASSUME NEW k \in Keys, NEW o \in Obj, NEW i \in Nat,
                        \/ InView(k, o)' \/ InNotes(k, i, o)' \/ InStore(k, o)'
                        \/ InFifo(k, i, o)' \/ InStream(k, i, o)'
                 PROVE  OnItsWay(k, o)'
      BY DEF LoggedInv
    <2>1. InStore(k, o) \/ InFifo(k, i, o) \/ InStream(k, i, o)
      BY <1>10
    <2> QED BY <1>3, <1>10, <2>1 DEF LoggedInv
  <1>12. OrderInv'
    <2>0. ASSUME NEW k \in Keys, NEW o \in Obj, NEW p \in Obj, InStore(k, o), InStore(k, p)
          PROVE  o.rev <= p.rev
      BY <2>0 DEF InStore, Obj
    <2> SUFFICES ASSUME NEW k \in Keys, NEW o \in Obj, NEW p \in Obj, NEW i \in Nat, NEW j \in Nat,
         \/ /\ InView(k, o)'
            /\ InNotes(k, j, p)' \/ InStore(k, p)' \/ InFifo(k, j, p)' \/ InStream(k, j, p)'
         \/ /\ InNotes(k, i, o)'
            /\ (InNotes(k, j, p)' /\ i < j) \/ InStore(k, p)' \/ InFifo(k, j, p)' \/ InStream(k, j, p)'
         \/ /\ InStore(k, o)'
            /\ InFifo(k, j, p)' \/ InStream(k, j, p)'
         \/ /\ InFifo(k, i, o)'
            /\ (InFifo(k, j, p)' /\ i < j) \/ InStream(k, j, p)'
         \/ InStream(k, i, o)' /\ InStream(k, j, p)' /\ i < j
                 PROVE o.rev <= p.rev
      BY DEF OrderInv
    <2>1. \/ InStore(k, o) /\ (InStore(k, p) \/ InFifo(k, j, p) \/ InStream(k, j, p))
          \/ InFifo(k, i, o) /\ ((InFifo(k, j, p) /\ i < j) \/ InStream(k, j, p))
          \/ InStream(k, i, o) /\ InStream(k, j, p) /\ i < j
      BY <1>10
    <2> QED BY <1>3, <2>0, <2>1 DEF OrderInv
  <1>13. HandlerMissesNothing'
    <2>1. WillMissNothing'
      <3> SUFFICES ASSUME NEW k \in Known', Accepts(indexer[k])' PROVE WillKnow(k, indexer[k])'
        BY DEF WillMissNothing
      <3>1. k \in Known /\ indexer'[k] = indexer[k] /\ Accepts(indexer[k])
        BY <1>1 DEF Known, Accepts
      <3>2. PICK m \in 1..Len(order) : order[m] = k
        BY <1>5, <3>1
      <3>3. PICK note : note = pending'[m]
        OBVIOUS
      <3>4. m \in 1..Len(pending') /\ note.key = k /\ note.new = indexer[k] /\ note.new # None
        BY <1>4, <1>7, <1>8, <3>1, <3>2, <3>3
      <3>5. Tells(note) /\ Says(note) = indexer[k]
        BY <3>1, <3>4 DEF Tells, Says, Accepted, Accepts
      <3>6. TellsOf(k, m)' /\ indexer'[k] = Says(pending[m])'
        BY <3>1, <3>3, <3>4, <3>5 DEF TellsOf, Tells, Says, Accepted, Accepts
      <3>7. \A i \in 1..Len(pending') : i > m => ~TellsOf(k, i)'
        <4> SUFFICES ASSUME NEW i \in 1..Len(pending'), i > m, TellsOf(k, i)' PROVE FALSE
          OBVIOUS
        <4>1. order[i] = k /\ i \in 1..Len(order)
          BY <1>7, <1>8 DEF TellsOf
        <4>2. i = m
          BY <1>5, <3>2, <4>1
        <4>3. m \in Int
          BY <1>5
        <4> QED BY <4>2, <4>3
      <3> QED BY <3>4, <3>6, <3>7 DEF WillKnow
    <2> QED BY <1>7, <2>1, MissesNext
  <1>14. FifoOK(fifo)' /\ CountInv' /\ IndexMatchesStore' /\ LogInv'
    BY <1>1, FifoSame, LogSame DEF IInv
  <1>15. WatchInv'
    BY <1>1 DEF IInv, WatchInv
  <1>16. QuietInv'
    BY <1>1 DEF QuietInv
  <1> QED BY <1>9, <1>11, <1>12, <1>13, <1>14, <1>15, <1>16 DEF IInv

----------------------------------------------------------------------------
(* Popping an item *)

\* What the indexer has of k after i of the deltas, and the notification of the i-th.
AfterAt(k, ds, i) == IF i = 0 THEN indexer[k] ELSE After(ds[i])
NoteAt(k, ds, i) ==
  [key |-> k, new |-> After(ds[i]),
   old |-> IF ds[i].type = "Deleted" THEN ds[i].obj ELSE AfterAt(k, ds, i - 1)]

\* The notifications are those of some of the deltas in their order, of every one
\* that is distributed.
Notes(k, ds, notes) ==
  /\ notes \in Seq(Note)
  /\ \E at \in [1..Len(notes) -> 1..Len(ds)] :
       /\ \A m, n \in 1..Len(notes) : m < n => at[m] < at[n]
       /\ \A n \in 1..Len(notes) : notes[n] = NoteAt(k, ds, at[n])
       /\ \A n \in 1..Len(notes) : distribute(NoteAt(k, ds, at[n]))
       /\ \A i \in 1..Len(ds) : distribute(NoteAt(k, ds, i)) => \E n \in 1..Len(notes) : at[n] = i

LEMMA ProcessDeltasIs ==
  ASSUME indexer \in [Keys -> Maybe], NEW k \in Keys, NEW ds \in Seq(DeltaSet)
  PROVE  Notes(k, ds, processDeltas(k, ds))
  <1> DEFINE all == [i \in 1..Len(ds) |-> NoteAt(k, ds, i)]
             I == {i \in 1..Len(ds) : distribute(all[i])}
             notes == processDeltas(k, ds)
  <1>0. Len(ds) \in Nat /\ \A i \in 1..Len(ds) : ds[i] \in DeltaSet /\ i \in Int
    OBVIOUS
  <1>1. \A i \in 1..Len(ds) : After(ds[i]) \in Maybe /\ ds[i].obj \in Obj /\ ds[i].type \in DeltaType
                              /\ (ds[i].type # "Deleted" => After(ds[i]) \in Obj)
    BY <1>0 DEF After, DeltaSet, Maybe
  <1>2. \A i \in 1..Len(ds) : NoteAt(k, ds, i) \in Note
    <2> SUFFICES ASSUME NEW i \in 1..Len(ds) PROVE NoteAt(k, ds, i) \in Note
      OBVIOUS
    <2>1. AfterAt(k, ds, i - 1) \in Maybe
      <3>1. CASE i = 1
        BY <3>1 DEF AfterAt
      <3>2. CASE i # 1
        <4>1. i - 1 \in 1..Len(ds) /\ i - 1 # 0
          BY <1>0, <3>2
        <4> QED BY <1>1, <4>1 DEF AfterAt
      <3> QED BY <3>1, <3>2
    <2>2. CASE ds[i].type = "Deleted"
      <3>1. NoteAt(k, ds, i) = [key |-> k, new |-> After(ds[i]), old |-> ds[i].obj]
        BY <2>2 DEF NoteAt
      <3> QED BY <1>1, <3>1, NoneIs DEF Note, Maybe
    <2>3. CASE ds[i].type # "Deleted"
      <3>1. NoteAt(k, ds, i) = [key |-> k, new |-> After(ds[i]), old |-> AfterAt(k, ds, i - 1)]
        BY <2>3 DEF NoteAt
      <3>2. After(ds[i]) # None
        BY <1>1, <2>3, NoneIs
      <3> QED BY <1>1, <2>1, <3>1, <3>2 DEF Note
    <2> QED BY <2>2, <2>3
  <1>3. all \in Seq(Note) /\ Len(all) = Len(ds)
    <2>1. all \in [1..Len(ds) -> Note]
      BY <1>2
    <2> HIDE DEF all
    <2> QED BY <1>0, <2>1, MadeIs
  <1>4. notes = Selected(all, I)
    <2>1. all = [i \in 1..Len(ds) |->
                  [key |-> k, new |-> After(ds[i]),
                   old |-> IF ds[i].type = "Deleted" THEN ds[i].obj
                           ELSE IF i = 1 THEN indexer[k] ELSE After(ds[i - 1])]]
      <3> SUFFICES ASSUME NEW i \in 1..Len(ds)
                   PROVE  AfterAt(k, ds, i - 1) = IF i = 1 THEN indexer[k] ELSE After(ds[i - 1])
        BY DEF NoteAt
      <3>1. i - 1 = 0 <=> i = 1
        BY <1>0
      <3> QED BY <3>1 DEF AfterAt
    <2> QED BY <2>1 DEF processDeltas
  <1>5. I \subseteq 1..Len(all) /\ \A i : i \in I <=> i \in 1..Len(ds) /\ distribute(NoteAt(k, ds, i))
    BY <1>3
  <1>6. \A i \in 1..Len(ds) : all[i] = NoteAt(k, ds, i)
    OBVIOUS
  <1> HIDE DEF all, I, notes
  <1>7. Picks(Note, all, I, notes)
    BY <1>3, <1>4, <1>5, SelectedIs
  <1>8. PICK at \in [1..Len(notes) -> I] :
          /\ \A m, n \in 1..Len(notes) : m < n => at[m] < at[n]
          /\ \A i \in I : \E n \in 1..Len(notes) : at[n] = i
          /\ \A n \in 1..Len(notes) : notes[n] = all[at[n]]
    BY <1>7 DEF Picks
  <1>9. notes \in Seq(Note)
    BY <1>7 DEF Picks
  <1>10. \A n \in 1..Len(notes) : at[n] \in I
    BY <1>8
  <1>11. \A n \in 1..Len(notes) : at[n] \in 1..Len(ds) /\ distribute(NoteAt(k, ds, at[n]))
    BY <1>5, <1>10
  <1>12. at \in [1..Len(notes) -> 1..Len(ds)]
    BY <1>8, <1>11
  <1>13. \A n \in 1..Len(notes) : notes[n] = NoteAt(k, ds, at[n])
    BY <1>6, <1>8, <1>11
  <1>14. \A i \in 1..Len(ds) : distribute(NoteAt(k, ds, i)) => \E n \in 1..Len(notes) : at[n] = i
    BY <1>5, <1>8
  <1>15. Notes(k, ds, notes)
    BY <1>8, <1>9, <1>11, <1>12, <1>13, <1>14 DEF Notes
  <1> QED BY <1>15 DEF notes

\* What a popped item does to the FIFO.
LEMMA PopFifo ==
  ASSUME IInv, Pop
  PROVE  \E k \in Keys, ds \in Seq(DeltaSet), notes \in Seq(Note) :
           /\ ds = fifo.items[k] /\ ds # <<>> /\ Len(ds) \in Nat \ {0}
           /\ fifo.queue # <<>> /\ Head(fifo.queue) = k
           /\ fifo' \in Fifo /\ FifoOK(fifo') /\ CountInv'
           /\ fifo'.items = [fifo.items EXCEPT ![k] = <<>>]
           /\ indexer' = [indexer EXCEPT ![k] = After(ds[Len(ds)])]
           /\ indices' = updateIndices(indices, k, indexer[k], After(ds[Len(ds)]))
           /\ Notes(k, ds, notes) /\ pending' = pending \o notes
           /\ awaited' \subseteq Keys
  <1>1. /\ fifo \in Fifo /\ FifoOK(fifo) /\ CountInv /\ fifo.queue # <<>>
        /\ indexer \in [Keys -> Maybe] /\ awaited \subseteq Keys
    BY DEF IInv, TypeOK, Pop
  <1>2. /\ fifo.queue \in Seq(Keys) /\ fifo.items \in [Keys -> Seq(DeltaSet)]
        /\ fifo.initialPopulationCount \in Nat /\ fifo.populated \in BOOLEAN
    BY <1>1 DEF Fifo
  <1>3. /\ Tail(fifo.queue) \in Seq(Keys) /\ Len(Tail(fifo.queue)) = Len(fifo.queue) - 1
        /\ Len(fifo.queue) \in Nat \ {0}
        /\ \A i \in 1..Len(Tail(fifo.queue)) :
             Tail(fifo.queue)[i] = fifo.queue[i + 1] /\ i + 1 \in 1..Len(fifo.queue)
        /\ Head(fifo.queue) = fifo.queue[1] /\ Head(fifo.queue) \in Keys
    BY <1>1, <1>2, TailIs
  <1>4. PICK k \in Keys : k = Head(fifo.queue)
    BY <1>3
  <1>5. PICK ds \in Seq(DeltaSet) : ds = fifo.items[k]
    BY <1>2
  <1>6. ds # <<>> /\ k = fifo.queue[1] /\ 1 \in 1..Len(fifo.queue)
    BY <1>1, <1>3, <1>4, <1>5 DEF FifoOK
  <1>7. Len(ds) \in Nat \ {0}
    BY <1>6
  <1> DEFINE c == IF fifo.initialPopulationCount > 0 THEN fifo.initialPopulationCount - 1 ELSE 0
             q == Tail(fifo.queue)
             its == [fifo.items EXCEPT ![k] = <<>>]
  <1>8. /\ fifo' = [items |-> its, queue |-> q, populated |-> fifo.populated,
                    initialPopulationCount |-> c]
        /\ indexer' = [indexer EXCEPT ![k] = After(Last(ds))]
        /\ indices' = updateIndices(indices, k, indexer[k], After(Last(ds)))
        /\ pending' = pending \o processDeltas(k, ds)
        /\ awaited' = awaited \ {k}
    BY <1>4, <1>5 DEF Pop
  <1>9. Last(ds) = ds[Len(ds)]
    BY DEF Last
  <1>10. c \in Nat
    BY <1>2
  <1>11. /\ its \in [Keys -> Seq(DeltaSet)] /\ its[k] = <<>>
         /\ \A j \in Keys : j # k => its[j] = fifo.items[j]
    BY <1>2
  <1> HIDE DEF c, q, its
  <1>12. /\ fifo'.items = its /\ fifo'.queue = q /\ fifo'.populated = fifo.populated
         /\ fifo'.initialPopulationCount = c
    BY <1>8
  <1>13. fifo' \in Fifo
    BY <1>2, <1>3, <1>8, <1>10, <1>11 DEF Fifo, q
  <1>14. /\ Len(q) = Len(fifo.queue) - 1 /\ Len(q) \in Nat
         /\ \A i \in 1..Len(q) : q[i] = fifo.queue[i + 1] /\ i + 1 \in 1..Len(fifo.queue)
    BY <1>3 DEF q
  <1>15. ASSUME NEW i \in 1..Len(fifo.queue), fifo.queue[i] # k
         PROVE  i - 1 \in 1..Len(q) /\ q[i - 1] = fifo.queue[i] /\ i \in Int
    <2>1. i # 1 /\ i \in Int
      BY <1>3, <1>6, <1>15
    <2>2. i - 1 \in 1..Len(q) /\ (i - 1) + 1 = i
      BY <1>3, <1>14, <2>1
    <2> QED BY <1>14, <2>1, <2>2
  <1>16. FifoOK(fifo')
    <2>1. \A i, j \in 1..Len(q) : i # j => q[i] # q[j]
      <3> SUFFICES ASSUME NEW i \in 1..Len(q), NEW j \in 1..Len(q), i # j PROVE q[i] # q[j]
        OBVIOUS
      <3>1. i + 1 \in 1..Len(fifo.queue) /\ j + 1 \in 1..Len(fifo.queue) /\ i + 1 # j + 1
        BY <1>14
      <3> QED BY <1>1, <1>14, <3>1 DEF FifoOK
    <2>2. \A i \in 1..Len(q) : q[i] # k
      <3> SUFFICES ASSUME NEW i \in 1..Len(q) PROVE q[i] # k
        OBVIOUS
      <3>1. i + 1 \in 1..Len(fifo.queue) /\ i + 1 # 1
        BY <1>14
      <3> QED BY <1>1, <1>6, <1>14, <3>1 DEF FifoOK
    <2>3. ASSUME NEW j \in Keys PROVE its[j] # <<>> <=> \E i \in 1..Len(q) : q[i] = j
      <3>1. CASE j = k
        BY <1>11, <2>2, <3>1
      <3>2. CASE j # k
        <4>1. its[j] # <<>> <=> \E i \in 1..Len(fifo.queue) : fifo.queue[i] = j
          BY <1>1, <1>11, <3>2 DEF FifoOK
        <4>2. ASSUME NEW i \in 1..Len(fifo.queue), fifo.queue[i] = j
              PROVE  \E n \in 1..Len(q) : q[n] = j
          BY <1>15, <3>2, <4>2
        <4>3. ASSUME NEW i \in 1..Len(q), q[i] = j
              PROVE  \E n \in 1..Len(fifo.queue) : fifo.queue[n] = j
          BY <1>14, <4>3
        <4> QED BY <4>1, <4>2, <4>3
      <3> QED BY <3>1, <3>2
    <2> QED BY <1>12, <2>1, <2>3 DEF FifoOK
  <1>17. CountInv'
    <2>1. fifo.populated
      BY <1>1 DEF CountInv
    <2>2. ASSUME NEW j \in awaited \ {k}
          PROVE  \E i \in 1..Len(q) : i <= c /\ q[i] = j
      <3>1. PICK i \in 1..Len(fifo.queue) :
              i <= fifo.initialPopulationCount /\ fifo.queue[i] = j
        BY <1>1 DEF CountInv
      <3>2. i - 1 \in 1..Len(q) /\ q[i - 1] = j /\ i \in Int
        BY <1>15, <3>1
      <3>3. i - 1 <= c
        BY <1>2, <1>3, <3>1, <3>2 DEF c
      <3> QED BY <3>2, <3>3
    <2> QED BY <1>8, <1>12, <2>1, <2>2 DEF CountInv
  <1>18. Notes(k, ds, processDeltas(k, ds))
    BY <1>1, ProcessDeltasIs
  <1>19. PICK notes \in Seq(Note) : notes = processDeltas(k, ds)
    BY <1>18 DEF Notes
  <1>20. awaited' \subseteq Keys
    BY <1>1, <1>8
  <1>21. fifo'.items = [fifo.items EXCEPT ![k] = <<>>]
    BY <1>12 DEF its
  <1>22. Notes(k, ds, notes) /\ pending' = pending \o notes
    BY <1>8, <1>18, <1>19
  <1> QED BY <1>1, <1>4, <1>5, <1>6, <1>7, <1>8, <1>9, <1>13, <1>16, <1>17, <1>20, <1>21, <1>22

LEMMA PopKeeps == ASSUME IInv, Pop PROVE IInv'
  <1>1. PICK k \in Keys, ds \in Seq(DeltaSet), notes \in Seq(Note) :
           /\ ds = fifo.items[k] /\ ds # <<>> /\ Len(ds) \in Nat \ {0}
           /\ fifo.queue # <<>> /\ Head(fifo.queue) = k
           /\ fifo' \in Fifo /\ FifoOK(fifo') /\ CountInv'
           /\ fifo'.items = [fifo.items EXCEPT ![k] = <<>>]
           /\ indexer' = [indexer EXCEPT ![k] = After(ds[Len(ds)])]
           /\ indices' = updateIndices(indices, k, indexer[k], After(ds[Len(ds)]))
           /\ Notes(k, ds, notes) /\ pending' = pending \o notes
           /\ awaited' \subseteq Keys
    BY PopFifo
  <1>2. UNCHANGED <<kv, log, open, pos, stream, reflector, received, faults, listening, syncing,
                    view>>
    BY DEF Pop, storageVars
  <1>3. /\ indexer \in [Keys -> Maybe] /\ indices \in [Vals -> SUBSET Keys] /\ fifo \in Fifo
        /\ pending \in Seq(Note) /\ IndexMatchesStore /\ LoggedInv /\ OrderInv /\ QuietInv
        /\ HandlerMissesNothing
    BY DEF IInv, TypeOK
  <1>4. PICK at \in [1..Len(notes) -> 1..Len(ds)] :
       /\ \A m, n \in 1..Len(notes) : m < n => at[m] < at[n]
       /\ \A n \in 1..Len(notes) : notes[n] = NoteAt(k, ds, at[n])
       /\ \A n \in 1..Len(notes) : distribute(NoteAt(k, ds, at[n]))
       /\ \A i \in 1..Len(ds) : distribute(NoteAt(k, ds, i)) => \E n \in 1..Len(notes) : at[n] = i
    BY <1>1 DEF Notes
  <1>5. notes \in Seq(Note)
    BY <1>1 DEF Notes
  <1> DEFINE N == Len(pending)
  <1>6. /\ pending' \in Seq(Note) /\ Len(pending') = N + Len(notes) /\ N \in Nat
        /\ Len(notes) \in Nat
        /\ \A n \in 1..N : pending'[n] = pending[n]
        /\ \A n \in 1..Len(notes) : pending'[N + n] = notes[n]
        /\ \A n \in 1..Len(pending') : n \in 1..N \/ n - N \in 1..Len(notes)
    BY <1>1, <1>3, <1>5, ConcatIs
  <1>7. \A n \in 1..Len(pending') : n \notin 1..N =>
          \E m \in 1..Len(notes) : n = N + m /\ pending'[n] = notes[m]
    <2> SUFFICES ASSUME NEW n \in 1..Len(pending'), n \notin 1..N
                 PROVE  \E m \in 1..Len(notes) : n = N + m /\ pending'[n] = notes[m]
      OBVIOUS
    <2> DEFINE m == n - N
    <2> HIDE DEF N
    <2>1. m \in 1..Len(notes) /\ n = N + m
      BY <1>6
    <2> HIDE DEF m
    <2> QED BY <1>6, <2>1
  <1>8. \A i \in 1..Len(ds) : ds[i] \in DeltaSet /\ i \in Nat
    BY <1>1
  <1>9. \A i \in 1..Len(ds) : /\ ds[i].obj \in Obj
                              /\ After(ds[i]) \in Maybe
                              /\ After(ds[i]) # None => ds[i].type # "Deleted" /\ After(ds[i]) = ds[i].obj
                              /\ ds[i].type # "Deleted" => After(ds[i]) = ds[i].obj
    BY <1>8 DEF After, DeltaSet, Maybe
  <1>10. PICK L \in 1..Len(ds) : L = Len(ds)
    BY <1>1
  <1>11. /\ indexer' \in [Keys -> Maybe] /\ indexer'[k] = After(ds[L])
         /\ \A j \in Keys : j # k => indexer'[j] = indexer[j]
    BY <1>1, <1>3, <1>9, <1>10
  <1>12. /\ fifo'.items[k] = <<>> /\ \A j \in Keys : j # k => fifo'.items[j] = fifo.items[j]
    BY <1>1, <1>3 DEF Fifo
  <1>13. TypeOK'
    <2>1. indices' \in [Vals -> SUBSET Keys]
      BY <1>1, <1>3 DEF updateIndices
    <2> QED BY <1>1, <1>2, <1>6, <1>11, <2>1 DEF IInv, TypeOK, StorageTypeOK
  <1>14. IndexMatchesStore'
    <2> SUFFICES ASSUME NEW v \in Vals
                 PROVE  indices'[v] = {j \in Known' : indexer'[j].val = v}
      BY DEF IndexMatchesStore
    <2> DEFINE old == indexer[k]
               new == After(ds[L])
    <2>1. indices'[v] = (IF old # None /\ old.val = v THEN indices[v] \ {k} ELSE indices[v])
                        \cup (IF new # None /\ new.val = v THEN {k} ELSE {})
      BY <1>1, <1>10 DEF updateIndices
    <2>2. indexer'[k] = new
      BY <1>11
    <2> HIDE DEF new
    <2>3. indices[v] = {j \in Known : indexer[j].val = v}
      BY <1>3 DEF IndexMatchesStore
    <2>4. ASSUME NEW j PROVE j \in indices'[v] <=> j \in Keys /\ indexer'[j] # None /\ indexer'[j].val = v
      <3>1. CASE j = k
        <4>1. j \in indices[v] <=> old # None /\ old.val = v
          BY <2>3, <3>1 DEF Known
        <4> QED BY <2>1, <2>2, <3>1, <4>1
      <3>2. CASE j # k
        <4>1. j \in indices'[v] <=> j \in indices[v]
          BY <2>1, <3>2
        <4>2. j \in indices[v] <=> j \in Keys /\ indexer[j] # None /\ indexer[j].val = v
          BY <2>3 DEF Known
        <4> QED BY <1>11, <3>2, <4>1, <4>2
      <3> QED BY <3>1, <3>2
    <2> QED BY <2>4 DEF Known
  <1>15. ASSUME NEW j \in Keys, NEW o \in Obj, NEW i \in Nat
         PROVE  /\ InView(j, o)' <=> InView(j, o)
                /\ InStream(j, i, o)' <=> InStream(j, i, o)
                /\ OnItsWay(j, o)' <=> OnItsWay(j, o)
                /\ InFifo(j, i, o)' => InFifo(j, i, o) /\ j # k
                /\ InStore(j, o)' => (InStore(j, o) /\ j # k) \/ (InFifo(j, L, o) /\ j = k)
                /\ InNotes(j, i, o)' =>
                     \/ InNotes(j, i, o) /\ i <= N
                     \/ j = k /\ \E m \in 1..Len(notes) : i = N + m /\ InFifo(k, at[m], o)
    <2>1. /\ InView(j, o)' <=> InView(j, o)
          /\ InStream(j, i, o)' <=> InStream(j, i, o)
          /\ OnItsWay(j, o)' <=> OnItsWay(j, o)
      BY <1>2 DEF InView, InStream, OnItsWay, Logged
    <2>2. InFifo(j, i, o)' => InFifo(j, i, o) /\ j # k
      BY <1>12 DEF InFifo
    <2>3. InStore(j, o)' => (InStore(j, o) /\ j # k) \/ (InFifo(j, L, o) /\ j = k)
      <3>1. CASE j # k
        BY <1>11, <3>1 DEF InStore
      <3>2. CASE j = k
        BY <1>1, <1>9, <1>10, <1>11, <3>2 DEF InStore, InFifo
      <3> QED BY <3>1, <3>2
    <2>4. ASSUME InNotes(j, i, o)', ~(i \in 1..N)
          PROVE  j = k /\ \E m \in 1..Len(notes) : i = N + m /\ InFifo(k, at[m], o)
      <3>1. PICK m \in 1..Len(notes) : i = N + m /\ pending'[i] = notes[m]
        BY <1>7, <2>4 DEF InNotes
      <3>2. at[m] \in 1..Len(ds) /\ notes[m] = NoteAt(k, ds, at[m])
        BY <1>4
      <3>3. notes[m].key = k /\ notes[m].new = After(ds[at[m]])
        BY <3>2 DEF NoteAt
      <3>4. j = k /\ After(ds[at[m]]) = o /\ o # None
        BY <2>4, <3>1, <3>3 DEF InNotes
      <3>5. InFifo(k, at[m], o)
        BY <1>1, <1>9, <3>2, <3>4 DEF InFifo
      <3> QED BY <3>1, <3>4, <3>5
    <2>5. ASSUME InNotes(j, i, o)', i \in 1..N PROVE InNotes(j, i, o) /\ i <= N
      BY <1>6, <2>5 DEF InNotes
    <2> QED BY <2>1, <2>2, <2>3, <2>4, <2>5
  <1>16. \A m \in 1..Len(notes) : at[m] \in Nat /\ at[m] <= L /\ at[m] \in 1..Len(ds)
    BY <1>1, <1>4, <1>10
  <1>17. L \in Nat
    BY <1>8
  <1> HIDE DEF N
  <1>18. LoggedInv'
    <2> SUFFICES ASSUME NEW j \in Keys, NEW o \in Obj, NEW i \in Nat,
                        \/ InView(j, o)' \/ InNotes(j, i, o)' \/ InStore(j, o)'
                        \/ InFifo(j, i, o)' \/ InStream(j, i, o)'
                 PROVE  OnItsWay(j, o)'
      BY DEF LoggedInv
    <2>1. \E n \in Nat : \/ InView(j, o) \/ InNotes(j, i, o) \/ InStore(j, o)
                         \/ InFifo(j, n, o) \/ InStream(j, i, o)
      BY <1>15, <1>16, <1>17
    <2>2. OnItsWay(j, o)
      BY <1>3, <2>1 DEF LoggedInv
    <2> QED BY <1>15, <2>2
  <1>19. OrderInv'
    <2> SUFFICES ASSUME NEW j \in Keys, NEW o \in Obj, NEW p \in Obj, NEW a \in Nat, NEW b \in Nat,
         \/ /\ InView(j, o)'
            /\ InNotes(j, b, p)' \/ InStore(j, p)' \/ InFifo(j, b, p)' \/ InStream(j, b, p)'
         \/ /\ InNotes(j, a, o)'
            /\ (InNotes(j, b, p)' /\ a < b) \/ InStore(j, p)' \/ InFifo(j, b, p)' \/ InStream(j, b, p)'
         \/ /\ InStore(j, o)'
            /\ InFifo(j, b, p)' \/ InStream(j, b, p)'
         \/ /\ InFifo(j, a, o)'
            /\ (InFifo(j, b, p)' /\ a < b) \/ InStream(j, b, p)'
         \/ InStream(j, a, o)' /\ InStream(j, b, p)' /\ a < b
                 PROVE o.rev <= p.rev
      BY DEF OrderInv
    <2>0. OrderInv
      BY <1>3
    <2>1. CASE j # k
      <3>1. /\ InNotes(j, a, o)' => InNotes(j, a, o)
            /\ InNotes(j, b, p)' => InNotes(j, b, p)
            /\ InStore(j, o)' => InStore(j, o)
            /\ InStore(j, p)' => InStore(j, p)
            /\ InFifo(j, a, o)' => InFifo(j, a, o)
            /\ InFifo(j, b, p)' => InFifo(j, b, p)
            /\ InView(j, o)' => InView(j, o)
            /\ InStream(j, a, o)' => InStream(j, a, o)
            /\ InStream(j, b, p)' => InStream(j, b, p)
        BY <1>15, <2>1
      <3> QED BY <2>0, <3>1 DEF OrderInv
    <2>2. CASE j = k
      <3>1. /\ ~InFifo(j, a, o)' /\ ~InFifo(j, b, p)'
            /\ InStore(j, o)' => InFifo(j, L, o)
            /\ InStore(j, p)' => InFifo(j, L, p)
            /\ InView(j, o)' => InView(j, o)
            /\ InStream(j, a, o)' => InStream(j, a, o)
            /\ InStream(j, b, p)' => InStream(j, b, p)
        BY <1>15, <2>2
      <3>2. ASSUME InNotes(j, a, o)', ~InNotes(j, a, o)
            PROVE  \E m \in 1..Len(notes) : a = N + m /\ InFifo(j, at[m], o)
        BY <1>15, <2>2, <3>2
      <3>3. ASSUME InNotes(j, b, p)', ~InNotes(j, b, p)
            PROVE  \E m \in 1..Len(notes) : b = N + m /\ InFifo(j, at[m], p)
        BY <1>15, <2>2, <3>3
      <3>4. InNotes(j, b, p) => b <= N
        BY <1>6 DEF InNotes, N
      <3>5. CASE InView(j, o)' /\ (InNotes(j, b, p)' \/ InStore(j, p)' \/ InStream(j, b, p)')
        <4>1. \E n \in Nat :
                InView(j, o) /\ (InNotes(j, b, p) \/ InFifo(j, n, p) \/ InStream(j, b, p))
          BY <1>16, <1>17, <3>1, <3>3, <3>5
        <4> QED BY <2>0, <4>1 DEF OrderInv
      <3>6. CASE InNotes(j, a, o)' /\ InStream(j, b, p)'
        <4>1. \E n \in Nat : InStream(j, b, p) /\ (InNotes(j, a, o) \/ InFifo(j, n, o))
          BY <1>16, <3>1, <3>2, <3>6
        <4> QED BY <2>0, <4>1 DEF OrderInv
      <3>7. CASE InStore(j, o)' /\ InStream(j, b, p)'
        <4>1. InFifo(j, L, o) /\ InStream(j, b, p)
          BY <3>1, <3>7
        <4> QED BY <1>17, <2>0, <4>1 DEF OrderInv
      <3>8. CASE InNotes(j, a, o)' /\ InStore(j, p)'
        <4>1. InFifo(j, L, p)
          BY <3>1, <3>8
        <4>2. CASE InNotes(j, a, o)
          BY <1>17, <2>0, <4>1, <4>2 DEF OrderInv
        <4>3. CASE ~InNotes(j, a, o)
          <5>1. PICK m \in 1..Len(notes) : InFifo(j, at[m], o)
            BY <3>2, <3>8, <4>3
          <5>2. PICK n \in Nat : n = at[m] /\ n <= L /\ InFifo(j, n, o)
            BY <1>16, <5>1
          <5>3. CASE n < L
            BY <1>17, <2>0, <4>1, <5>2, <5>3 DEF OrderInv
          <5>4. CASE n = L
            BY SMTT(30), <4>1, <5>2, <5>4 DEF InFifo, Obj
          <5> QED BY <1>17, <5>2, <5>3, <5>4
        <4> QED BY <4>2, <4>3
      <3>9. CASE InNotes(j, a, o)' /\ InNotes(j, b, p)' /\ a < b
        <4>1. CASE InNotes(j, b, p)
          <5>1. InNotes(j, a, o)
            BY <1>6, <3>2, <3>4, <3>9, <4>1
          <5> QED BY <2>0, <3>9, <4>1, <5>1 DEF OrderInv
        <4>2. CASE ~InNotes(j, b, p)
          <5>1. PICK m \in 1..Len(notes) : b = N + m /\ InFifo(j, at[m], p)
            BY <3>3, <3>9, <4>2
          <5>2. PICK n \in Nat : n = at[m] /\ InFifo(j, n, p)
            BY <1>16, <5>1
          <5>3. CASE InNotes(j, a, o)
            BY <2>0, <5>2, <5>3 DEF OrderInv
          <5>4. CASE ~InNotes(j, a, o)
            <6>1. PICK x \in 1..Len(notes) : a = N + x /\ InFifo(j, at[x], o)
              BY <3>2, <3>9, <5>4
            <6>2. PICK y \in Nat : y = at[x] /\ InFifo(j, y, o)
              BY <1>16, <6>1
            <6>3. x < m
              BY <1>6, <3>9, <5>1, <6>1
            <6>4. y < n
              BY <1>4, <5>2, <6>2, <6>3
            <6> QED BY <2>0, <5>2, <6>2, <6>4 DEF OrderInv
          <5> QED BY <5>3, <5>4
        <4> QED BY <4>1, <4>2
      <3>10. CASE InStream(j, a, o)' /\ InStream(j, b, p)' /\ a < b
        BY <2>0, <3>1, <3>10 DEF OrderInv
      <3> QED BY <3>1, <3>5, <3>6, <3>7, <3>8, <3>9, <3>10
    <2> QED BY <2>1, <2>2
  <1>20. LogInv' /\ WatchInv'
    BY <1>2, LogSame DEF IInv, WatchInv
  <1>21. QuietInv'
    <2> SUFFICES ASSUME ~listening PROVE pending' = <<>> /\ \A j \in Keys : view'[j] = None
      BY <1>2 DEF QuietInv
    <2>1. Len(notes) = 0
      <3>1. \A n \in 1..Len(notes) : FALSE
        BY <1>4 DEF distribute
      <3> QED BY <1>6, <3>1
    <2>2. pending = <<>> /\ N = 0
      BY <1>3 DEF QuietInv, N
    <2>3. Len(pending') = 0
      BY <1>6, <2>1, <2>2
    <2> QED BY <1>2, <1>3, <1>6, <2>3 DEF QuietInv
  <1>22. FifoOK(fifo)'
    BY <1>1 DEF FifoOK
  <1>23. HandlerMissesNothing'
    <2>1. WillMissNothing
      BY <1>3, MissesIs
    <2>2. WillMissNothing'
      <3> SUFFICES ASSUME listening, NEW j \in Known', Accepts(indexer[j])'
                   PROVE  WillKnow(j, indexer[j])'
        BY <1>2 DEF WillMissNothing
      <3>1. j \in Keys /\ indexer'[j] # None /\ indexer'[j].val \in Filter
        BY DEF Known, Accepts
      <3>2. /\ \A n \in 1..N : TellsOf(j, n)' <=> TellsOf(j, n)
            /\ \A n \in 1..N : Says(pending[n])' = Says(pending[n])
        BY <1>6 DEF TellsOf, Tells, Says, Accepted, Accepts
      <3>3. \A n \in 1..N : n \in 1..Len(pending') /\ n \in Int
        BY <1>6
      \* When no new notification is about j, the old ones decide.
      <3>4. ASSUME NEW x, WillKnow(j, x),
                   \A n \in 1..Len(pending') : n \notin 1..N => ~TellsOf(j, n)'
            PROVE  WillKnow(j, x)'
        <4>1. CASE x = view[j] /\ \A i \in 1..N : ~TellsOf(j, i)
          <5>1. x = view'[j] /\ \A i \in 1..Len(pending') : ~TellsOf(j, i)'
            BY <1>2, <3>2, <3>4, <4>1
          <5> QED BY <5>1 DEF WillKnow
        <4>2. ASSUME NEW m \in 1..N, TellsOf(j, m), x = Says(pending[m]),
                     \A i \in 1..N : i > m => ~TellsOf(j, i)
              PROVE  WillKnow(j, x)'
          <5>1. m \in 1..Len(pending') /\ TellsOf(j, m)' /\ x = Says(pending[m])'
            BY <3>2, <3>3, <4>2
          <5>2. \A i \in 1..Len(pending') : i > m => ~TellsOf(j, i)'
            BY <3>2, <3>4, <4>2
          <5> QED BY <5>1, <5>2 DEF WillKnow
        <4> QED BY <3>4, <4>1, <4>2 DEF WillKnow, N
      <3>5. CASE j # k
        <4>1. indexer'[j] = indexer[j]
          BY <1>11, <3>1, <3>5
        <4>2. WillKnow(j, indexer[j])
          BY <2>1, <3>1, <4>1 DEF WillMissNothing, Known, Accepts
        <4>3. \A n \in 1..Len(pending') : n \notin 1..N => ~TellsOf(j, n)'
          <5> SUFFICES ASSUME NEW n \in 1..Len(pending'), n \notin 1..N PROVE ~TellsOf(j, n)'
            OBVIOUS
          <5>1. PICK m \in 1..Len(notes) : pending'[n] = notes[m]
            BY <1>7
          <5>2. notes[m].key = k
            <6>1. notes[m] = NoteAt(k, ds, at[m])
              BY <1>4
            <6> QED BY <6>1 DEF NoteAt
          <5> QED BY <3>5, <5>1, <5>2 DEF TellsOf
        <4>4. PICK x : x = indexer[j]
          OBVIOUS
        <4>5. WillKnow(j, x)' /\ x = indexer'[j]
          BY <3>4, <4>1, <4>2, <4>3, <4>4
        <4> QED BY <4>5 DEF WillKnow
      <3>6. CASE j = k
        <4>1. PICK o \in Obj : o = After(ds[L])
          BY <1>9, <1>11, <3>1, <3>6 DEF Maybe
        <4>2. indexer'[j] = o /\ o # None /\ o.val \in Filter
          BY <1>11, <3>1, <3>6, <4>1
        <4> DEFINE B == {i \in 0..L : /\ AfterAt(k, ds, i) = o
                                      /\ \A n \in 1..Len(ds) : n > i => ~distribute(NoteAt(k, ds, n))}
        <4>3. \A i : i \in B <=> /\ i \in 0..L /\ AfterAt(k, ds, i) = o
                                 /\ \A n \in 1..Len(ds) : n > i => ~distribute(NoteAt(k, ds, n))
          OBVIOUS
        <4> HIDE DEF B
        <4>4. L \in B
          <5>1. L # 0 /\ L \in 0..L
            BY <1>1, <1>10, <1>17
          <5>2. AfterAt(k, ds, L) = o
            BY <4>1, <5>1 DEF AfterAt
          <5>3. \A n \in 1..Len(ds) : ~(n > L)
            BY <1>1, <1>10
          <5> QED BY <4>3, <5>1, <5>2, <5>3
        <4>5. B \subseteq Nat /\ \A i \in B : i <= L
          BY <1>17, <4>3
        <4>6. PICK i \in B : \A n \in B : i <= n
          BY <4>4, <4>5, Least
        <4>7. i \in Nat /\ i <= L
          BY <4>5
        <4>8. \A m \in 1..Len(notes) : at[m] <= i
          BY <1>4, <1>16, <4>3, <4>6, <4>7
        <4>9. PICK x : x = o
          OBVIOUS
        <4>10. CASE i = 0
          <5>1. \A m \in 1..Len(notes) : FALSE
            <6>1. \A m \in 1..Len(notes) : at[m] <= 0 /\ at[m] \in 1..Len(ds)
              BY <1>16, <4>8, <4>10
            <6> QED BY <6>1
          <5>2. \A n \in 1..Len(pending') : n \notin 1..N => ~TellsOf(j, n)'
            BY <1>7, <5>1
          <5>3. indexer[k] = o
            BY <4>3, <4>6, <4>10 DEF AfterAt
          <5>4. WillKnow(j, x)
            BY <2>1, <3>6, <4>2, <4>9, <5>3 DEF WillMissNothing, Known, Accepts
          <5>5. WillKnow(j, x)'
            BY <3>4, <5>2, <5>4
          <5> QED BY <4>2, <4>9, <5>5 DEF WillKnow
        <4>11. CASE i # 0 /\ distribute(NoteAt(k, ds, i))
          <5>1. i \in 1..Len(ds)
            BY <1>1, <1>10, <4>7, <4>11
          <5>2. PICK m \in 1..Len(notes) : at[m] = i
            BY <1>4, <4>11, <5>1
          <5>3. notes[m].key = k /\ notes[m].new = o
            <6>1. notes[m] = NoteAt(k, ds, i)
              BY <1>4, <5>2
            <6>2. After(ds[i]) = o
              BY <4>3, <4>6, <4>11 DEF AfterAt
            <6> QED BY <6>1, <6>2 DEF NoteAt
          <5>n. N + m \in 1..Len(pending') /\ pending'[N + m] = notes[m] /\ m \in Int
            BY <1>6
          <5>4. PICK n \in 1..Len(pending') : n = N + m /\ pending'[n] = notes[m]
            BY <5>n
          <5>5. TellsOf(j, n)' /\ o = Says(pending[n])'
            BY <3>6, <4>2, <5>3, <5>4 DEF TellsOf, Tells, Says, Accepted, Accepts
          <5>6. \A y \in 1..Len(pending') : y > n => ~TellsOf(j, y)'
            <6> SUFFICES ASSUME NEW y \in 1..Len(pending'), y > n PROVE FALSE
              OBVIOUS
            <6>1. y \notin 1..N
              BY <1>6, <5>4, <5>n
            <6>2. PICK z \in 1..Len(notes) : y = N + z
              BY <1>7, <6>1
            <6>3. m < z
              BY <1>6, <5>4, <5>n, <6>2
            <6>4. at[m] < at[z] /\ at[z] <= i /\ at[z] \in Nat
              BY <1>4, <1>16, <4>8, <6>3
            <6> QED BY <4>7, <5>2, <6>4
          <5>7. WillKnow(j, o)'
            BY <5>4, <5>5, <5>6 DEF WillKnow
          <5> QED BY <4>2, <5>7 DEF WillKnow
        <4>12. CASE i # 0 /\ ~distribute(NoteAt(k, ds, i))
          <5>1. i \in 1..Len(ds) /\ i - 1 \in 0..L
            BY <1>1, <1>10, <4>7, <4>12
          <5>2. After(ds[i]) = o
            BY <4>3, <4>6, <4>12 DEF AfterAt
          <5>3. ds[i].type # "Deleted" /\ ds[i].obj = o
            BY <1>9, <4>2, <5>1, <5>2
          <5>4. PICK b : b = AfterAt(k, ds, i - 1)
            OBVIOUS
          <5>5. PICK note : note = NoteAt(k, ds, i)
            OBVIOUS
          <5>6. note.new = o /\ note.old = b
            BY <5>2, <5>3, <5>4, <5>5 DEF NoteAt
          <5>7. b # None /\ b.rev = o.rev
            BY <4>12, <5>5, <5>6 DEF distribute, isSync
          <5>8. InFifo(k, i, o)
            BY <1>1, <5>1, <5>3 DEF InFifo
          <5>9. b \in Obj /\ Logged(k, b)
            <6>1. CASE i - 1 = 0
              <7>1. b = indexer[k] /\ b \in Obj
                BY <1>3, <5>4, <5>7, <6>1 DEF AfterAt, Maybe
              <7>2. InStore(k, b)
                BY <5>7, <7>1 DEF InStore
              <7> QED BY <1>3, <7>1, <7>2 DEF LoggedInv, OnItsWay
            <6>2. CASE i - 1 # 0
              <7> DEFINE h == i - 1
              <7>1. h \in 1..Len(ds) /\ h \in Nat
                BY <4>7, <5>1, <6>2
              <7>2. b = After(ds[h])
                BY <5>4, <6>2 DEF AfterAt
              <7> HIDE DEF h
              <7>3. ds[h].type # "Deleted" /\ b = ds[h].obj /\ b \in Obj
                BY <1>9, <5>7, <7>1, <7>2
              <7>4. InFifo(k, h, b)
                BY <1>1, <7>1, <7>3 DEF InFifo
              <7> QED BY <1>3, <7>1, <7>3, <7>4 DEF LoggedInv, OnItsWay
            <6> QED BY <6>1, <6>2
          <5>10. Logged(k, o)
            BY <1>3, <4>7, <5>8 DEF LoggedInv, OnItsWay
          <5>11. b = o
            BY <5>7, <5>9, <5>10 DEF Logged
          <5>12. i - 1 \in B
            <6>1. ASSUME NEW n \in 1..Len(ds), n > i - 1 PROVE ~distribute(NoteAt(k, ds, n))
              <7>1. n = i \/ n > i
                BY <1>8, <4>7, <6>1
              <7> QED BY <4>3, <4>6, <4>12, <7>1
            <6> QED BY <4>3, <5>1, <5>4, <5>11, <6>1
          <5>13. i <= i - 1
            BY <4>6, <5>12
          <5> QED BY <4>7, <5>13
        <4> QED BY <4>10, <4>11, <4>12
      <3> QED BY <3>5, <3>6
    <2> QED BY <1>6, <2>2, MissesNext
  <1> QED BY <1>1, <1>13, <1>14, <1>18, <1>19, <1>20, <1>21, <1>22, <1>23 DEF IInv

----------------------------------------------------------------------------
(* The theorems *)

LEMMA InitHolds == ASSUME Init PROVE IInv
  <1> DEFINE S == {k \in Keys : Stored[k] # None}
  <1>1. PICK order \in SetToSeqs(S) :
          /\ log = [i \in 1..Len(order) |-> Event("Added", order[i],
                                                  [val |-> Stored[order[i]], rev |-> i])]
          /\ kv = [k \in Keys |-> IF Stored[k] = None THEN None
                     ELSE [val |-> Stored[k], rev |-> CHOOSE i \in 1..Len(order) : order[i] = k]]
    <2>1. PICK order \in SetToSeqs(S) :
            /\ log = [i \in 1..Len(order) |-> Event("Added", order[i],
                                                    [val |-> Stored[order[i]], rev |-> i])]
            /\ kv = [k \in Keys |-> IF Stored[k] = None THEN None
                       ELSE [val |-> Stored[order[CHOOSE i \in 1..Len(order) : order[i] = k]],
                             rev |-> CHOOSE i \in 1..Len(order) : order[i] = k]]
      BY DEF Init, StorageInit
    <2>2. \A k \in S : \E i \in 1..Len(order) : order[i] = k
      <3>1. IsFiniteSet(S)
        BY SubsetsFinite
      <3> HIDE DEF S
      <3> QED BY <2>1, <3>1, OrderIs
    <2>3. \A k \in S : order[CHOOSE i \in 1..Len(order) : order[i] = k] = k
      BY <2>2
    <2>4. \A k \in Keys : Stored[k] # None =>
            Stored[order[CHOOSE i \in 1..Len(order) : order[i] = k]] = Stored[k]
      BY <2>3
    <2>5. kv = [k \in Keys |-> IF Stored[k] = None THEN None
                  ELSE [val |-> Stored[k], rev |-> CHOOSE i \in 1..Len(order) : order[i] = k]]
      BY <2>1, <2>4
    <2> QED BY <2>1, <2>5
  <1>2. /\ order \in Seq(S) /\ Len(order) \in Nat
        /\ \A i, j \in 1..Len(order) : i # j => order[i] # order[j]
        /\ \A k \in S : \E i \in 1..Len(order) : order[i] = k
    <2>1. IsFiniteSet(S)
      BY SubsetsFinite
    <2> HIDE DEF S
    <2>2. /\ order \in Seq(S)
          /\ \A i, j \in 1..Len(order) : i # j => order[i] # order[j]
          /\ \A k \in S : \E i \in 1..Len(order) : order[i] = k
      BY <2>1, OrderIs
    <2>3. Len(order) \in Nat
      BY <2>2
    <2> QED BY <2>2, <2>3
  <1>3. \A i \in 1..Len(order) : order[i] \in S /\ i \in Nat
    BY <1>2
  <1>4. \A i \in 1..Len(order) :
          Event("Added", order[i], [val |-> Stored[order[i]], rev |-> i]) \in Change
    <2> SUFFICES ASSUME NEW i \in 1..Len(order)
                 PROVE  Event("Added", order[i], [val |-> Stored[order[i]], rev |-> i]) \in Change
      OBVIOUS
    <2>1. order[i] \in Keys /\ Stored[order[i]] \in Vals /\ i \in Nat
      <3>1. order[i] \in S /\ i \in Nat
        BY <1>3
      <3> QED BY <3>1, StorageAssumption
    <2>2. [val |-> Stored[order[i]], rev |-> i] \in Obj
      BY <2>1 DEF Obj
    <2> QED BY <2>1, <2>2 DEF Event, Change
  <1>5. log \in Seq(Change) /\ Len(log) = Len(order)
    <2>1. log \in [1..Len(order) -> Change]
      BY <1>1, <1>4
    <2> QED BY <1>2, <2>1, MadeIs
  <1>6. \A i \in 1..Len(log) : /\ log[i].key = order[i]
                               /\ log[i].obj = [val |-> Stored[order[i]], rev |-> i]
    BY <1>1, <1>5 DEF Event
  <1>7. ASSUME NEW k \in Keys, Stored[k] # None
        PROVE  \E c \in 1..Len(order) : order[c] = k /\ kv[k] = [val |-> Stored[k], rev |-> c]
    <2> DEFINE c == CHOOSE i \in 1..Len(order) : order[i] = k
    <2>1. c \in 1..Len(order) /\ order[c] = k
      BY <1>2, <1>7
    <2>2. kv[k] = [val |-> Stored[k], rev |-> c]
      BY <1>1, <1>7, Zenon
    <2> HIDE DEF c
    <2> QED BY <2>1, <2>2
  <1>8. \A k \in Keys : kv[k] # None => Stored[k] # None
    BY <1>1
  <1>9. kv \in [Keys -> Maybe]
    <2>1. ASSUME NEW k \in Keys PROVE kv[k] \in Maybe
      <3>1. CASE Stored[k] = None
        BY <1>1, <3>1 DEF Maybe
      <3>2. CASE Stored[k] # None
        <4>1. PICK c \in 1..Len(order) : kv[k] = [val |-> Stored[k], rev |-> c]
          BY <1>7, <3>2
        <4>2. Stored[k] \in Vals /\ c \in Nat
          BY <1>3, <3>2, StorageAssumption
        <4> QED BY <4>1, <4>2 DEF Maybe, Obj
      <3> QED BY <3>1, <3>2
    <2> QED BY <1>1, <2>1
  <1>10. LogInv
    <2>1. \A i \in 1..Len(log) : log[i].obj.rev = i
      <3> SUFFICES ASSUME NEW i \in 1..Len(log) PROVE log[i].obj.rev = i
        OBVIOUS
      <3>1. log[i].obj = [val |-> Stored[order[i]], rev |-> i]
        BY <1>6
      <3> QED BY <3>1
    <2>2. ASSUME NEW k \in Keys, kv[k] # None
          PROVE  Logged(k, kv[k]) /\ \A i \in 1..Len(log) : log[i].key = k => i <= kv[k].rev
      <3>1. PICK c \in 1..Len(order) : order[c] = k /\ kv[k] = [val |-> Stored[k], rev |-> c]
        BY <1>7, <1>8, <2>2
      <3>2. kv[k].rev = c /\ c \in Nat
        BY <1>3, <3>1
      <3>3. Logged(k, kv[k])
        BY <1>5, <1>6, <3>1, <3>2 DEF Logged
      <3>4. \A i \in 1..Len(log) : log[i].key = k => i = c
        <4> SUFFICES ASSUME NEW i \in 1..Len(log), log[i].key = k PROVE i = c
          OBVIOUS
        <4>1. order[i] = k /\ i \in 1..Len(order)
          BY <1>5, <1>6
        <4> QED BY <1>2, <3>1, <4>1
      <3> QED BY <3>2, <3>3, <3>4
    <2> QED BY <2>1, <2>2 DEF LogInv
  <1>11. /\ open = FALSE /\ pos = 0 /\ stream = <<>> /\ reflector = "list" /\ received = FALSE
         /\ faults = 0 /\ fifo = NewDeltaFIFO /\ indexer = NoObjects
         /\ indices = [v \in Vals |-> {}] /\ listening = FALSE /\ syncing = FALSE
         /\ pending = <<>> /\ view = NoObjects /\ awaited = {}
    BY DEF Init, StorageInit
  <1>12. \A k \in Keys : indexer[k] = None /\ view[k] = None
    BY <1>11 DEF NoObjects
  <1> DEFINE none == [k \in Keys |-> <<>>]
             no == FALSE
  <1>13. none \in [Keys -> Seq(DeltaSet)] /\ \A k \in Keys : none[k] = <<>>
    OBVIOUS
  <1>14. fifo = [items |-> none, queue |-> <<>>, populated |-> no, initialPopulationCount |-> 0]
    BY <1>11 DEF NewDeltaFIFO
  <1>15. no \in BOOLEAN /\ ~no
    OBVIOUS
  <1> HIDE DEF none, no
  <1>16. fifo \in Fifo
    BY <1>13, <1>14, <1>15 DEF Fifo
  <1>17. fifo.queue = <<>> /\ fifo.items = none
    BY <1>14
  <1>18. TypeOK
    <2>1. indexer \in [Keys -> Maybe] /\ view \in [Keys -> Maybe]
      BY <1>11 DEF NoObjects, Maybe
    <2>2. open \in BOOLEAN /\ received \in BOOLEAN /\ listening \in BOOLEAN /\ syncing \in BOOLEAN
      BY <1>11
    <2>3. /\ pos \in Nat /\ pos <= Len(log) /\ faults \in Nat /\ stream \in Seq(Change \cup End)
          /\ pending \in Seq(Note)
      BY <1>2, <1>5, <1>11
    <2>4. indices \in [Vals -> SUBSET Keys] /\ awaited \subseteq Keys
      BY <1>11
    <2> QED BY <1>5, <1>9, <1>11, <1>16, <2>1, <2>2, <2>3, <2>4 DEF TypeOK, StorageTypeOK
  <1>19. FifoOK(fifo)
    BY <1>13, <1>17 DEF FifoOK
  <1>20. CountInv
    BY <1>11, <1>17 DEF CountInv
  <1>21. IndexMatchesStore
    BY <1>11, <1>12 DEF IndexMatchesStore, Known
  <1>22. ASSUME NEW k \in Keys, NEW o \in Obj, NEW i \in Nat
         PROVE  ~(InView(k, o) \/ InNotes(k, i, o) \/ InStore(k, o) \/ InFifo(k, i, o) \/ InStream(k, i, o))
    BY <1>11, <1>12, <1>13, <1>17 DEF InView, InNotes, InStore, InFifo, InStream
  <1>23. LoggedInv /\ OrderInv
    BY <1>22 DEF LoggedInv, OrderInv
  <1>24. WatchInv /\ QuietInv /\ HandlerMissesNothing
    BY <1>11, <1>12 DEF WatchInv, QuietInv, HandlerMissesNothing
  <1> QED BY <1>10, <1>18, <1>19, <1>20, <1>21, <1>23, <1>24 DEF IInv

LEMMA StutterKeeps == ASSUME IInv, UNCHANGED vars PROVE IInv'
  <1>1. UNCHANGED <<kv, log, open, pos, stream, reflector, received, faults, fifo, indexer, indices,
                    listening, syncing, pending, view, awaited>>
    BY DEF vars, storageVars, informerVars
  <1>2. TypeOK' /\ WatchInv'
    BY <1>1 DEF IInv, TypeOK, StorageTypeOK, WatchInv
  <1>3. \A k \in Keys, o \in Obj : OnItsWay(k, o) => OnItsWay(k, o)'
    BY <1>1 DEF OnItsWay, Logged
  <1>4. LoggedInv' /\ OrderInv'
    BY <1>1, <1>3, InformerSame, StreamSame, FlowLess DEF IInv
  <1>5. /\ FifoOK(fifo)' /\ CountInv' /\ IndexMatchesStore' /\ QuietInv'
        /\ HandlerMissesNothing' /\ LogInv'
    BY <1>1, FifoSame, HandlerSame, LogSame DEF IInv
  <1> QED BY <1>2, <1>4, <1>5 DEF IInv

\* The inductive invariant: types, the FIFO's shape and count, the index, and that
\* every object on its way from etcd to the handler was written and is no newer than
\* what follows it (storage, reflector, DeltaFIFO, indexer, processor).
THEOREM Invariant == Spec => []IInv
  <1>1. Init => IInv
    BY InitHolds
  <1>2. IInv /\ [Next]_vars => IInv'
    <2> SUFFICES ASSUME IInv, [Next]_vars PROVE IInv'
      OBVIOUS
    <2>1. CASE Write      BY <2>1, WriteKeeps
    <2>2. CASE Serve      BY <2>2, ServeKeeps
    <2>3. CASE WatchEnds  BY <2>3, WatchEndsKeeps
    <2>4. CASE List       BY <2>4, ListKeeps
    <2>5. CASE Watch      BY <2>5, WatchKeeps
    <2>6. CASE WatchFails BY <2>6, WatchFailsKeeps
    <2>7. CASE ReceiveEvent    BY <2>7, ReceiveEventKeeps
    <2>8. CASE WatchReturns    BY <2>8, WatchReturnsKeeps
    <2>9. CASE Resync     BY <2>9, ResyncKeeps
    <2>10. CASE Pop       BY <2>10, PopKeeps
    <2>11. CASE Notify    BY <2>11, NotifyKeeps
    <2>12. CASE AddEventHandler BY <2>12, AddEventHandlerKeeps
    <2>13. CASE UNCHANGED vars BY <2>13, StutterKeeps
    <2> QED BY <2>1, <2>2, <2>3, <2>4, <2>5, <2>6, <2>7, <2>8, <2>9, <2>10, <2>11, <2>12,
               <2>13 DEF Next
  <1> QED BY <1>1, <1>2, PTL DEF Spec

\* Every variable of the storage and the informer keeps its type.
THEOREM TypeCorrect == Spec => []TypeOK
  <1>1. IInv => TypeOK
    BY DEF IInv
  <1> QED BY <1>1, Invariant, PTL

\* The index answers for the objects the store has and for no others, whatever
\* deltas were popped (thread_safe_store.go updateIndices).
THEOREM IndexFollowsStore == Spec => []IndexMatchesStore
  <1>1. IInv => IndexMatchesStore
    BY DEF IInv
  <1> QED BY <1>1, Invariant, PTL

\* Whenever the handler was added, and however resyncs are suppressed, what it has
\* been told and is going to be told of an accepted object ends with the indexer's
\* version (informer.go distribute, AddEventHandlerWithResyncPeriod).
THEOREM NothingIsMissed == Spec => []HandlerMissesNothing
  <1>1. IInv => HandlerMissesNothing
    BY DEF IInv
  <1> QED BY <1>1, Invariant, PTL

\* HasSynced means that all the objects of the first list were popped, even when
\* events and resyncs came in between (delta_fifo.go Replace, Pop, HasSynced).
THEOREM SyncedIsListed == Spec => []SyncedMeansListed
  <1>1. IInv => SyncedMeansListed
    <2> SUFFICES ASSUME IInv, HasSynced, NEW k \in awaited PROVE FALSE
      BY DEF SyncedMeansListed
    <2>1. PICK i \in 1..Len(fifo.queue) : i <= 0
      BY DEF IInv, CountInv, HasSynced
    <2>2. Len(fifo.queue) \in Nat
      BY DEF IInv, TypeOK, Fifo
    <2> QED BY <2>1, <2>2
  <1> QED BY <1>1, Invariant, PTL

\* The handler never sees an object go back to an older version, through any
\* number of relists, reopened watches and resyncs (delta_fifo.go syncKeyLocked,
\* reflector.go watchHandler).
THEOREM VersionsOnlyGrow == Spec => NeverOlder
  <1>1. IInv /\ [Next]_vars =>
          [\A k \in Keys : (view[k] # None /\ view'[k] # None) => view'[k].rev >= view[k].rev]_vars
    <2> SUFFICES ASSUME IInv, Next, NEW k \in Keys, view[k] # None, view'[k] # None
                 PROVE  view'[k].rev >= view[k].rev
      OBVIOUS
    <2>1. view[k] \in Obj /\ view[k].rev \in Nat
      BY DEF IInv, TypeOK, Maybe, Obj
    <2>2. CASE view' = view
      BY <2>1, <2>2
    <2>3. CASE Notify
      <3>1. /\ pending # <<>> /\ view' = Told(view, Head(pending)) /\ pending \in Seq(Note)
            /\ view \in [Keys -> Maybe] /\ OrderInv
        BY <2>3 DEF Notify, IInv, TypeOK
      <3>2. Head(pending) = pending[1] /\ Head(pending) \in Note /\ Len(pending) \in Nat \ {0}
        BY <3>1, TailIs
      <3>3. PICK note \in Note : note = Head(pending)
        BY <3>2
      <3>4. view'[k] = IF k = note.key /\ Tells(note) THEN Says(note) ELSE view[k]
        BY <3>1, <3>3, ToldIs
      <3>5. CASE view'[k] = view[k]
        BY <2>1, <3>5
      <3>6. CASE view'[k] # view[k]
        <4>1. k = note.key /\ view'[k] = note.new
          BY <3>4, <3>6 DEF Says
        <4>2. note.new \in Obj
          BY <4>1 DEF Note, Maybe
        <4>3. PICK p \in Obj : p = note.new
          BY <4>2
        <4>4. PICK o \in Obj : o = view[k]
          BY <2>1
        <4>5. InNotes(k, 1, p)
          BY <3>2, <3>3, <4>1, <4>3 DEF InNotes
        <4>6. InView(k, o)
          BY <4>4 DEF InView
        <4>7. o.rev <= p.rev /\ o.rev \in Nat /\ p.rev \in Nat
          BY <3>1, <4>5, <4>6 DEF OrderInv, Obj
        <4> QED BY <4>1, <4>3, <4>4, <4>7
      <3> QED BY <3>5, <3>6
    <2>4. Notify \/ view' = view
      BY DEF Next, Write, Serve, WatchEnds, List, Watch, WatchFails, ReceiveEvent, WatchReturns,
             Resync, Pop, AddEventHandler, informerVars, handlerVars
    <2> QED BY <2>2, <2>3, <2>4
  <1> QED BY <1>1, Invariant, PTL DEF Spec, NeverOlder


----------------------------------------------------------------------------
(* The dags of the API server (module Api). Clients have no method about   *)
(* dags: only PUT workflow/{uid}/dag writes them.                          *)

DagObject == [key : Uids, uid : Uids, workflow : Uids, edit : Nat]
DagEdit == [edit : Nat, workflow : Uids, dag : Uids \cup {Unset}]

DagTypes ==
  /\ DOMAIN store = StorageMap /\ store["dag"] \in Seq(DagObject)
  /\ edits \in Nat /\ editing \subseteq DagEdit /\ written \in [Uids -> Nat]

KeysDiffer(list) == \A i, j \in 1..Len(list) : list[i].key = list[j].key => i = j

IsFirstOf(list, w, i) ==
  /\ i \in 1..Len(list) /\ list[i].workflow = w
  /\ \A j \in 1..Len(list) : list[j].workflow = w => i <= j

\* The first dag of the workflow has the last edit.
FirstHasLastEdit(w) ==
  LET dags == store["dag"]
  IN \/ \E i \in 1..Len(dags) : IsFirstOf(dags, w, i) /\ dags[i].edit = written[w]
     \/ (\A i \in 1..Len(dags) : dags[i].workflow # w) /\ written[w] = 0

\* The dag that a running edit has found is still one of its workflow.
FoundIsOwn ==
  \A e \in editing :
    e.dag # Unset =>
      \E i \in 1..Len(store["dag"]) :
        store["dag"][i].key = e.dag /\ store["dag"][i].workflow = e.workflow

DagInv ==
  /\ DagTypes /\ KeysDiffer(store["dag"])
  /\ \A w \in Uids : FirstHasLastEdit(w)
  /\ FoundIsOwn

\* The object is at the front, and what was before its old place has moved down by one.
MovedToFront(list, obj, r) ==
  \E at \in 1..(Len(list) + 1) :
    /\ \A j \in 1..Len(list) : list[j].key = obj.key <=> j = at
    /\ Len(r) = IF at = Len(list) + 1 THEN at ELSE Len(list)
    /\ \A k \in 1..Len(r) :
         r[k] = IF k = 1 THEN obj ELSE IF k <= at THEN list[k - 1] ELSE list[k]

LEMMA PutMovesToFront ==
  ASSUME NEW D, NEW list \in Seq(D), KeysDiffer(list), NEW obj \in D
  PROVE  Put(list, obj) \in Seq(D) /\ MovedToFront(list, obj, Put(list, obj))
  <1> DEFINE r == Put(list, obj)  n == Len(list)
  <1>1. n \in Nat /\ DOMAIN list = 1..n
    OBVIOUS
  <1>2. CASE \E i \in 1..n : list[i].key = obj.key
    <2> DEFINE at == PlaceOf(list, obj.key)
               front == SubSeq(list, 1, at - 1)  back == SubSeq(list, at + 1, n)
    <2>1. at \in 1..n /\ list[at].key = obj.key
      BY <1>1, <1>2 DEF PlaceOf
    <2>2. r = <<obj>> \o (front \o back)
      BY <1>1, <1>2 DEF Put, RemoveAt
    <2>3. \A j \in 1..n : list[j].key = obj.key <=> j = at
      BY <2>1 DEF KeysDiffer
    <2> HIDE DEF at, r, n
    <2>4. /\ front \in Seq(D) /\ Len(front) = at - 1
          /\ \A j \in 1..(at - 1) : front[j] = list[j]
      BY <1>1, <2>1 DEF n
    <2>5. /\ back \in Seq(D) /\ Len(back) = n - at
          /\ \A j \in 1..(n - at) : back[j] = list[at + j]
      <3>1. back \in Seq(D) /\ Len(back) = (IF at + 1 <= n THEN n - (at + 1) + 1 ELSE 0)
        BY <1>1, <2>1 DEF n
      <3>2. \A j \in 1..Len(back) : back[j] = list[(at + 1) + j - 1]
        BY <1>1, <2>1 DEF n
      <3> HIDE DEF back
      <3>3. Len(back) = n - at
        BY <1>1, <2>1, <3>1
      <3>4. \A j \in 1..(n - at) : (at + 1) + j - 1 = at + j
        BY <1>1, <2>1
      <3> QED BY <3>1, <3>2, <3>3, <3>4
    <2> HIDE DEF front, back
    <2>6. /\ front \o back \in Seq(D) /\ Len(front \o back) = n - 1
          /\ \A j \in 1..(n - 1) : (front \o back)[j] = IF j < at THEN list[j] ELSE list[j + 1]
      <3>1. front \o back \in Seq(D) /\ Len(front \o back) = n - 1
        BY <1>1, <2>1, <2>4, <2>5
      <3>2. ASSUME NEW j \in 1..(n - 1), j < at PROVE (front \o back)[j] = list[j]
        BY <1>1, <2>1, <2>4, <2>5, <3>2
      <3>3. ASSUME NEW j \in 1..(n - 1), ~(j < at) PROVE (front \o back)[j] = list[j + 1]
        <4>1. (front \o back)[j] = back[j - (at - 1)]
          BY <1>1, <2>1, <2>4, <2>5, <3>3
        <4>2. j - (at - 1) \in 1..(n - at) /\ at + (j - (at - 1)) = j + 1
          BY <1>1, <2>1, <3>3
        <4> QED BY <2>5, <4>1, <4>2
      <3> QED BY <3>1, <3>2, <3>3
    <2>7. r \in Seq(D) /\ Len(r) = n
      BY <1>1, <2>2, <2>6
    <2>8. ASSUME NEW k \in 1..n
          PROVE  r[k] = IF k = 1 THEN obj ELSE IF k <= at THEN list[k - 1] ELSE list[k]
      <3>1. k = 1 => r[k] = obj
        BY <2>2, <2>6
      <3>2. k # 1 => r[k] = (front \o back)[k - 1] /\ k - 1 \in 1..(n - 1)
        BY <1>1, <2>2, <2>6
      <3>3. k # 1 => r[k] = IF k - 1 < at THEN list[k - 1] ELSE list[(k - 1) + 1]
        BY <2>6, <3>2
      <3>4. (k - 1 < at <=> k <= at) /\ (k - 1) + 1 = k
        BY <1>1, <2>1
      <3> QED BY <3>1, <3>3, <3>4
    <2>9. at \in 1..(n + 1) /\ at # n + 1
      BY <1>1, <2>1
    <2> QED BY <2>3, <2>7, <2>8, <2>9 DEF r, n, MovedToFront
  <1>3. CASE ~\E i \in 1..n : list[i].key = obj.key
    <2>1. r = <<obj>> \o list
      BY <1>1, <1>3 DEF Put
    <2> HIDE DEF r
    <2>2. r \in Seq(D) /\ Len(r) = n + 1
      BY <1>1, <2>1
    <2>3. ASSUME NEW k \in 1..(n + 1) PROVE r[k] = IF k = 1 THEN obj ELSE list[k - 1]
      BY <1>1, <2>1
    <2>4. \A j \in 1..n : list[j].key = obj.key <=> j = n + 1
      BY <1>1, <1>3
    <2>5. n + 1 \in 1..(n + 1) /\ \A k \in 1..(n + 1) : k <= n + 1
      BY <1>1
    <2> HIDE DEF n
    <2> QED BY <2>2, <2>3, <2>4, <2>5 DEF r, n, MovedToFront
  <1> QED BY <1>2, <1>3

\* A dag is written that is new or the edit's own.
LEMMA DagWritten ==
  ASSUME DagInv, NEW e \in editing, NEW k \in Uids, WriteDag(e, k),
         \A j \in 1..Len(store["dag"]) :
           store["dag"][j].key = k => store["dag"][j].workflow = e.workflow,
         editing' \subseteq editing, UNCHANGED edits
  PROVE  DagInv'
  <1> DEFINE list == store["dag"]
             obj == [key |-> k, uid |-> k, workflow |-> e.workflow, edit |-> e.edit]
             r == Put(list, obj)
  <1>1. /\ DagTypes /\ KeysDiffer(list) /\ FoundIsOwn /\ list \in Seq(DagObject)
        /\ Len(list) \in Nat
    BY DEF DagInv, DagTypes
  <1>2. e \in DagEdit /\ e.workflow \in Uids /\ e.edit \in Nat
    BY <1>1 DEF DagTypes, DagEdit
  <1>3. obj \in DagObject /\ obj.key = k /\ obj.workflow = e.workflow /\ obj.edit = e.edit
    BY <1>2 DEF DagObject
  <1>4. "dag" \in StorageMap
    BY DEF StorageMap
  <1>5. store' = [store EXCEPT !["dag"] = r] /\ written' = [written EXCEPT ![e.workflow] = e.edit]
    BY DEF WriteDag
  <1>6. store'["dag"] = r /\ DOMAIN store' = StorageMap
    BY <1>1, <1>4, <1>5 DEF DagTypes
  <1> HIDE DEF r, list, obj
  <1>r. r \in Seq(DagObject) /\ MovedToFront(list, obj, r)
    <2>1. list \in Seq(DagObject) /\ KeysDiffer(list) /\ obj \in DagObject
      BY <1>1, <1>3
    <2> QED BY <2>1, PutMovesToFront DEF r
  <1>7. PICK at \in 1..(Len(list) + 1) :
          /\ \A j \in 1..Len(list) : list[j].key = k <=> j = at
          /\ Len(r) = IF at = Len(list) + 1 THEN at ELSE Len(list)
          /\ \A i \in 1..Len(r) :
               r[i] = IF i = 1 THEN obj ELSE IF i <= at THEN list[i - 1] ELSE list[i]
    BY <1>3, <1>r DEF MovedToFront
  <1>8. /\ Len(r) \in Nat /\ 1 \in 1..Len(r) /\ r[1] = obj
    BY <1>1, <1>7, <1>r
  \* Every other object of the new list comes from the old one, in order ...
  <1> DEFINE from(i) == IF i <= at THEN i - 1 ELSE i
  <1>9. ASSUME NEW i \in 1..Len(r), i # 1
        PROVE  from(i) \in 1..Len(list) /\ from(i) # at /\ r[i] = list[from(i)]
    BY <1>1, <1>7, <1>9
  \* ... and what is not overwritten is still there.
  <1> DEFINE to(j) == IF j < at THEN j + 1 ELSE j
  <1>10. ASSUME NEW j \in 1..Len(list), j # at
         PROVE  /\ to(j) \in 1..Len(r) /\ to(j) # 1 /\ r[to(j)] = list[j]
    <2>1. to(j) \in 1..Len(r) /\ to(j) # 1 /\ from(to(j)) = j
      BY <1>1, <1>7, <1>10
    <2> QED BY <1>7, <2>1
  <1>11. DagTypes'
    BY <1>1, <1>2, <1>5, <1>6, <1>r DEF DagTypes
  <1>12. KeysDiffer(r)
    <2> SUFFICES ASSUME NEW i \in 1..Len(r), NEW j \in 1..Len(r), r[i].key = r[j].key
                 PROVE  i = j
      BY DEF KeysDiffer
    <2>1. CASE i = 1 \/ j = 1
      <3>1. ASSUME NEW l \in 1..Len(r), l # 1 PROVE r[l].key # k
        <4>1. from(l) \in 1..Len(list) /\ from(l) # at /\ r[l] = list[from(l)]
          BY <1>9, <3>1
        <4> HIDE DEF from
        <4> QED BY <1>7, <4>1
      <3> QED BY <1>3, <1>8, <2>1, <3>1
    <2>2. CASE i # 1 /\ j # 1
      <3>1. /\ from(i) \in 1..Len(list) /\ from(i) # at /\ r[i] = list[from(i)]
            /\ from(j) \in 1..Len(list) /\ from(j) # at /\ r[j] = list[from(j)]
        BY <1>9, <2>2
      <3>2. from(i) = from(j)
        <4> HIDE DEF from
        <4> QED BY <1>1, <3>1 DEF KeysDiffer
      <3> QED BY <1>1, <1>7, <3>1, <3>2
    <2> QED BY <2>1, <2>2
  <1>13. ASSUME NEW w \in Uids PROVE FirstHasLastEdit(w)'
    <2>1. CASE w = e.workflow
      <3>1. IsFirstOf(r, w, 1) /\ r[1].edit = written'[w]
        <4>1. \A j \in 1..Len(r) : 1 <= j
          OBVIOUS
        <4>2. written'[w] = e.edit
          BY <1>1, <1>5, <2>1 DEF DagTypes
        <4> QED BY <1>3, <1>8, <2>1, <4>1, <4>2 DEF IsFirstOf
      <3> QED BY <1>6, <1>8, <3>1 DEF FirstHasLastEdit
    <2>2. CASE w # e.workflow
      <3>1. written'[w] = written[w]
        BY <1>1, <1>5, <2>2 DEF DagTypes
      <3>2. CASE (\A i \in 1..Len(list) : list[i].workflow # w) /\ written[w] = 0
        <4>1. \A i \in 1..Len(r) : r[i].workflow # w
          BY <1>3, <1>8, <1>9, <2>2, <3>2
        <4> QED BY <1>6, <3>1, <3>2, <4>1 DEF FirstHasLastEdit
      <3>3. ASSUME NEW i \in 1..Len(list), IsFirstOf(list, w, i), list[i].edit = written[w]
            PROVE  FirstHasLastEdit(w)'
        <4>1. i # at
          BY <1>7, <2>2, <3>3 DEF IsFirstOf, list
        <4>2. to(i) \in 1..Len(r) /\ r[to(i)] = list[i]
          BY <1>10, <4>1
        <4>3. ASSUME NEW j \in 1..Len(r), r[j].workflow = w PROVE to(i) <= j
          <5>1. j # 1
            BY <1>3, <1>8, <2>2, <4>3
          <5>2. from(j) \in 1..Len(list) /\ from(j) # at /\ list[from(j)].workflow = w
            BY <1>9, <4>3, <5>1
          <5>3. i <= from(j)
            BY <3>3, <5>2 DEF IsFirstOf
          <5> QED BY <1>1, <1>7, <4>1, <5>2, <5>3
        <4> HIDE DEF to
        <4>4. IsFirstOf(r, w, to(i))
          BY <3>3, <4>2, <4>3 DEF IsFirstOf
        <4> QED BY <1>6, <3>1, <3>3, <4>2, <4>4 DEF FirstHasLastEdit
      <3> QED BY <3>2, <3>3 DEF DagInv, FirstHasLastEdit, list
    <2> QED BY <2>1, <2>2
  <1>14. FoundIsOwn'
    <2> SUFFICES ASSUME NEW f \in editing, f.dag # Unset
                 PROVE  \E i \in 1..Len(r) : r[i].key = f.dag /\ r[i].workflow = f.workflow
      BY <1>6 DEF FoundIsOwn
    <2>1. PICK i \in 1..Len(list) : list[i].key = f.dag /\ list[i].workflow = f.workflow
      BY <1>1 DEF FoundIsOwn, list
    <2>2. CASE i = at
      <3>1. f.dag = k /\ f.workflow = e.workflow
        BY <1>7, <2>1, <2>2 DEF list
      <3> QED BY <1>3, <1>8, <3>1
    <2>3. CASE i # at
      <3>1. to(i) \in 1..Len(r) /\ r[to(i)] = list[i]
        BY <1>10, <2>3
      <3> QED BY <2>1, <3>1
    <2> QED BY <2>2, <2>3
  <1> QED BY <1>6, <1>11, <1>12, <1>13, <1>14 DEF DagInv

\* What leaves the dags and their edits alone.
LEMMA DagsKept ==
  ASSUME DagInv, DOMAIN store' = DOMAIN store, store'["dag"] = store["dag"],
         editing' \subseteq editing, UNCHANGED <<edits, written>>
  PROVE  DagInv'
  <1>1. DagTypes' /\ KeysDiffer(store'["dag"])
    BY DEF DagInv, DagTypes
  <1>2. \A w \in Uids : FirstHasLastEdit(w)'
    BY DEF DagInv, FirstHasLastEdit
  <1>3. FoundIsOwn'
    BY DEF DagInv, FoundIsOwn
  <1> QED BY <1>1, <1>2, <1>3 DEF DagInv

LEMMA FirstIsTheMinimum ==
  ASSUME DagTypes, NEW w, NEW i, IsFirstOf(store["dag"], w, i)
  PROVE  DagsOf(w) # {} /\ FirstDag(w) = store["dag"][i]
  <1>1. DOMAIN store["dag"] = 1..Len(store["dag"])
    BY DEF DagTypes
  <1>2. i \in DagsOf(w) /\ \A j \in DagsOf(w) : i <= j /\ j \in Nat
    BY <1>1 DEF IsFirstOf, DagsOf
  <1>3. Min(DagsOf(w)) = i
    BY <1>2 DEF Min
  <1> QED BY <1>2, <1>3 DEF FirstDag

LEMMA DagInit == ApiInit => DagInv
  <1> SUFFICES ASSUME ApiInit PROVE DagInv
    OBVIOUS
  <1>1. "dag" \in StorageMap
    BY DEF StorageMap
  <1>2. DOMAIN store = StorageMap /\ store["dag"] = <<>>
    BY <1>1 DEF ApiInit
  <1>3. Len(store["dag"]) = 0 /\ store["dag"] \in Seq(DagObject)
    BY <1>2
  <1>4. edits = 0 /\ editing = {} /\ written = [w \in Uids |-> 0]
    BY DEF ApiInit
  <1> QED BY <1>2, <1>3, <1>4
          DEF DagInv, DagTypes, KeysDiffer, FirstHasLastEdit, FoundIsOwn

LEMMA DagStep == DagInv /\ [ApiNext]_apiVars => DagInv'
  <1> SUFFICES ASSUME DagInv, [ApiNext]_apiVars PROVE DagInv'
    OBVIOUS
  <1>0. DagTypes /\ "dag" \in StorageMap /\ KeysDiffer(store["dag"]) /\ FoundIsOwn
    BY DEF DagInv, StorageMap
  <1>1. CASE UNCHANGED apiVars
    BY <1>1, DagsKept DEF apiVars
  <1>2. ASSUME NEW kind \in Clients, NEW m, CallNew(kind, m) \/ Call(kind, m) PROVE DagInv'
    <2>1. PICK out : Answered(kind, m, out)
      BY <1>2 DEF CallNew, Call
    <2>2. store' = [store EXCEPT ![kind] = out.list] /\ UNCHANGED <<edits, editing, written>>
      BY <2>1 DEF Answered
    <2>3. kind # "dag"
      BY DEF Clients
    <2> QED BY <1>0, <2>2, <2>3, DagsKept DEF DagTypes
  <1>3. CASE Return \/ ScheduleNow
    <2>1. DOMAIN store' = DOMAIN store /\ store'["dag"] = store["dag"]
      BY <1>0, <1>3 DEF Return, ScheduleNow, DagTypes
    <2> QED BY <1>3, <2>1, DagsKept DEF Return, ScheduleNow
  <1>4. ASSUME NEW w \in Uids, UpdateDagLists(w) PROVE DagInv'
    <2> DEFINE e == [edit |-> edits + 1, workflow |-> w,
                     dag |-> IF DagsOf(w) = {} THEN Unset ELSE FirstDag(w).key]
    <2>1. /\ edits' = edits + 1 /\ editing' = editing \cup {e} /\ UNCHANGED <<store, written>>
      BY <1>4 DEF UpdateDagLists
    <2>2. \/ DagsOf(w) = {}
          \/ \E i \in 1..Len(store["dag"]) :
               IsFirstOf(store["dag"], w, i) /\ FirstDag(w) = store["dag"][i]
      <3>1. CASE \E i \in 1..Len(store["dag"]) : IsFirstOf(store["dag"], w, i)
        BY <1>0, <3>1, FirstIsTheMinimum
      <3>2. CASE \A i \in 1..Len(store["dag"]) : store["dag"][i].workflow # w
        BY <1>0, <3>2 DEF DagsOf, DagTypes
      <3> QED BY <3>1, <3>2 DEF DagInv, FirstHasLastEdit
    <2>3. \/ e.dag = Unset
          \/ \E i \in 1..Len(store["dag"]) :
               store["dag"][i].key = e.dag /\ store["dag"][i].workflow = w
      BY <2>2 DEF IsFirstOf
    <2>4. e.workflow = w /\ e \in DagEdit
      <3>1. e.dag \in Uids \cup {Unset}
        <4>1. \A i \in 1..Len(store["dag"]) : store["dag"][i] \in DagObject
          BY <1>0 DEF DagTypes
        <4> HIDE DEF e
        <4> QED BY <2>3, <4>1 DEF DagObject
      <3>2. edits + 1 \in Nat
        BY <1>0 DEF DagTypes
      <3> QED BY <3>1, <3>2 DEF DagEdit
    <2> HIDE DEF e
    <2>5. FoundIsOwn'
      BY <1>0, <2>1, <2>3, <2>4 DEF FoundIsOwn
    <2>6. DagTypes' /\ KeysDiffer(store'["dag"])
      BY <1>0, <2>1, <2>4 DEF DagTypes
    <2>7. \A v \in Uids : FirstHasLastEdit(v)'
      BY <2>1 DEF DagInv, FirstHasLastEdit
    <2> QED BY <2>5, <2>6, <2>7 DEF DagInv
  <1>5. ASSUME NEW e \in editing, UpdateDagWrites(e) PROVE DagInv'
    <2>1. editing' \subseteq editing /\ UNCHANGED edits
      BY <1>5 DEF UpdateDagWrites
    <2>2. CASE e.dag # Unset /\ WriteDag(e, e.dag)
      <3>1. e.dag \in Uids
        BY <1>0, <2>2 DEF DagTypes, DagEdit
      <3>2. \A j \in 1..Len(store["dag"]) :
              store["dag"][j].key = e.dag => store["dag"][j].workflow = e.workflow
        BY <1>0, <2>2 DEF FoundIsOwn, KeysDiffer
      <3> QED BY <2>1, <2>2, <3>1, <3>2, DagWritten
    <2>3. ASSUME NEW k \in Uids, ~HasKey("dag", k), WriteDag(e, k) PROVE DagInv'
      <3>1. \A j \in 1..Len(store["dag"]) : store["dag"][j].key # k
        BY <1>0, <2>3 DEF HasKey, DagTypes
      <3> QED BY <2>1, <2>3, <3>1, DagWritten
    <2> QED BY <1>5, <2>2, <2>3 DEF UpdateDagWrites
  <1>6. ASSUME NEW e \in editing, UpdateDagFails(e) PROVE DagInv'
    BY <1>6, DagsKept DEF UpdateDagFails
  <1> QED BY <1>1, <1>2, <1>3, <1>4, <1>5, <1>6 DEF ApiNext

(* For any workflows and any number of concurrent edits, first edits that  *)
(* create two dags of one workflow included, workflowGetDag answers with   *)
(* what the last successful workflowUpdateDag wrote.                       *)
THEOREM LastEditIsRead == ApiSpec => []DagIsLastWritten
  <1>1. DagInv => DagIsLastWritten
    <2> SUFFICES ASSUME DagInv, NEW w \in Uids PROVE GetDag(w) = written[w]
      BY DEF DagIsLastWritten
    <2>1. DagTypes
      BY DEF DagInv
    <2>2. ASSUME NEW i \in 1..Len(store["dag"]), IsFirstOf(store["dag"], w, i),
                 store["dag"][i].edit = written[w]
          PROVE  GetDag(w) = written[w]
      BY <2>1, <2>2, FirstIsTheMinimum DEF GetDag
    <2>3. CASE (\A i \in 1..Len(store["dag"]) : store["dag"][i].workflow # w) /\ written[w] = 0
      <3>1. DagsOf(w) = {}
        BY <2>1, <2>3 DEF DagsOf, DagTypes
      <3> QED BY <2>3, <3>1 DEF GetDag
    <2> QED BY <2>2, <2>3 DEF DagInv, FirstHasLastEdit
  <1> QED BY <1>1, DagInit, DagStep, PTL DEF ApiSpec

----------------------------------------------------------------------------
(* The calls of the clients and the routes of the server (module Api).     *)

\* The path of a request, by what is set.
LEMMA ConcatTwo == ASSUME NEW r, NEW k PROVE <<r>> \o <<k>> = <<r, k>>
  <1> DEFINE D == {r, k}  a == <<r>> \o <<k>>  b == <<r, k>>
  <1>1. a \in Seq(D) /\ Len(a) = 2 /\ a[1] = r /\ a[2] = k
    OBVIOUS
  <1>2. b \in Seq(D) /\ Len(b) = 2 /\ b[1] = r /\ b[2] = k
    OBVIOUS
  <1> HIDE DEF a, b, D
  <1>3. a \in [1..2 -> D] /\ b \in [1..2 -> D] /\ \A i \in 1..2 : a[i] = b[i]
    BY <1>1, <1>2
  <1>4. a = b
    BY <1>3
  <1> QED BY <1>4 DEF a, b

LEMMA ConcatThree == ASSUME NEW r, NEW k, NEW l PROVE <<r, k>> \o <<l>> = <<r, k, l>>
  <1> DEFINE D == {r, k, l}  a == <<r, k>> \o <<l>>  b == <<r, k, l>>
  <1>1. a \in Seq(D) /\ Len(a) = 3 /\ a[1] = r /\ a[2] = k /\ a[3] = l
    OBVIOUS
  <1>2. b \in Seq(D) /\ Len(b) = 3 /\ b[1] = r /\ b[2] = k /\ b[3] = l
    OBVIOUS
  <1> HIDE DEF a, b, D
  <1>3. a \in [1..3 -> D] /\ b \in [1..3 -> D] /\ \A i \in 1..3 : a[i] = b[i]
    BY <1>1, <1>2
  <1>4. a = b
    BY <1>3
  <1> QED BY <1>4 DEF a, b

LEMMA RequestIs ==
  ASSUME NEW v, NEW r
  PROVE  /\ Request(v, r, Unset, Unset) = [verb |-> v, path |-> <<r>>]
         /\ \A k : k # Unset => /\ Request(v, r, k, Unset) = [verb |-> v, path |-> <<r, k>>]
                             /\ Request(v, r, Unset, k) = [verb |-> v, path |-> <<r, k>>]
         /\ \A k, sub : k # Unset /\ sub # Unset =>
              Request(v, r, k, sub) = [verb |-> v, path |-> <<r, k, sub>>]
  <1>1. Segment(Unset) = <<>> /\ \A k : k # Unset => Segment(k) = <<k>>
    BY DEF Segment
  <1>2. <<r>> \o <<>> = <<r>> /\ \A k : <<r, k>> \o <<>> = <<r, k>>
    OBVIOUS
  <1>3. URL(r, Unset, Unset) = <<r>>
    BY <1>1, <1>2 DEF URL
  <1>4. ASSUME NEW k, k # Unset PROVE URL(r, k, Unset) = <<r, k>> /\ URL(r, Unset, k) = <<r, k>>
    <2>1. <<r>> \o <<k>> = <<r, k>> /\ Segment(k) = <<k>>
      BY <1>1, <1>4, ConcatTwo
    <2> QED BY <1>1, <1>2, <2>1 DEF URL
  <1>5. ASSUME NEW k, NEW sub, k # Unset, sub # Unset PROVE URL(r, k, sub) = <<r, k, sub>>
    <2>1. <<r>> \o <<k>> = <<r, k>> /\ <<r, k>> \o <<sub>> = <<r, k, sub>>
      BY ConcatTwo, ConcatThree
    <2>2. Segment(k) = <<k>> /\ Segment(sub) = <<sub>>
      BY <1>1, <1>5
    <2> QED BY <2>1, <2>2 DEF URL
  <1> QED BY <1>3, <1>4, <1>5 DEF Request

LEMMA ActionRequestIs ==
  ASSUME NEW v, NEW r, NEW k, NEW sub, k # Unset, sub # Unset
  PROVE  Request(v, r, k, sub) = [verb |-> v, path |-> <<r, k, sub>>]
  BY RequestIs

\* The router takes a matching route when every other has fewer fixed segments.
LEMMA DispatchIs ==
  ASSUME NEW req, NEW rt \in Routes, Matches(rt, req),
         \A s \in Routes : Matches(s, req) => Fixed(s) \in Nat /\ (s = rt \/ Fixed(s) < Fixed(rt))
  PROVE  Dispatch(req) = rt
  <1> DEFINE found == {r \in Routes : Matches(r, req)}
             best == CHOOSE r \in found : \A s \in found : Fixed(r) >= Fixed(s)
  <1>1. rt \in found /\ \A s \in found : Fixed(rt) >= Fixed(s)
    OBVIOUS
  <1> HIDE DEF found
  <1>2. best \in found /\ Fixed(best) >= Fixed(rt)
    BY <1>1
  <1>3. best = rt
    BY <1>2 DEF found
  <1>4. Dispatch(req) = IF found = {} THEN NoRoute ELSE best
    BY DEF Dispatch, found
  <1> QED BY <1>1, <1>3, <1>4

\* A route with its verb and the segments of its path.
OneSegment(s, v, x, a) == s = Route(v, <<x>>, a) /\ s.verb = v /\ Len(s.path) = 1 /\ s.path[1] = x
TwoSegments(s, v, x, y, a) ==
  s = Route(v, <<x, y>>, a) /\ s.verb = v /\ Len(s.path) = 2 /\ s.path[1] = x /\ s.path[2] = y
ThreeSegments(s, v, x, y, z, a) ==
  /\ s = Route(v, <<x, y, z>>, a) /\ s.verb = v /\ Len(s.path) = 3
  /\ s.path[1] = x /\ s.path[2] = y /\ s.path[3] = z

LEMMA RouteFields ==
  ASSUME NEW v, NEW x, NEW y, NEW z, NEW a
  PROVE  /\ OneSegment(Route(v, <<x>>, a), v, x, a)
         /\ TwoSegments(Route(v, <<x, y>>, a), v, x, y, a)
         /\ ThreeSegments(Route(v, <<x, y, z>>, a), v, x, y, z, a)
  BY DEF Route, OneSegment, TwoSegments, ThreeSegments

\* The routes of a resource and of its sub-resources.
ResourceForm(s, r) ==
  \/ OneSegment(s, "POST", r, <<"POST", Unset>>)
  \/ ThreeSegments(s, "GET", r, AnyUid, "watch", <<"WATCH", Unset>>)
  \/ \E v \in {"GET", "PUT", "DELETE", "PATCH"} : TwoSegments(s, v, r, AnyUid, <<v, Unset>>)
  \/ TwoSegments(s, "GET", r, "list", <<"LIST", Unset>>)
  \/ TwoSegments(s, "GET", r, "watch", <<"WATCH", Unset>>)

SubResourceForm(s, r, a) ==
  \/ a[1] = "POST" /\ TwoSegments(s, "POST", r, a[2], a)
  \/ a[1] = "LIST" /\ ThreeSegments(s, "GET", r, "list", a[2], a)
  \/ a[1] \notin {"POST", "LIST"} /\ ThreeSegments(s, a[1], r, AnyUid, a[2], a)

LEMMA RouteForms ==
  ASSUME NEW s \in Routes
  PROVE  \E r \in StorageMap : ResourceForm(s, r) \/ \E a \in Actions(r) : SubResourceForm(s, r, a)
  <1>1. PICK r \in StorageMap : s \in resourceRoutes(r) \cup subResourceRoutes(r)
    BY DEF Routes
  <1>2. CASE s \in resourceRoutes(r)
    <2>1. ResourceForm(s, r)
      BY <1>2, RouteFields DEF resourceRoutes, ResourceForm
    <2> QED BY <2>1
  <1>3. CASE s \in subResourceRoutes(r)
    <2>1. PICK a \in Actions(r) :
            \/ a[1] = "POST" /\ s = Route("POST", <<r, a[2]>>, a)
            \/ a[1] = "LIST" /\ s = Route("GET", <<r, "list", a[2]>>, a)
            \/ a[1] \notin {"POST", "LIST"} /\ s = Route(a[1], <<r, AnyUid, a[2]>>, a)
      BY <1>3 DEF subResourceRoutes
    <2>2. SubResourceForm(s, r, a)
      BY <2>1, RouteFields DEF SubResourceForm
    <2> QED BY <2>2
  <1> QED BY <1>1, <1>2, <1>3

LEMMA PathFits ==
  ASSUME NEW v, NEW path, NEW s, Matches(s, [verb |-> v, path |-> path])
  PROVE  /\ s.verb = v /\ Len(s.path) = Len(path)
         /\ \A i \in DOMAIN path : s.path[i] \in {path[i], AnyUid}
  BY DEF Matches

\* A matching route of one, two and three segments is of the request's resource.
LEMMA MatchOfOne ==
  ASSUME NEW v, NEW r \in StorageMap, NEW s \in Routes,
         s.verb = v, Len(s.path) = 1, s.path[1] \in {r, AnyUid}
  PROVE  v = "POST" /\ s = Route("POST", <<r>>, <<"POST", Unset>>)
  <1>1. s.verb = v /\ Len(s.path) = 1 /\ s.path[1] \in {r, AnyUid}
    OBVIOUS
  <1>2. PICK q \in StorageMap : ResourceForm(s, q) \/ \E a \in Actions(q) : SubResourceForm(s, q, a)
    BY RouteForms
  <1>3. q # AnyUid /\ "list" # AnyUid /\ "watch" # AnyUid
    BY Zenon DEF StorageMap, Clients, AnyUid
  <1>4. OneSegment(s, "POST", q, <<"POST", Unset>>)
    <2>1. ASSUME NEW w, NEW x, NEW y, NEW a, TwoSegments(s, w, x, y, a) PROVE FALSE
      BY <1>1, <2>1 DEF TwoSegments
    <2>2. ASSUME NEW w, NEW x, NEW y, NEW z, NEW a, ThreeSegments(s, w, x, y, z, a) PROVE FALSE
      BY <1>1, <2>2 DEF ThreeSegments
    <2> QED BY <1>2, <2>1, <2>2 DEF ResourceForm, SubResourceForm
  <1> QED BY <1>1, <1>3, <1>4 DEF OneSegment

MatchesTwo(s, v, r, k) ==
  \/ v \in {"GET", "PUT", "DELETE", "PATCH"} /\ s = Route(v, <<r, AnyUid>>, <<v, Unset>>)
  \/ v = "GET" /\ k = "list" /\ s = Route("GET", <<r, "list">>, <<"LIST", Unset>>)
  \/ v = "GET" /\ k = "watch" /\ s = Route("GET", <<r, "watch">>, <<"WATCH", Unset>>)
  \/ v = "POST" /\ \E a \in Actions(r) :
       /\ a[1] = "POST" /\ a[2] \in {k, AnyUid} /\ s = Route("POST", <<r, a[2]>>, a)

LEMMA MatchOfTwo ==
  ASSUME NEW v, NEW r \in StorageMap, NEW k, NEW s \in Routes,
         s.verb = v, Len(s.path) = 2, s.path[1] \in {r, AnyUid}, s.path[2] \in {k, AnyUid}
  PROVE  MatchesTwo(s, v, r, k)
  <1>1. /\ s.verb = v /\ Len(s.path) = 2 /\ s.path[1] \in {r, AnyUid}
        /\ s.path[2] \in {k, AnyUid}
    OBVIOUS
  <1>2. PICK q \in StorageMap : ResourceForm(s, q) \/ \E a \in Actions(q) : SubResourceForm(s, q, a)
    BY RouteForms
  <1>3. q # AnyUid /\ "list" # AnyUid /\ "watch" # AnyUid
    BY Zenon DEF StorageMap, Clients, AnyUid
  <1>4. CASE ResourceForm(s, q)
    <2>1. \/ \E w \in {"GET", "PUT", "DELETE", "PATCH"} : TwoSegments(s, w, q, AnyUid, <<w, Unset>>)
          \/ TwoSegments(s, "GET", q, "list", <<"LIST", Unset>>)
          \/ TwoSegments(s, "GET", q, "watch", <<"WATCH", Unset>>)
      <3>1. ASSUME NEW w, NEW x, NEW a, OneSegment(s, w, x, a) PROVE FALSE
        BY <1>1, <3>1 DEF OneSegment
      <3>2. ASSUME NEW w, NEW x, NEW y, NEW z, NEW a, ThreeSegments(s, w, x, y, z, a) PROVE FALSE
        BY <1>1, <3>2 DEF ThreeSegments
      <3> QED BY <1>4, <3>1, <3>2 DEF ResourceForm
    <2>2. q = r
      BY <1>1, <1>3, <2>1 DEF TwoSegments
    <2> QED BY <1>1, <1>3, <2>1, <2>2 DEF TwoSegments, MatchesTwo
  <1>5. CASE \E a \in Actions(q) : SubResourceForm(s, q, a)
    <2>1. PICK a \in Actions(q) : a[1] = "POST" /\ TwoSegments(s, "POST", q, a[2], a)
      <3>1. ASSUME NEW w, NEW x, NEW y, NEW z, NEW a, ThreeSegments(s, w, x, y, z, a) PROVE FALSE
        BY <1>1, <3>1 DEF ThreeSegments
      <3> QED BY <1>5, <3>1 DEF SubResourceForm
    <2>2. q = r
      BY <1>1, <1>3, <2>1 DEF TwoSegments
    <2> QED BY <1>1, <2>1, <2>2 DEF TwoSegments, MatchesTwo
  <1> QED BY <1>2, <1>4, <1>5

MatchesThree(s, v, r, k, sub) ==
  \/ v = "GET" /\ sub = "watch" /\ s = Route("GET", <<r, AnyUid, "watch">>, <<"WATCH", Unset>>)
  \/ v = "GET" /\ k = "list"
  \/ \E a \in Actions(r) :
       /\ a[1] \notin {"POST", "LIST"} /\ a[1] = v /\ a[2] \in {sub, AnyUid}
       /\ s = Route(v, <<r, AnyUid, a[2]>>, a)

LEMMA MatchOfThree ==
  ASSUME NEW v, NEW r \in StorageMap, NEW k, NEW sub, NEW s \in Routes,
         s.verb = v, Len(s.path) = 3, s.path[1] \in {r, AnyUid},
         s.path[2] \in {k, AnyUid}, s.path[3] \in {sub, AnyUid}
  PROVE  MatchesThree(s, v, r, k, sub)
  <1>1. /\ s.verb = v /\ Len(s.path) = 3 /\ s.path[1] \in {r, AnyUid}
        /\ s.path[2] \in {k, AnyUid} /\ s.path[3] \in {sub, AnyUid}
    OBVIOUS
  <1>2. PICK q \in StorageMap : ResourceForm(s, q) \/ \E a \in Actions(q) : SubResourceForm(s, q, a)
    BY RouteForms
  <1>3. q # AnyUid /\ "list" # AnyUid /\ "watch" # AnyUid
    BY Zenon DEF StorageMap, Clients, AnyUid
  <1>4. CASE ResourceForm(s, q)
    <2>1. ThreeSegments(s, "GET", q, AnyUid, "watch", <<"WATCH", Unset>>)
      <3>1. ASSUME NEW w, NEW x, NEW a, OneSegment(s, w, x, a) PROVE FALSE
        BY <1>1, <3>1 DEF OneSegment
      <3>2. ASSUME NEW w, NEW x, NEW y, NEW a, TwoSegments(s, w, x, y, a) PROVE FALSE
        BY <1>1, <3>2 DEF TwoSegments
      <3> QED BY <1>4, <3>1, <3>2 DEF ResourceForm
    <2> QED BY <1>1, <1>3, <2>1 DEF ThreeSegments, MatchesThree
  <1>5. CASE \E a \in Actions(q) : SubResourceForm(s, q, a)
    <2>1. PICK a \in Actions(q) :
            \/ a[1] = "LIST" /\ ThreeSegments(s, "GET", q, "list", a[2], a)
            \/ a[1] \notin {"POST", "LIST"} /\ ThreeSegments(s, a[1], q, AnyUid, a[2], a)
      <3>1. ASSUME NEW w, NEW x, NEW y, NEW a, TwoSegments(s, w, x, y, a) PROVE FALSE
        BY <1>1, <3>1 DEF TwoSegments
      <3> QED BY <1>5, <3>1 DEF SubResourceForm
    <2>2. q = r
      BY <1>1, <1>3, <2>1 DEF ThreeSegments
    <2> QED BY <1>1, <1>3, <2>1, <2>2 DEF ThreeSegments, MatchesThree
  <1> QED BY <1>2, <1>4, <1>5

\* What matches, matches by the segments.
LEMMA MatchedFields ==
  ASSUME NEW s, NEW v, NEW r, NEW k, NEW sub
  PROVE  /\ Matches(s, [verb |-> v, path |-> <<r>>]) =>
              s.verb = v /\ Len(s.path) = 1 /\ s.path[1] \in {r, AnyUid}
         /\ Matches(s, [verb |-> v, path |-> <<r, k>>]) =>
              /\ s.verb = v /\ Len(s.path) = 2 /\ s.path[1] \in {r, AnyUid}
              /\ s.path[2] \in {k, AnyUid}
         /\ Matches(s, [verb |-> v, path |-> <<r, k, sub>>]) =>
              /\ s.verb = v /\ Len(s.path) = 3 /\ s.path[1] \in {r, AnyUid}
              /\ s.path[2] \in {k, AnyUid} /\ s.path[3] \in {sub, AnyUid}
  BY DEF Matches

LEMMA MatchingOne ==
  ASSUME NEW v, NEW r, NEW a
  PROVE  Matches(Route(v, <<r>>, a), [verb |-> v, path |-> <<r>>])
  BY DEF Matches, Route

LEMMA MatchingTwo ==
  ASSUME NEW v, NEW r, NEW k, NEW x, NEW a, x \in {k, AnyUid}
  PROVE  Matches(Route(v, <<r, x>>, a), [verb |-> v, path |-> <<r, k>>])
  BY DEF Matches, Route

LEMMA MatchingThree ==
  ASSUME NEW v, NEW r, NEW k, NEW x, NEW sub, NEW a, x \in {k, AnyUid}
  PROVE  Matches(Route(v, <<r, x, sub>>, a), [verb |-> v, path |-> <<r, k, sub>>])
  BY DEF Matches, Route

LEMMA FixedIsNat ==
  ASSUME NEW v, NEW D, NEW p \in Seq(D), NEW a
  PROVE  Fixed(Route(v, p, a)) \in Nat
  <1> DEFINE S == {i \in DOMAIN p : p[i] # AnyUid}
  <1>1. Fixed(Route(v, p, a)) = Cardinality(S)
    BY DEF Fixed, Route
  <1>2. DOMAIN p = 1..Len(p) /\ Len(p) \in Nat /\ S \subseteq 1..Len(p)
    OBVIOUS
  <1>3. IsFiniteSet(S)
    <2> DEFINE n == Len(p)
    <2> HIDE DEF n, S
    <2>1. IsFiniteSet(1..n)
      BY <1>2, FS_Interval DEF n
    <2> QED BY <1>2, <2>1, FS_Subset DEF n
  <1> QED BY <1>1, <1>3, FS_CardinalityType

LEMMA FixedOfShort ==
  ASSUME NEW v, NEW x, NEW y, NEW z, NEW a
  PROVE  /\ Fixed(Route(v, <<x>>, a)) \in Nat /\ Fixed(Route(v, <<x, y>>, a)) \in Nat
         /\ Fixed(Route(v, <<x, y, z>>, a)) \in Nat
  <1> DEFINE D == {x, y, z}
  <1>1. <<x>> \in Seq(D) /\ <<x, y>> \in Seq(D) /\ <<x, y, z>> \in Seq(D)
    OBVIOUS
  <1> QED BY <1>1, FixedIsNat

LEMMA FixedOfTwo ==
  ASSUME NEW v, NEW r, NEW k, NEW a, r # AnyUid
  PROVE  /\ k # AnyUid => Fixed(Route(v, <<r, k>>, a)) = 2
         /\ Fixed(Route(v, <<r, AnyUid>>, a)) = 1
  <1>1. ASSUME NEW p PROVE Fixed(Route(v, p, a)) = Cardinality({i \in DOMAIN p : p[i] # AnyUid})
    BY DEF Fixed, Route
  <1>2. Cardinality(1..2) = 2 /\ Cardinality({1}) = 1
    <2>1. Cardinality(1..2) = 2
      <3>1. \A i, j \in Int : Cardinality(i..j) = IF i > j THEN 0 ELSE j - i + 1
        BY FS_Interval
      <3>2. 1 \in Int /\ 2 \in Int
        OBVIOUS
      <3>3. Cardinality(1..2) = IF 1 > 2 THEN 0 ELSE 2 - 1 + 1
        BY <3>1, <3>2, Zenon
      <3> QED BY <3>3
    <2>2. Cardinality({1}) = 1
      BY FS_Singleton
    <2> QED BY <2>1, <2>2
  <1>3. ASSUME k # AnyUid PROVE Fixed(Route(v, <<r, k>>, a)) = 2
    <2> DEFINE p == <<r, k>>
    <2>1. DOMAIN p = 1..2 /\ p[1] = r /\ p[2] = k
      OBVIOUS
    <2> HIDE DEF p
    <2>2. {i \in DOMAIN p : p[i] # AnyUid} = 1..2
      BY <1>3, <2>1
    <2>3. Fixed(Route(v, p, a)) = 2
      BY <1>1, <1>2, <2>2
    <2> QED BY <2>3 DEF p
  <1>4. Fixed(Route(v, <<r, AnyUid>>, a)) = 1
    <2> DEFINE p == <<r, AnyUid>>
    <2>1. DOMAIN p = 1..2 /\ p[1] = r /\ p[2] = AnyUid
      OBVIOUS
    <2> HIDE DEF p
    <2>2. {i \in DOMAIN p : p[i] # AnyUid} = {1}
      BY <2>1
    <2>3. Fixed(Route(v, p, a)) = 1
      BY <1>1, <1>2, <2>2
    <2> QED BY <2>3 DEF p
  <1> QED BY <1>3, <1>4

\* When one route matches it is taken, and when none does there is none.
LEMMA OnlyRoute ==
  ASSUME NEW req, NEW rt \in Routes, Matches(rt, req), Fixed(rt) \in Nat,
         \A s \in Routes : Matches(s, req) => s = rt
  PROVE  Dispatch(req) = rt
  BY DispatchIs

LEMMA NoneRoute ==
  ASSUME NEW req, \A s \in Routes : ~Matches(s, req)
  PROVE  Dispatch(req) = NoRoute
  <1>1. {r \in Routes : Matches(r, req)} = {}
    OBVIOUS
  <1> QED BY <1>1 DEF Dispatch

\* The requests that name no object.
LEMMA CollectionRoutes ==
  ASSUME NEW r \in StorageMap
  PROVE  /\ Dispatch(Request("POST", r, Unset, Unset)) = Route("POST", <<r>>, <<"POST", Unset>>)
         /\ \A v : v # "POST" => Dispatch(Request(v, r, Unset, Unset)) = NoRoute
  <1> DEFINE rt == Route("POST", <<r>>, <<"POST", Unset>>)
  <1>1. ASSUME NEW v PROVE Request(v, r, Unset, Unset) = [verb |-> v, path |-> <<r>>]
    BY RequestIs
  <1>2. ASSUME NEW v, NEW s \in Routes, Matches(s, [verb |-> v, path |-> <<r>>])
        PROVE  v = "POST" /\ s = rt
    <2>1. s.verb = v /\ Len(s.path) = 1 /\ s.path[1] \in {r, AnyUid}
      BY <1>2, MatchedFields
    <2> QED BY <2>1, MatchOfOne
  <1>3. rt \in Routes
    <2>1. rt \in resourceRoutes(r)
      BY DEF resourceRoutes
    <2> HIDE DEF rt
    <2> QED BY <2>1 DEF Routes
  <1>4. Fixed(rt) \in Nat
    BY FixedOfShort
  <1>5. Matches(rt, [verb |-> "POST", path |-> <<r>>])
    BY MatchingOne
  <1> HIDE DEF rt
  <1>6. Dispatch([verb |-> "POST", path |-> <<r>>]) = rt
    BY <1>2, <1>3, <1>4, <1>5, OnlyRoute
  <1>7. ASSUME NEW v, v # "POST" PROVE Dispatch([verb |-> v, path |-> <<r>>]) = NoRoute
    BY <1>2, <1>7, NoneRoute
  <1>8. Dispatch(Request("POST", r, Unset, Unset)) = rt
    BY <1>1, <1>6
  <1>9. ASSUME NEW v, v # "POST" PROVE Dispatch(Request(v, r, Unset, Unset)) = NoRoute
    BY <1>1, <1>7, <1>9
  <1> QED BY <1>8, <1>9 DEF rt

LEMMA NoCollectionRoutes ==
  ASSUME NEW r \in StorageMap, NEW v, v # "POST"
  PROVE  Dispatch(Request(v, r, Unset, Unset)) = NoRoute
  BY CollectionRoutes

\* The requests about one object: its UID is no segment that a route knows.
LEMMA ObjectRoutes ==
  ASSUME NEW r \in StorageMap, NEW k, k \notin {Unset, "list", "watch"},
         NEW v \in {"GET", "PUT", "DELETE", "PATCH"}
  PROVE  Dispatch(Request(v, r, k, Unset)) = Route(v, <<r, AnyUid>>, <<v, Unset>>)
  <1> DEFINE rt == Route(v, <<r, AnyUid>>, <<v, Unset>>)
  <1>1. Request(v, r, k, Unset) = [verb |-> v, path |-> <<r, k>>]
    BY RequestIs
  <1>2. ASSUME NEW s \in Routes, Matches(s, [verb |-> v, path |-> <<r, k>>]) PROVE s = rt
    <2>1. /\ s.verb = v /\ Len(s.path) = 2 /\ s.path[1] \in {r, AnyUid}
          /\ s.path[2] \in {k, AnyUid}
      BY <1>2, MatchedFields
    <2>2. v # "POST"
      OBVIOUS
    <2>3. MatchesTwo(s, v, r, k)
      BY <2>1, MatchOfTwo
    <2> QED BY <2>2, <2>3 DEF MatchesTwo
  <1>3. rt \in Routes
    <2>1. rt \in resourceRoutes(r)
      BY DEF resourceRoutes
    <2> HIDE DEF rt
    <2> QED BY <2>1 DEF Routes
  <1>4. Fixed(rt) \in Nat
    BY FixedOfShort
  <1>5. Matches(rt, [verb |-> v, path |-> <<r, k>>])
    BY MatchingTwo
  <1> HIDE DEF rt
  <1>6. Dispatch([verb |-> v, path |-> <<r, k>>]) = rt
    BY <1>2, <1>3, <1>4, <1>5, OnlyRoute
  <1> QED BY <1>1, <1>6 DEF rt

\* A list and a watch match the route of one object, too, which has less fixed.
LEMMA ListRoutes ==
  ASSUME NEW r \in StorageMap, NEW k, NEW scope,
         \/ k = "list" /\ scope = <<"LIST", Unset>>
         \/ k = "watch" /\ scope = <<"WATCH", Unset>>
  PROVE  Dispatch(Request("GET", r, Unset, k)) = Route("GET", <<r, k>>, scope)
  <1> DEFINE rt == Route("GET", <<r, k>>, scope)
             one == Route("GET", <<r, AnyUid>>, <<"GET", Unset>>)
  <1>1. Request("GET", r, Unset, k) = [verb |-> "GET", path |-> <<r, k>>]
    <2>1. k # Unset
      BY Zenon DEF Unset
    <2> QED BY <2>1, RequestIs
  <1>2. ASSUME NEW s \in Routes, Matches(s, [verb |-> "GET", path |-> <<r, k>>])
        PROVE  s = rt \/ s = one
    <2>1. /\ s.verb = "GET" /\ Len(s.path) = 2 /\ s.path[1] \in {r, AnyUid}
          /\ s.path[2] \in {k, AnyUid}
      BY <1>2, MatchedFields
    <2>2. \/ s = Route("GET", <<r, AnyUid>>, <<"GET", Unset>>)
          \/ k = "list" /\ s = Route("GET", <<r, "list">>, <<"LIST", Unset>>)
          \/ k = "watch" /\ s = Route("GET", <<r, "watch">>, <<"WATCH", Unset>>)
      <3>1. MatchesTwo(s, "GET", r, k)
        BY <2>1, MatchOfTwo
      <3> QED BY <3>1 DEF MatchesTwo
    <2>3. "list" # "watch"
      OBVIOUS
    <2> QED BY <2>2, <2>3, Zenon
  <1>3. rt \in Routes
    <2>1. rt \in resourceRoutes(r)
      BY DEF resourceRoutes
    <2> HIDE DEF rt
    <2> QED BY <2>1 DEF Routes
  <1>4. k # AnyUid /\ r # AnyUid
    BY Zenon DEF AnyUid, StorageMap, Clients
  <1>5. Fixed(rt) = 2 /\ Fixed(one) = 1
    BY <1>4, FixedOfTwo
  <1>6. Matches(rt, [verb |-> "GET", path |-> <<r, k>>])
    BY MatchingTwo
  <1> HIDE DEF rt, one
  <1>7. Dispatch([verb |-> "GET", path |-> <<r, k>>]) = rt
    <2>1. ASSUME NEW s \in Routes, Matches(s, [verb |-> "GET", path |-> <<r, k>>])
          PROVE  Fixed(s) \in Nat /\ (s = rt \/ Fixed(s) < Fixed(rt))
      BY <1>2, <1>5, <2>1
    <2> QED BY <1>3, <1>6, <2>1, DispatchIs
  <1> QED BY <1>1, <1>7 DEF rt

\* No two actions of a resource have the same verb and name.
LEMMA ActionsDiffer ==
  ASSUME NEW r \in Clients, NEW a \in Actions(r), NEW b \in Actions(r), a[1] = b[1], a[2] = b[2]
  PROVE  a = b
  <1>1. CASE r = "workflow"
    BY <1>1 DEF Actions, workflowActions
  <1>2. CASE r = "job"
    BY <1>2 DEF Actions, jobActions
  <1>3. CASE r = "stage"
    BY <1>3 DEF Actions, stageActions
  <1>4. CASE r = "worker"
    BY <1>4 DEF Actions, workerActions
  <1>5. CASE r = "event"
    BY <1>5 DEF Actions, eventActions
  <1>6. CASE r \in {"code", "variable", "connection"}
    BY <1>6 DEF Actions
  <1> QED BY <1>1, <1>2, <1>3, <1>4, <1>5, <1>6 DEF Clients

LEMMA ActionNames ==
  ASSUME NEW r \in Clients, NEW a \in Actions(r)
  PROVE  a[2] \notin {AnyUid, "watch", Unset}
  <1>1. \A x \in {"dag", "state", "schedule", "binding", "list", "heartbeat", "register", "kind"} :
          x \notin {AnyUid, "watch", Unset}
    BY Zenon DEF AnyUid, Unset
  <1>2. \A b : b \in {<<"GET", "dag">>, <<"PUT", "dag">>, <<"PUT", "state">>,
                    <<"POST", "schedule">>,
                    <<"PUT", "binding">>, <<"PUT", "list">>, <<"PUT", "heartbeat">>,
                    <<"POST", "register">>, <<"LIST", "kind">>} =>
               b[2] \in {"dag", "state", "schedule", "binding", "list", "heartbeat", "register",
                         "kind"}
    OBVIOUS
  <1>3. a \in {<<"GET", "dag">>, <<"PUT", "dag">>, <<"PUT", "state">>, <<"POST", "schedule">>,
               <<"PUT", "binding">>, <<"PUT", "list">>, <<"PUT", "heartbeat">>,
               <<"POST", "register">>, <<"LIST", "kind">>}
    BY DEF Clients, Actions, workflowActions, jobActions, stageActions, workerActions, eventActions
  <1> QED BY <1>1, <1>2, <1>3

\* The requests about a sub-resource of one object ...
LEMMA ActionRoutes ==
  ASSUME NEW r \in Clients, NEW a \in Actions(r), a[1] \notin {"POST", "LIST"},
         NEW k, k \notin {Unset, "list"}
  PROVE  Dispatch(Request(a[1], r, k, a[2])) = Route(a[1], <<r, AnyUid, a[2]>>, a)
  <1> DEFINE v == a[1]  sub == a[2]  rt == Route(v, <<r, AnyUid, sub>>, a)
  <1>0. sub \notin {AnyUid, "watch", Unset} /\ r \in StorageMap
    BY ActionNames DEF StorageMap
  <1>1. Request(v, r, k, sub) = [verb |-> v, path |-> <<r, k, sub>>]
    BY <1>0, RequestIs
  <1>3. rt \in Routes
    <2>1. rt \in subResourceRoutes(r)
      BY DEF subResourceRoutes
    <2> HIDE DEF rt
    <2> QED BY <1>0, <2>1 DEF Routes
  <1>4. Fixed(rt) \in Nat
    BY FixedOfShort
  <1>5. Matches(rt, [verb |-> v, path |-> <<r, k, sub>>])
    BY MatchingThree
  <1> HIDE DEF rt, v, sub
  <1>2. ASSUME NEW s \in Routes, Matches(s, [verb |-> v, path |-> <<r, k, sub>>]) PROVE s = rt
    <2>1. /\ s.verb = v /\ Len(s.path) = 3 /\ s.path[1] \in {r, AnyUid}
          /\ s.path[2] \in {k, AnyUid} /\ s.path[3] \in {sub, AnyUid}
      BY <1>2, MatchedFields
    <2>2. \/ sub = "watch" \/ k = "list"
          \/ \E b \in Actions(r) :
               /\ b[1] = v /\ b[2] \in {sub, AnyUid}
               /\ s = Route(v, <<r, AnyUid, b[2]>>, b)
      <3>1. MatchesThree(s, v, r, k, sub)
        BY <1>0, <2>1, MatchOfThree
      <3> QED BY <3>1 DEF MatchesThree
    <2>3. PICK b \in Actions(r) :
            /\ b[1] = v /\ b[2] \in {sub, AnyUid}
            /\ s = Route(v, <<r, AnyUid, b[2]>>, b)
      BY <1>0, <2>2
    <2>4. b[2] # AnyUid
      BY ActionNames
    <2>5. b[1] = a[1] /\ b[2] = a[2]
      BY <2>3, <2>4 DEF v, sub
    <2>6. b = a
      BY <2>5, ActionsDiffer
    <2> QED BY <2>3, <2>6 DEF rt, v, sub
  <1>6. Dispatch([verb |-> v, path |-> <<r, k, sub>>]) = rt
    BY <1>2, <1>3, <1>4, <1>5, OnlyRoute
  <1>7. Dispatch(Request(v, r, k, sub)) = rt
    BY <1>1, <1>6
  <1> QED BY <1>7 DEF rt, v, sub

\* ... reach none when the resource has no such action.
LEMMA NoActionRoutes ==
  ASSUME NEW v, NEW r \in Clients, NEW k, NEW sub, k # Unset, sub # Unset, v # "GET",
         \A a \in Actions(r) : a[1] # v \/ a[2] # sub \/ v \in {"POST", "LIST"}
  PROVE  Dispatch(Request(v, r, k, sub)) = NoRoute
  <1>0. r \in StorageMap
    BY DEF StorageMap
  <1>1. Request(v, r, k, sub) = [verb |-> v, path |-> <<r, k, sub>>]
    BY ActionRequestIs
  <1>2. ASSUME NEW s \in Routes, Matches(s, [verb |-> v, path |-> <<r, k, sub>>]) PROVE FALSE
    <2>1. /\ s.verb = v /\ Len(s.path) = 3 /\ s.path[1] \in {r, AnyUid}
          /\ s.path[2] \in {k, AnyUid} /\ s.path[3] \in {sub, AnyUid}
      BY <1>2, MatchedFields
    <2>2. \E b \in Actions(r) : b[1] \notin {"POST", "LIST"} /\ b[1] = v /\ b[2] \in {sub, AnyUid}
      <3>1. MatchesThree(s, v, r, k, sub)
        BY <1>0, <2>1, MatchOfThree
      <3> QED BY <3>1 DEF MatchesThree
    <2>3. \A b \in Actions(r) : b[2] # AnyUid
      BY ActionNames
    <2> QED BY <2>2, <2>3
  <1>3. Dispatch([verb |-> v, path |-> <<r, k, sub>>]) = NoRoute
    BY <1>2, NoneRoute
  <1> QED BY <1>1, <1>3

\* A worker's registration names none.
LEMMA RegisterRoute ==
  Dispatch(Request("POST", "worker", Unset, "register"))
    = Route("POST", <<"worker", "register">>, <<"POST", "register">>)
  <1> DEFINE r == "worker"  a == <<"POST", "register">>  rt == Route("POST", <<r, "register">>, a)
  <1>0. r \in StorageMap /\ r \in Clients /\ "register" # Unset /\ a \in Actions(r)
    BY Zenon DEF StorageMap, Clients, Unset, Actions, workerActions
  <1>1. Request("POST", r, Unset, "register") = [verb |-> "POST", path |-> <<r, "register">>]
    BY <1>0, RequestIs
  <1>2. rt \in Routes
    <2>1. a[1] = "POST" /\ a[2] = "register"
      OBVIOUS
    <2> HIDE DEF a
    <2>2. rt \in subResourceRoutes(r)
      BY <1>0, <2>1 DEF subResourceRoutes
    <2> HIDE DEF rt
    <2> QED BY <1>0, <2>2 DEF Routes
  <1>3. Fixed(rt) \in Nat
    BY FixedOfShort
  <1>4. Matches(rt, [verb |-> "POST", path |-> <<r, "register">>])
    BY MatchingTwo
  <1>5. ASSUME NEW s \in Routes, Matches(s, [verb |-> "POST", path |-> <<r, "register">>])
        PROVE  s = rt
    <2>1. /\ s.verb = "POST" /\ Len(s.path) = 2 /\ s.path[1] \in {r, AnyUid}
          /\ s.path[2] \in {"register", AnyUid}
      BY <1>5, MatchedFields
    <2>2. PICK b \in Actions(r) :
            b[1] = "POST" /\ b[2] \in {"register", AnyUid} /\ s = Route("POST", <<r, b[2]>>, b)
      <3>1. "POST" \notin {"GET", "PUT", "DELETE", "PATCH"}
        OBVIOUS
      <3> HIDE DEF r
      <3>2. MatchesTwo(s, "POST", r, "register")
        BY <1>0, <2>1, MatchOfTwo
      <3> QED BY <3>1, <3>2 DEF MatchesTwo
    <2>3. b[2] # AnyUid
      BY <1>0, ActionNames
    <2>4. b[1] = a[1] /\ b[2] = a[2]
      BY <2>2, <2>3
    <2>5. b = a
      BY <1>0, <2>4, ActionsDiffer
    <2> QED BY <2>2, <2>5
  <1> HIDE DEF rt
  <1>6. Dispatch([verb |-> "POST", path |-> <<r, "register">>]) = rt
    BY <1>2, <1>3, <1>4, <1>5, OnlyRoute
  <1> QED BY <1>1, <1>6 DEF rt

----------------------------------------------------------------------------
\* The objects of a client's kind, and what is known of the answer.
ObjectsOf(kind) == {Object(KeyOf(kind, n, u), u) : n \in Names, u \in Uids}

Excused(kind, m, status) ==
  \/ status = "OK" \/ <<kind, m>> \in NotServed
  \/ status = "Exists" /\ m = "Create"
  \/ status = "NotFound" /\ kind = "workflow" /\ m = "GetDag"

ObjectsInv == DOMAIN store
  = StorageMap /\ \A kind \in Clients : store[kind] \in Seq(ObjectsOf(kind))

AnswerInv == answer = NoAnswer \/ \E kind, m, status :
               answer = [call |-> <<kind, m>>, status |-> status] /\ Excused(kind, m, status)

\* An outcome that keeps the kind's objects and is as it should be.
Proper(kind, m, out) == out.list \in Seq(ObjectsOf(kind)) /\ Excused(kind, m, out.status)

LEMMA ObjectIs ==
  ASSUME NEW kind \in Clients, NEW o \in ObjectsOf(kind)
  PROVE  /\ o.uid \in Uids /\ o.key \in Uids \cup Names
         /\ kind # "event" => o.key = o.uid
         /\ o.key \notin {Unset, "list", "watch"} /\ o.uid \notin {Unset, "list", "watch"}
  <1>1. PICK n \in Names, u \in Uids : o = Object(KeyOf(kind, n, u), u)
    BY DEF ObjectsOf
  <1>2. o.uid = u /\ o.key = KeyOf(kind, n, u)
    BY <1>1 DEF Object
  <1>3. {Unset, "list", "watch"} \cap (Uids \cup Names) = {}
    BY ApiAssumption
  <1>4. o.uid \in Uids /\ o.key \in Uids \cup Names /\ (kind # "event" => o.key = o.uid)
    BY <1>2 DEF KeyOf
  <1> QED BY <1>3, <1>4

LEMMA NewObject ==
  ASSUME NEW kind, NEW u \in Uids, NEW n, kind = "event" => n \in Names
  PROVE  Object(KeyOf(kind, n, u), u) \in ObjectsOf(kind)
  <1>1. CASE kind = "event"
    BY <1>1 DEF ObjectsOf
  <1>2. CASE kind # "event"
    <2>1. PICK x \in Names : TRUE
      BY ApiAssumption
    <2>2. KeyOf(kind, n, u) = KeyOf(kind, x, u)
      BY <1>2 DEF KeyOf
    <2> QED BY <2>2 DEF ObjectsOf
  <1> QED BY <1>1, <1>2

LEMMA PutIsSeq ==
  ASSUME NEW D, NEW list \in Seq(D), NEW obj \in D
  PROVE  Put(list, obj) \in Seq(D)
  <1> DEFINE rest == IF \E i \in DOMAIN list : list[i].key = obj.key
                     THEN RemoveAt(list, PlaceOf(list, obj.key)) ELSE list
  <1>1. rest \in Seq(D)
    <2>1. CASE \E i \in DOMAIN list : list[i].key = obj.key
      <3> DEFINE at == PlaceOf(list, obj.key)
      <3>1. at \in 1..Len(list) /\ Len(list) \in Nat
        BY <2>1 DEF PlaceOf
      <3> HIDE DEF at
      <3>2. SubSeq(list, 1, at - 1) \in Seq(D) /\ SubSeq(list, at + 1, Len(list)) \in Seq(D)
        BY <3>1
      <3>3. RemoveAt(list, at) \in Seq(D)
        BY <3>2 DEF RemoveAt
      <3> QED BY <2>1, <3>3 DEF at
    <2>2. CASE ~\E i \in DOMAIN list : list[i].key = obj.key
      BY <2>2
    <2> QED BY <2>1, <2>2
  <1> HIDE DEF rest
  <1>2. <<obj>> \o rest \in Seq(D)
    BY <1>1
  <1> QED BY <1>2 DEF Put, rest

\* What the handlers answer about the objects there are.
LEMMA OutcomeIs == ASSUME NEW s, NEW l PROVE Outcome(s, l).status = s /\ Outcome(s, l).list = l
  BY DEF Outcome

LEMMA Creates ==
  ASSUME ObjectsInv, NEW kind \in Clients, NEW u \in Uids, NEW n, kind = "event" => n \in Names
  PROVE  /\ createHandler(kind, n, u).list \in Seq(ObjectsOf(kind))
         /\ createHandler(kind, n, u).status \in {"OK", "Exists"}
         /\ ~HasKey(kind, KeyOf(kind, n, u)) => createHandler(kind, n, u).status = "OK"
  <1>1. store[kind] \in Seq(ObjectsOf(kind))
    BY DEF ObjectsInv
  <1>2. Put(store[kind], Object(KeyOf(kind, n, u), u)) \in Seq(ObjectsOf(kind))
    BY <1>1, NewObject, PutIsSeq
  <1>3. CASE HasKey(kind, KeyOf(kind, n, u))
    <2>1. createHandler(kind, n, u) = Outcome("Exists", store[kind])
      BY <1>3 DEF createHandler
    <2> QED BY <1>1, <1>3, <2>1, OutcomeIs
  <1>4. CASE ~HasKey(kind, KeyOf(kind, n, u))
    <2>1. createHandler(kind, n, u) = Outcome("OK", Put(store[kind], Object(KeyOf(kind, n, u), u)))
      BY <1>4 DEF createHandler
    <2> QED BY <1>2, <2>1, OutcomeIs
  <1> QED BY <1>3, <1>4

LEMMA Gets ==
  ASSUME ObjectsInv, NEW kind \in Clients, NEW k
  PROVE  /\ getHandler(kind, k).list \in Seq(ObjectsOf(kind))
         /\ HasKey(kind, k) => getHandler(kind, k).status = "OK"
  BY OutcomeIs DEF ObjectsInv, getHandler

LEMMA Updates ==
  ASSUME ObjectsInv, NEW kind \in Clients, NEW k
  PROVE  /\ updateHandler(kind, k).list \in Seq(ObjectsOf(kind))
         /\ HasKey(kind, k) => updateHandler(kind, k).status = "OK"
  <1>1. store[kind] \in Seq(ObjectsOf(kind))
    BY DEF ObjectsInv
  <1>2. CASE HasKey(kind, k)
    <2>1. \E o \in Range(store[kind]) : o.key = k
      BY <1>2 DEF HasKey, Range
    <2>2. Find(kind, k) \in Range(store[kind])
      BY <2>1 DEF Find
    <2>3. Find(kind, k) \in ObjectsOf(kind)
      BY <1>1, <2>2 DEF Range
    <2>4. Put(store[kind], Find(kind, k)) \in Seq(ObjectsOf(kind))
      BY <1>1, <2>3, PutIsSeq
    <2>5. updateHandler(kind, k) = Outcome("OK", Put(store[kind], Find(kind, k)))
      BY <1>2 DEF updateHandler
    <2> QED BY <2>4, <2>5, OutcomeIs
  <1>3. CASE ~HasKey(kind, k)
    <2>1. updateHandler(kind, k) = Outcome("NotFound", store[kind])
      BY <1>3 DEF updateHandler
    <2> QED BY <1>1, <1>3, <2>1, OutcomeIs
  <1> QED BY <1>2, <1>3

LEMMA Deletes ==
  ASSUME ObjectsInv, NEW kind \in Clients, NEW k
  PROVE  deleteHandler(kind, k).list \in Seq(ObjectsOf(kind))
  <1>1. ~BeforeDelete("nil")
    BY DEF BeforeDelete
  <1>2. deleteHandler(kind, k).list = store[kind]
    BY <1>1, OutcomeIs DEF deleteHandler
  <1> QED BY <1>2 DEF ObjectsInv

\* What a route's handler is, by the route's scope.
LEMMA ScopeServed ==
  ASSUME NEW kind, NEW v, NEW p, NEW k, NEW n, NEW u, v # Unset
  PROVE  /\ ServeRoute(kind, Route(v, p, <<"POST", Unset>>), k, n, u) = createHandler(kind, n, u)
         /\ ServeRoute(kind, Route(v, p, <<"GET", Unset>>), k, n, u) = getHandler(kind, k)
         /\ ServeRoute(kind, Route(v, p, <<"LIST", Unset>>), k, n, u) = Outcome("OK", store[kind])
         /\ ServeRoute(kind, Route(v, p, <<"WATCH", Unset>>), k, n, u) = Outcome("OK", store[kind])
         /\ ServeRoute(kind, Route(v, p, <<"PUT", Unset>>), k, n, u) = updateHandler(kind, k)
         /\ ServeRoute(kind, Route(v, p, <<"PATCH", Unset>>), k, n, u) = updateHandler(kind, k)
         /\ ServeRoute(kind, Route(v, p, <<"DELETE", Unset>>), k, n, u) = deleteHandler(kind, k)
  <1>1. ASSUME NEW a PROVE Route(v, p, a).scope = a /\ Route(v, p, a) # NoRoute
    <2>1. Route(v, p, a).verb = v /\ Route(v, p, a).scope = a /\ NoRoute.verb = Unset
      BY DEF Route, NoRoute
    <2> QED BY <2>1
  <1>2. ASSUME NEW rt, rt # NoRoute
        PROVE  /\ rt.scope = <<"POST", Unset>> =>
                 ServeRoute(kind, rt, k, n, u) = createHandler(kind, n, u)
               /\ rt.scope = <<"GET", Unset>> => ServeRoute(kind, rt, k, n, u) = getHandler(kind, k)
               /\ rt.scope = <<"LIST", Unset>> =>
                    ServeRoute(kind, rt, k, n, u) = Outcome("OK", store[kind])
               /\ rt.scope = <<"WATCH", Unset>> =>
                    ServeRoute(kind, rt, k, n, u) = Outcome("OK", store[kind])
               /\ rt.scope = <<"PUT", Unset>> =>
                    ServeRoute(kind, rt, k, n, u) = updateHandler(kind, k)
               /\ rt.scope = <<"PATCH", Unset>> =>
                    ServeRoute(kind, rt, k, n, u) = updateHandler(kind, k)
               /\ rt.scope = <<"DELETE", Unset>> =>
                    ServeRoute(kind, rt, k, n, u) = deleteHandler(kind, k)
    BY <1>2 DEF ServeRoute, patchHandler
  <1> HIDE DEF Route
  <1> QED BY <1>1, <1>2

LEMMA ActionScopeServed ==
  ASSUME NEW kind, NEW v, NEW p, NEW k, NEW n, NEW u, NEW a, v # Unset, a[2] # Unset
  PROVE  ServeRoute(kind, Route(v, p, a), k, n, u) = Handle(kind, a, k, u)
  <1> DEFINE rt == Route(v, p, a)
  <1>1. rt.verb = v /\ rt.scope = a /\ NoRoute.verb = Unset
    BY DEF Route, NoRoute
  <1> HIDE DEF rt
  <1>2. rt # NoRoute /\ rt.scope[2] # Unset
    BY <1>1
  <1>3. ServeRoute(kind, rt, k, n, u) = Handle(kind, rt.scope, k, u)
    BY <1>2 DEF ServeRoute
  <1> QED BY <1>1, <1>3 DEF rt

\* The methods of the clients and their requests.
OwnMethods(kind) ==
  {"Update"} \cup (IF kind \in {"workflow", "job", "stage", "worker"}
                   THEN {"UpdateStatus", "Bind"} ELSE {})
             \cup (IF kind = "workflow" THEN {"GetDag"} ELSE {})
             \cup (IF kind = "stage" THEN {"UpdateListStatus"} ELSE {})
             \cup (IF kind = "worker" THEN {"Register", "Heartbeat"} ELSE {})

LEMMA CallsAre ==
  ASSUME NEW k, NEW u
  PROVE  /\ Calls("workflow", k, u) = workflowCalls(k, u) /\ Calls("job", k, u) = jobCalls(k, u)
         /\ Calls("stage", k, u) = stageCalls(k, u) /\ Calls("worker", k, u) = workerCalls(k, u)
         /\ Calls("code", k, u) = codeCalls(k, u) /\ Calls("variable", k, u) = variableCalls(k, u)
         /\ Calls("event", k, u) = eventCalls(k, u)
         /\ Calls("connection", k, u) = connectionCalls(k, u)
  BY DEF Calls

LEMMA OwnMethodsAre ==
  ASSUME NEW kind \in Clients, NEW k, NEW u
  PROVE  DOMAIN Calls(kind, k, u) = OwnMethods(kind)
  <1>1. CASE kind = "workflow"
    <2>1. DOMAIN workflowCalls(k, u) = {"Update", "UpdateStatus", "Bind", "GetDag"}
      BY DEF workflowCalls
    <2> QED BY <1>1, <2>1, CallsAre DEF OwnMethods
  <1>2. CASE kind = "job"
    <2>1. DOMAIN jobCalls(k, u) = {"Update", "UpdateStatus", "Bind"}
      BY DEF jobCalls
    <2> QED BY <1>2, <2>1, CallsAre DEF OwnMethods
  <1>3. CASE kind = "stage"
    <2>1. DOMAIN stageCalls(k, u) = {"Update", "UpdateStatus", "UpdateListStatus", "Bind"}
      BY DEF stageCalls
    <2> QED BY <1>3, <2>1, CallsAre DEF OwnMethods
  <1>4. CASE kind = "worker"
    <2>1. DOMAIN workerCalls(k, u) = {"Update", "UpdateStatus", "Bind", "Register", "Heartbeat"}
      BY DEF workerCalls
    <2> QED BY <1>4, <2>1, CallsAre DEF OwnMethods
  <1>5. CASE kind = "code"
    <2>1. DOMAIN codeCalls(k, u) = {"Update"}
      BY DEF codeCalls
    <2> QED BY <1>5, <2>1, CallsAre DEF OwnMethods
  <1>6. CASE kind = "variable"
    <2>1. DOMAIN variableCalls(k, u) = {"Update"}
      BY DEF variableCalls
    <2> QED BY <1>6, <2>1, CallsAre DEF OwnMethods
  <1>7. CASE kind = "connection"
    <2>1. DOMAIN connectionCalls(k, u) = {"Update"}
      BY DEF connectionCalls
    <2> QED BY <1>7, <2>1, CallsAre DEF OwnMethods
  <1>8. CASE kind = "event"
    <2>1. DOMAIN eventCalls(k, u) = {"Update"}
      BY DEF eventCalls
    <2> QED BY <1>8, <2>1, CallsAre DEF OwnMethods
  <1> QED BY <1>1, <1>2, <1>3, <1>4, <1>5, <1>6, <1>7, <1>8 DEF Clients

StandardMethods == {"Create", "Get", "List", "Watch", "Patch", "Delete", "DeleteCollection"}

LEMMA MethodsAre ==
  ASSUME NEW kind \in Clients
  PROVE  Methods(kind) = StandardMethods \cup OwnMethods(kind)
  <1>1. DOMAIN StandardCalls(Unset, Unset) = StandardMethods
    BY DEF StandardCalls, StandardMethods
  <1>2. DOMAIN Calls(kind, Unset, Unset) = OwnMethods(kind)
    BY OwnMethodsAre
  <1> QED BY <1>1, <1>2 DEF Methods

LEMMA StandardRequests ==
  ASSUME NEW kind \in Clients, NEW k, NEW u
  PROVE  /\ RequestOf(kind, "Create", k, u) = Request("POST", kind, Unset, Unset)
         /\ RequestOf(kind, "Get", k, u) = Request("GET", kind, k, Unset)
         /\ RequestOf(kind, "List", k, u) = Request("GET", kind, Unset, "list")
         /\ RequestOf(kind, "Watch", k, u) = Request("GET", kind, Unset, "watch")
         /\ RequestOf(kind, "Patch", k, u) = Request("PATCH", kind, k, Unset)
         /\ RequestOf(kind, "Delete", k, u) = Request("DELETE", kind, k, Unset)
         /\ RequestOf(kind, "DeleteCollection", k, u) = Request("DELETE", kind, Unset, Unset)
  <1>1. \A m \in StandardMethods : m \notin DOMAIN Calls(kind, k, u)
    <2>1. \A m \in StandardMethods : m \notin OwnMethods(kind)
      BY DEF StandardMethods, OwnMethods
    <2> QED BY <2>1, OwnMethodsAre
  <1>2. \A m \in StandardMethods : RequestOf(kind, m, k, u) = StandardCalls(kind, k)[m]
    BY <1>1 DEF RequestOf
  <1> QED BY <1>2 DEF StandardMethods, StandardCalls

LEMMA OwnRequests ==
  ASSUME NEW kind \in Clients, NEW k, NEW u, NEW m \in OwnMethods(kind)
  PROVE  RequestOf(kind, m, k, u) = Calls(kind, k, u)[m]
  BY OwnMethodsAre DEF RequestOf

LEMMA UpdateRequests ==
  ASSUME NEW kind \in Clients, NEW k, NEW u
  PROVE  RequestOf(kind, "Update", k, u)
           = Request("PUT", kind,
                     IF kind \in {"workflow", "job", "worker"} THEN Unset ELSE u, Unset)
  <1>1. RequestOf(kind, "Update", k, u) = Calls(kind, k, u)["Update"]
    BY OwnRequests DEF OwnMethods
  <1>2. CASE kind = "workflow"
    BY <1>1, <1>2, CallsAre DEF workflowCalls
  <1>3. CASE kind = "job"
    BY <1>1, <1>3, CallsAre DEF jobCalls
  <1>4. CASE kind = "stage"
    BY <1>1, <1>4, CallsAre DEF stageCalls
  <1>5. CASE kind = "worker"
    BY <1>1, <1>5, CallsAre DEF workerCalls
  <1>6. CASE kind = "code"
    BY <1>1, <1>6, CallsAre DEF codeCalls
  <1>7. CASE kind = "variable"
    BY <1>1, <1>7, CallsAre DEF variableCalls
  <1>8. CASE kind = "connection"
    BY <1>1, <1>8, CallsAre DEF connectionCalls
  <1>9. CASE kind = "event"
    BY <1>1, <1>9, CallsAre DEF eventCalls
  <1> QED BY <1>2, <1>3, <1>4, <1>5, <1>6, <1>7, <1>8, <1>9 DEF Clients

LEMMA StatusRequests ==
  ASSUME NEW kind \in {"workflow", "job", "stage", "worker"}, NEW k, NEW u
  PROVE  /\ RequestOf(kind, "UpdateStatus", k, u) = Request("PUT", kind, u, "state")
         /\ RequestOf(kind, "Bind", k, u)
              = Request(IF kind = "stage" THEN "PUT" ELSE "POST", kind, u, "binding")
  <1>1. /\ RequestOf(kind, "UpdateStatus", k, u) = Calls(kind, k, u)["UpdateStatus"]
        /\ RequestOf(kind, "Bind", k, u) = Calls(kind, k, u)["Bind"]
    <2>1. kind \in Clients /\ {"UpdateStatus", "Bind"} \subseteq OwnMethods(kind)
      BY DEF Clients, OwnMethods
    <2> QED BY <2>1, OwnRequests
  <1>2. CASE kind = "workflow"
    BY <1>1, <1>2, CallsAre DEF workflowCalls
  <1>3. CASE kind = "job"
    BY <1>1, <1>3, CallsAre DEF jobCalls
  <1>4. CASE kind = "stage"
    BY <1>1, <1>4, CallsAre DEF stageCalls
  <1>5. CASE kind = "worker"
    BY <1>1, <1>5, CallsAre DEF workerCalls
  <1> QED BY <1>2, <1>3, <1>4, <1>5

LEMMA OtherRequests ==
  ASSUME NEW k, NEW u
  PROVE  /\ RequestOf("workflow", "GetDag", k, u) = Request("GET", "workflow", k, "dag")
         /\ RequestOf("stage", "UpdateListStatus", k, u) = Request("PUT", "stage", "all", "list")
         /\ RequestOf("worker", "Register", k, u) = Request("POST", "worker", Unset, "register")
         /\ RequestOf("worker", "Heartbeat", k, u) = Request("PUT", "worker", u, "heartbeat")
  <1>1. /\ RequestOf("workflow", "GetDag", k, u) = Calls("workflow", k, u)["GetDag"]
        /\ RequestOf("stage", "UpdateListStatus", k, u) = Calls("stage", k, u)["UpdateListStatus"]
        /\ RequestOf("worker", "Register", k, u) = Calls("worker", k, u)["Register"]
        /\ RequestOf("worker", "Heartbeat", k, u) = Calls("worker", k, u)["Heartbeat"]
    <2>1. /\ "workflow" \in Clients /\ "stage" \in Clients /\ "worker" \in Clients
          /\ "GetDag" \in OwnMethods("workflow") /\ "UpdateListStatus" \in OwnMethods("stage")
          /\ "Register" \in OwnMethods("worker") /\ "Heartbeat" \in OwnMethods("worker")
      BY DEF Clients, OwnMethods
    <2> QED BY <2>1, OwnRequests
  <1>2. /\ Calls("workflow", k, u)["GetDag"] = Request("GET", "workflow", k, "dag")
        /\ Calls("stage", k, u)["UpdateListStatus"] = Request("PUT", "stage", "all", "list")
        /\ Calls("worker", k, u)["Register"] = Request("POST", "worker", Unset, "register")
        /\ Calls("worker", k, u)["Heartbeat"] = Request("PUT", "worker", u, "heartbeat")
    BY CallsAre DEF workflowCalls, stageCalls, workerCalls
  <1> QED BY <1>1, <1>2

\* The object's name in the path.
LEMMA UidOfObject ==
  ASSUME NEW v, NEW r, NEW k, NEW a, k # Unset
  PROVE  UidOf(Route(v, <<r, AnyUid>>, a), Request(v, r, k, Unset)) = k
  <1>1. Request(v, r, k, Unset) = [verb |-> v, path |-> <<r, k>>]
    BY RequestIs
  <1>2. UidOf(Route(v, <<r, AnyUid>>, a), [verb |-> v, path |-> <<r, k>>]) = k
    BY DEF UidOf, Route
  <1> QED BY <1>1, <1>2

LEMMA UidOfAction ==
  ASSUME NEW v, NEW r, NEW k, NEW sub, NEW a, k # Unset, sub # Unset
  PROVE  UidOf(Route(v, <<r, AnyUid, sub>>, a), Request(v, r, k, sub)) = k
  <1>1. Request(v, r, k, sub) = [verb |-> v, path |-> <<r, k, sub>>]
    BY RequestIs
  <1>2. UidOf(Route(v, <<r, AnyUid, sub>>, a), [verb |-> v, path |-> <<r, k, sub>>]) = k
    BY DEF UidOf, Route
  <1> QED BY <1>1, <1>2

\* What the server makes of method m, called about object o.
ServedAs(kind, m, o) ==
  LET req == RequestOf(kind, m, o.key, o.uid)
      route == Dispatch(req)
  IN ServeRoute(kind, route, UidOf(route, req), Unset, o.uid)

LEMMA Unrouted ==
  ASSUME ObjectsInv, NEW kind \in Clients, NEW m, NEW o, <<kind, m>> \in NotServed,
         Dispatch(RequestOf(kind, m, o.key, o.uid)) = NoRoute
  PROVE  Proper(kind, m, ServedAs(kind, m, o))
  <1>1. ServedAs(kind, m, o) = Outcome("NoRoute", store[kind])
    <2>1. \A k : ServeRoute(kind, NoRoute, k, Unset, o.uid) = Outcome("NoRoute", store[kind])
      <3>1. NoRoute.scope = <<Unset, Unset>>
        BY DEF NoRoute, Route
      <3>2. Unset \notin {"POST", "GET", "LIST", "WATCH", "PUT", "PATCH", "DELETE"}
        BY Zenon DEF Unset
      <3> QED BY <3>1, <3>2 DEF ServeRoute
    <2> QED BY <2>1 DEF ServedAs
  <1> QED BY <1>1, OutcomeIs DEF Proper, Excused, ObjectsInv

LEMMA StandardServed ==
  ASSUME ObjectsInv, NEW kind \in Clients, NEW o \in Range(store[kind]),
         NEW m \in StandardMethods \ {"Create"}
  PROVE  Proper(kind, m, ServedAs(kind, m, o))
  <1>1. o \in ObjectsOf(kind) /\ HasKey(kind, o.key)
    BY DEF ObjectsInv, Range, HasKey
  <1>2. o.key \notin {Unset, "list", "watch"} /\ kind \in StorageMap
    BY <1>1, ObjectIs DEF StorageMap
  <1>3. "GET" # Unset /\ "PATCH" # Unset /\ "DELETE" # Unset
    BY Zenon DEF Unset
  <1>4. CASE m = "Get"
    <2>1. ServedAs(kind, m, o) = getHandler(kind, o.key)
      <3>1. Dispatch(Request("GET", kind, o.key, Unset))
              = Route("GET", <<kind, AnyUid>>, <<"GET", Unset>>)
        BY <1>2, ObjectRoutes
      <3>2. UidOf(Route("GET", <<kind, AnyUid>>, <<"GET", Unset>>),
                  Request("GET", kind, o.key, Unset)) = o.key
        BY <1>2, UidOfObject
      <3> QED BY <1>3, <1>4, <3>1, <3>2, StandardRequests, ScopeServed DEF ServedAs
    <2> QED BY <1>1, <2>1, Gets DEF Proper, Excused
  <1>5. CASE m = "Patch"
    <2>1. ServedAs(kind, m, o) = updateHandler(kind, o.key)
      <3>1. Dispatch(Request("PATCH", kind, o.key, Unset))
              = Route("PATCH", <<kind, AnyUid>>, <<"PATCH", Unset>>)
        BY <1>2, ObjectRoutes
      <3>2. UidOf(Route("PATCH", <<kind, AnyUid>>, <<"PATCH", Unset>>),
                  Request("PATCH", kind, o.key, Unset)) = o.key
        BY <1>2, UidOfObject
      <3> QED BY <1>3, <1>5, <3>1, <3>2, StandardRequests, ScopeServed DEF ServedAs
    <2> QED BY <1>1, <2>1, Updates DEF Proper, Excused
  <1>6. CASE m = "Delete"
    <2>1. ServedAs(kind, m, o) = deleteHandler(kind, o.key)
      <3>1. Dispatch(Request("DELETE", kind, o.key, Unset))
              = Route("DELETE", <<kind, AnyUid>>, <<"DELETE", Unset>>)
        BY <1>2, ObjectRoutes
      <3>2. UidOf(Route("DELETE", <<kind, AnyUid>>, <<"DELETE", Unset>>),
                  Request("DELETE", kind, o.key, Unset)) = o.key
        BY <1>2, UidOfObject
      <3> QED BY <1>3, <1>6, <3>1, <3>2, StandardRequests, ScopeServed DEF ServedAs
    <2>2. <<kind, m>> \in NotServed
      BY <1>6 DEF NotServed
    <2> QED BY <2>1, <2>2, Deletes DEF Proper, Excused
  <1>7. CASE m = "List"
    <2>1. ServedAs(kind, m, o) = Outcome("OK", store[kind])
      <3>1. Dispatch(Request("GET", kind, Unset, "list"))
              = Route("GET", <<kind, "list">>, <<"LIST", Unset>>)
        BY <1>2, ListRoutes
      <3> QED BY <1>3, <1>7, <3>1, StandardRequests, ScopeServed DEF ServedAs
    <2> QED BY <2>1, OutcomeIs DEF Proper, Excused, ObjectsInv
  <1>8. CASE m = "Watch"
    <2>1. ServedAs(kind, m, o) = Outcome("OK", store[kind])
      <3>1. Dispatch(Request("GET", kind, Unset, "watch"))
              = Route("GET", <<kind, "watch">>, <<"WATCH", Unset>>)
        BY <1>2, ListRoutes
      <3> QED BY <1>3, <1>8, <3>1, StandardRequests, ScopeServed DEF ServedAs
    <2> QED BY <2>1, OutcomeIs DEF Proper, Excused, ObjectsInv
  <1>9. CASE m = "DeleteCollection"
    <2>1. Dispatch(RequestOf(kind, m, o.key, o.uid)) = NoRoute
      <3>1. Dispatch(Request("DELETE", kind, Unset, Unset)) = NoRoute
        BY <1>2, NoCollectionRoutes
      <3> QED BY <1>9, <3>1, StandardRequests
    <2>2. <<kind, m>> \in NotServed
      BY <1>9 DEF NotServed
    <2> QED BY <2>1, <2>2, Unrouted
  <1> QED BY <1>4, <1>5, <1>6, <1>7, <1>8, <1>9 DEF StandardMethods

\* A sub-resource of the object is served by the action's handler.
LEMMA ActionServed ==
  ASSUME NEW kind \in Clients, NEW m, NEW o, NEW a \in Actions(kind), NEW k,
         NEW v, NEW sub, a = <<v, sub>>, v \in {"GET", "PUT"}, k \notin {Unset, "list"},
         RequestOf(kind, m, o.key, o.uid) = Request(v, kind, k, sub)
  PROVE  ServedAs(kind, m, o) = Handle(kind, <<v, sub>>, k, o.uid)
  <1>1. a[1] = v /\ a[2] = sub /\ v \notin {"POST", "LIST"}
    OBVIOUS
  <1>2. Dispatch(Request(v, kind, k, sub)) = Route(v, <<kind, AnyUid, sub>>, a)
    BY <1>1, ActionRoutes
  <1>3. sub # Unset /\ a[2] # Unset
    BY <1>1, ActionNames
  <1>4. UidOf(Route(v, <<kind, AnyUid, sub>>, a), Request(v, kind, k, sub)) = k
    BY <1>3, UidOfAction
  <1>5. v # Unset
    BY Zenon DEF Unset
  <1>6. ServeRoute(kind, Route(v, <<kind, AnyUid, sub>>, a), k, Unset, o.uid)
          = Handle(kind, a, k, o.uid)
    BY <1>3, <1>5, ActionScopeServed
  <1> QED BY <1>2, <1>4, <1>6 DEF ServedAs

LEMMA HandlesAre ==
  ASSUME NEW kind, NEW k, NEW u
  PROVE  /\ Handle(kind, <<"PUT", "state">>, k, u) = updateHandler(kind, u)
         /\ Handle(kind, <<"PUT", "binding">>, k, u) = updateHandler(kind, k)
         /\ Handle(kind, <<"PUT", "list">>, k, u) = updateHandler(kind, u)
         /\ Handle(kind, <<"POST", "register">>, k, u) = workerRegister(u)
         /\ Handle(kind, <<"PUT", "heartbeat">>, k, u) = Outcome("OK", store[kind])
         /\ Handle(kind, <<"GET", "dag">>, k, u) = workflowGetDag(k)
  BY DEF Handle, heartbeat

LEMMA OwnServed ==
  ASSUME ObjectsInv, NEW kind \in Clients, NEW o \in Range(store[kind]),
         NEW m \in OwnMethods(kind) \ {"Register"}
  PROVE  Proper(kind, m, ServedAs(kind, m, o))
  <1>1. o \in ObjectsOf(kind) /\ HasKey(kind, o.key)
    BY DEF ObjectsInv, Range, HasKey
  <1>2. /\ o.key \notin {Unset, "list", "watch"} /\ o.uid \notin {Unset, "list", "watch"}
        /\ (kind # "event" => o.key = o.uid) /\ kind \in StorageMap
    BY <1>1, ObjectIs DEF StorageMap
  <1>3. /\ \A v \in {"GET", "PUT", "POST"} : v # Unset
        /\ \A sub \in {"state", "binding", "list", "dag", "heartbeat"} : sub # Unset
        /\ "all" # Unset
    BY Zenon DEF Unset
  <1>4. CASE m = "Update" /\ kind \in {"workflow", "job", "worker"}
    <2>1. Dispatch(RequestOf(kind, m, o.key, o.uid)) = NoRoute
      <3>1. Dispatch(Request("PUT", kind, Unset, Unset)) = NoRoute
        BY <1>2, NoCollectionRoutes
      <3> QED BY <1>4, <3>1, UpdateRequests
    <2>2. <<kind, m>> \in NotServed
      BY <1>4 DEF NotServed
    <2> QED BY <2>1, <2>2, Unrouted
  <1>5. CASE m = "Update" /\ kind \notin {"workflow", "job", "worker"}
    <2>1. ServedAs(kind, m, o) = updateHandler(kind, o.uid)
      <3>1. RequestOf(kind, m, o.key, o.uid) = Request("PUT", kind, o.uid, Unset)
        BY <1>5, UpdateRequests
      <3>2. Dispatch(Request("PUT", kind, o.uid, Unset))
              = Route("PUT", <<kind, AnyUid>>, <<"PUT", Unset>>)
        BY <1>2, ObjectRoutes
      <3>3. UidOf(Route("PUT", <<kind, AnyUid>>, <<"PUT", Unset>>),
                  Request("PUT", kind, o.uid, Unset)) = o.uid
        BY <1>2, UidOfObject
      <3> QED BY <1>3, <3>1, <3>2, <3>3, ScopeServed DEF ServedAs
    <2>2. CASE kind = "event"
      <3>1. <<kind, m>> \in NotServed
        BY <1>5, <2>2 DEF NotServed
      <3> QED BY <2>1, <3>1, Updates DEF Proper, Excused
    <2>3. CASE kind # "event"
      BY <1>1, <1>2, <2>1, <2>3, Updates DEF Proper, Excused
    <2> QED BY <2>2, <2>3
  <1>6. CASE m = "UpdateStatus" /\ kind \in {"stage", "worker"}
    <2>1. RequestOf(kind, m, o.key, o.uid) = Request("PUT", kind, o.uid, "state")
      BY <1>6, StatusRequests
    <2>2. \A a \in Actions(kind) : a[1] # "PUT" \/ a[2] # "state"
      BY <1>6 DEF Actions, stageActions, workerActions
    <2>3. Dispatch(Request("PUT", kind, o.uid, "state")) = NoRoute
      BY <1>2, <1>3, <2>2, NoActionRoutes
    <2>4. <<kind, m>> \in NotServed
      BY <1>6 DEF NotServed
    <2> QED BY <2>1, <2>3, <2>4, Unrouted
  <1>7. CASE m = "UpdateStatus" /\ kind \in {"workflow", "job"}
    <2>1. RequestOf(kind, m, o.key, o.uid) = Request("PUT", kind, o.uid, "state")
      BY <1>7, StatusRequests
    <2>2. <<"PUT", "state">> \in Actions(kind)
      BY <1>7 DEF Actions, workflowActions, jobActions
    <2>3. ServedAs(kind, m, o) = Handle(kind, <<"PUT", "state">>, o.uid, o.uid)
      BY <1>2, <2>1, <2>2, ActionServed
    <2> QED BY <1>1, <1>2, <1>7, <2>3, HandlesAre, Updates DEF Proper, Excused
  <1>8. CASE m = "Bind" /\ kind # "stage"
    <2>1. kind \in {"workflow", "job", "worker"}
      BY <1>8 DEF OwnMethods
    <2>2. RequestOf(kind, m, o.key, o.uid) = Request("POST", kind, o.uid, "binding")
      BY <1>8, <2>1, StatusRequests
    <2>3. Dispatch(Request("POST", kind, o.uid, "binding")) = NoRoute
      BY <1>2, <1>3, NoActionRoutes
    <2>4. <<kind, m>> \in NotServed
      BY <1>8, <2>1 DEF NotServed
    <2> QED BY <2>2, <2>3, <2>4, Unrouted
  <1>9. CASE m = "Bind" /\ kind = "stage"
    <2>1. RequestOf(kind, m, o.key, o.uid) = Request("PUT", kind, o.uid, "binding")
      BY <1>9, StatusRequests
    <2>2. <<"PUT", "binding">> \in Actions(kind)
      BY <1>9 DEF Actions, stageActions
    <2>3. ServedAs(kind, m, o) = Handle(kind, <<"PUT", "binding">>, o.uid, o.uid)
      BY <1>2, <2>1, <2>2, ActionServed
    <2> QED BY <1>1, <1>2, <1>9, <2>3, HandlesAre, Updates DEF Proper, Excused
  <1>10. CASE m = "GetDag"
    <2>1. kind = "workflow"
      BY <1>10 DEF OwnMethods
    <2>2. RequestOf(kind, m, o.key, o.uid) = Request("GET", kind, o.key, "dag")
      BY <1>10, <2>1, OtherRequests
    <2>3. <<"GET", "dag">> \in Actions(kind)
      BY <2>1 DEF Actions, workflowActions
    <2>4. ServedAs(kind, m, o) = workflowGetDag(o.key)
      <3>1. ServedAs(kind, m, o) = Handle(kind, <<"GET", "dag">>, o.key, o.uid)
        BY <1>2, <2>2, <2>3, ActionServed
      <3> QED BY <3>1, HandlesAre
    <2>5. /\ workflowGetDag(o.key).list = store["workflow"]
          /\ workflowGetDag(o.key).status \in {"OK", "NotFound"}
      BY OutcomeIs DEF workflowGetDag
    <2> QED BY <1>10, <2>1, <2>4, <2>5 DEF Proper, Excused, ObjectsInv
  <1>11. CASE m = "UpdateListStatus"
    <2>1. kind = "stage"
      BY <1>11 DEF OwnMethods
    <2>2. RequestOf(kind, m, o.key, o.uid) = Request("PUT", kind, "all", "list")
      BY <1>11, <2>1, OtherRequests
    <2>3. <<"PUT", "list">> \in Actions(kind)
      BY <2>1 DEF Actions, stageActions
    <2>4. ServedAs(kind, m, o) = Handle(kind, <<"PUT", "list">>, "all", o.uid)
      BY <1>3, <2>2, <2>3, ActionServed
    <2> QED BY <1>1, <1>2, <2>1, <2>4, HandlesAre, Updates DEF Proper, Excused
  <1>12. CASE m = "Heartbeat"
    <2>1. kind = "worker"
      BY <1>12 DEF OwnMethods
    <2>2. RequestOf(kind, m, o.key, o.uid) = Request("PUT", kind, o.uid, "heartbeat")
      BY <1>12, <2>1, OtherRequests
    <2>3. <<"PUT", "heartbeat">> \in Actions(kind)
      BY <2>1 DEF Actions, workerActions
    <2>4. ServedAs(kind, m, o) = Handle(kind, <<"PUT", "heartbeat">>, o.uid, o.uid)
      BY <1>2, <2>2, <2>3, ActionServed
    <2> QED BY <2>4, HandlesAre, OutcomeIs DEF Proper, Excused, ObjectsInv
  <1>13. m \in {"Update", "UpdateStatus", "Bind", "GetDag", "UpdateListStatus", "Heartbeat"}
         /\ (m = "UpdateStatus" => kind \in {"workflow", "job", "stage", "worker"})
    BY DEF OwnMethods
  <1> QED BY <1>4, <1>5, <1>6, <1>7, <1>8, <1>9, <1>10, <1>11, <1>12, <1>13

\* What the server makes of a Create and of a worker's registration.
LEMMA NewServed ==
  ASSUME ObjectsInv, NEW kind \in Clients, NEW n \in (IF kind = "event" THEN Names ELSE {Unset}),
         NEW u \in Uids, NEW m \in Methods(kind) \cap NewMethods
  PROVE  Proper(kind, m, ServeRoute(kind, Dispatch(RequestOf(kind, m, n, u)), Unset, n, u))
  <1> DEFINE out == ServeRoute(kind, Dispatch(RequestOf(kind, m, n, u)), Unset, n, u)
  <1>1. kind \in StorageMap /\ (kind = "event" => n \in Names)
    BY DEF StorageMap
  <1>2. "POST" # Unset /\ "register" # Unset
    BY Zenon DEF Unset
  <1>3. CASE m = "Create"
    <2>1. Dispatch(Request("POST", kind, Unset, Unset)) = Route("POST", <<kind>>, <<"POST", Unset>>)
      BY <1>1, CollectionRoutes
    <2>2. out = createHandler(kind, n, u)
      BY <1>2, <1>3, <2>1, StandardRequests, ScopeServed
    <2>3. /\ createHandler(kind, n, u).list \in Seq(ObjectsOf(kind))
          /\ createHandler(kind, n, u).status \in {"OK", "Exists"}
      BY <1>1, Creates
    <2> QED BY <1>3, <2>2, <2>3 DEF Proper, Excused
  <1>4. CASE m = "Register"
    <2>1. kind = "worker"
      BY <1>4, MethodsAre DEF OwnMethods, StandardMethods
    <2>2. out = Handle("worker", <<"POST", "register">>, Unset, u)
      <3>1. RequestOf("worker", "Register", n, u) = Request("POST", "worker", Unset, "register")
        BY OtherRequests
      <3> DEFINE a == <<"POST", "register">>  rt == Route("POST", <<"worker", "register">>, a)
      <3>2. a[2] # Unset /\ Dispatch(RequestOf("worker", "Register", n, u)) = rt
        BY <1>2, <3>1, RegisterRoute
      <3> HIDE DEF a
      <3>3. ServeRoute("worker", rt, Unset, n, u) = Handle("worker", a, Unset, u)
        BY <1>2, <3>2, ActionScopeServed
      <3> QED BY <1>4, <2>1, <3>2, <3>3 DEF a
    <2>3. out = workerRegister(u)
      BY <2>2, HandlesAre
    <2>4. CASE HasKey("worker", u)
      <3>1. workerRegister(u) = updateHandler("worker", u)
        BY <2>4 DEF workerRegister
      <3> QED BY <2>1, <2>3, <2>4, <3>1, Updates DEF Proper, Excused
    <2>5. CASE ~HasKey("worker", u)
      <3>1. workerRegister(u) = createHandler("worker", Unset, u)
        BY <2>5 DEF workerRegister
      <3>2. ~HasKey("worker", KeyOf("worker", Unset, u))
        BY <2>5 DEF KeyOf
      <3>3. /\ createHandler("worker", Unset, u).list \in Seq(ObjectsOf("worker"))
            /\ createHandler("worker", Unset, u).status = "OK"
        BY <2>1, <3>2, Creates
      <3> QED BY <2>1, <2>3, <3>1, <3>3 DEF Proper, Excused
    <2> QED BY <2>4, <2>5
  <1> QED BY <1>3, <1>4 DEF NewMethods

\* A call with a proper outcome keeps both parts of the invariant.
LEMMA AnsweredProperly ==
  ASSUME ObjectsInv, NEW kind \in Clients, NEW m, NEW out, Proper(kind, m, out),
         Answered(kind, m, out)
  PROVE  ObjectsInv' /\ AnswerInv'
  <1>1. store' = [store EXCEPT ![kind] = out.list]
    BY DEF Answered
  <1>2. ObjectsInv'
    BY <1>1 DEF ObjectsInv, Proper
  <1>3. \/ answer' = NoAnswer
        \/ answer' = [call |-> <<kind, m>>, status |-> out.status]
    BY DEF Answered
  <1>4. Excused(kind, m, out.status)
    BY DEF Proper
  <1>5. AnswerInv'
    BY <1>3, <1>4 DEF AnswerInv
  <1> QED BY <1>2, <1>5

LEMMA ServedInit == ASSUME ApiInit PROVE ObjectsInv /\ AnswerInv
  <1> DEFINE u == CHOOSE u \in Uids : TRUE  n == CHOOSE n \in Names : TRUE
  <1>1. u \in Uids /\ n \in Names
    BY ApiAssumption
  <1> HIDE DEF u, n
  <1>2. store = [kind \in StorageMap |->
                  IF kind = "dag" THEN <<>> ELSE <<Object(KeyOf(kind, n, u), u)>>]
    BY DEF ApiInit, u, n
  <1>3. ASSUME NEW kind \in Clients PROVE store[kind] \in Seq(ObjectsOf(kind))
    <2>1. kind \in StorageMap /\ kind # "dag"
      BY DEF StorageMap, Clients
    <2>2. Object(KeyOf(kind, n, u), u) \in ObjectsOf(kind)
      BY <1>1, NewObject
    <2> QED BY <1>2, <2>1, <2>2
  <1>4. ObjectsInv
    BY <1>2, <1>3 DEF ObjectsInv
  <1>5. AnswerInv
    BY DEF ApiInit, AnswerInv
  <1> QED BY <1>4, <1>5

LEMMA ServedStep == ASSUME ObjectsInv, AnswerInv, [ApiNext]_apiVars PROVE ObjectsInv' /\ AnswerInv'
  <1>1. ASSUME NEW kind \in Clients, NEW m \in Methods(kind), m \in NewMethods, CallNew(kind, m)
        PROVE  ObjectsInv' /\ AnswerInv'
    <2>1. PICK n \in (IF kind = "event" THEN Names ELSE {Unset}), u \in Uids :
            Answered(kind, m, ServeRoute(kind, Dispatch(RequestOf(kind, m, n, u)), Unset, n, u))
      BY <1>1 DEF CallNew
    <2>2. m \in Methods(kind) \cap NewMethods
      BY <1>1
    <2>3. Proper(kind, m, ServeRoute(kind, Dispatch(RequestOf(kind, m, n, u)), Unset, n, u))
      BY <2>2, NewServed
    <2> QED BY <2>1, <2>3, AnsweredProperly
  <1>2. ASSUME NEW kind \in Clients, NEW m \in Methods(kind), m \notin NewMethods, Call(kind, m)
        PROVE  ObjectsInv' /\ AnswerInv'
    <2>1. PICK o \in Range(store[kind]) : Answered(kind, m, ServedAs(kind, m, o))
      BY <1>2 DEF Call, ServedAs
    <2>2. m \in StandardMethods \ {"Create"} \/ m \in OwnMethods(kind) \ {"Register"}
      BY <1>2, MethodsAre DEF NewMethods
    <2>3. Proper(kind, m, ServedAs(kind, m, o))
      BY <2>2, StandardServed, OwnServed
    <2> QED BY <2>1, <2>3, AnsweredProperly
  <1>3. CASE Return
    BY <1>3 DEF Return, ObjectsInv, AnswerInv
  <1>4. CASE ScheduleNow
    <2>1. PICK u \in Uids : store' = [store EXCEPT !["job"] = Put(@, Object(u, u))]
      BY <1>4 DEF ScheduleNow
    <2>2. "job" \in Clients /\ "job" \in StorageMap
      BY DEF Clients, StorageMap
    <2>3. Object(u, u) \in ObjectsOf("job")
      <3>1. Object(KeyOf("job", Unset, u), u) \in ObjectsOf("job")
        BY NewObject
      <3> QED BY <3>1 DEF KeyOf
    <2>4. Put(store["job"], Object(u, u)) \in Seq(ObjectsOf("job"))
      BY <2>2, <2>3, PutIsSeq DEF ObjectsInv
    <2>5. ObjectsInv'
      BY <2>1, <2>2, <2>4 DEF ObjectsInv
    <2> QED BY <1>4, <2>5 DEF ScheduleNow, AnswerInv
  <1>5. CASE \E w \in Uids : UpdateDagLists(w)
    BY <1>5 DEF UpdateDagLists, ObjectsInv, AnswerInv
  <1>6. ASSUME NEW e \in editing, UpdateDagWrites(e) PROVE ObjectsInv' /\ AnswerInv'
    <2>1. PICK k : WriteDag(e, k)
      BY <1>6 DEF UpdateDagWrites
    <2>2. PICK list : store' = [store EXCEPT !["dag"] = list]
      BY <2>1 DEF WriteDag
    <2>3. "dag" \notin Clients
      BY DEF Clients
    <2>4. ObjectsInv'
      BY <2>2, <2>3 DEF ObjectsInv
    <2> QED BY <1>6, <2>4 DEF UpdateDagWrites, AnswerInv
  <1>7. ASSUME NEW e \in editing, UpdateDagFails(e) PROVE ObjectsInv' /\ AnswerInv'
    BY <1>7 DEF UpdateDagFails, ObjectsInv, AnswerInv
  <1>8. CASE UNCHANGED apiVars
    BY <1>8 DEF apiVars, ObjectsInv, AnswerInv
  <1> QED BY <1>1, <1>2, <1>3, <1>4, <1>5, <1>6, <1>7, <1>8 DEF ApiNext

\* Of what the components call only the scheduler's update of a stage is not served.
LEMMA ComponentsAreServed == ComponentCalls \cap NotServed = {<<"stage", "UpdateStatus">>}
  <1>1. <<"stage", "UpdateStatus">> \in ComponentCalls \cap NotServed
    BY DEF ComponentCalls, schedulerCalls, NotServed
  <1>2. ASSUME NEW c \in ComponentCalls, c \in NotServed PROVE c = <<"stage", "UpdateStatus">>
    <2>1. /\ c = <<c[1], c[2]>>
          /\ \/ c[2] \in {"Delete", "DeleteCollection"}
             \/ c[1] \in {"workflow", "job", "worker"} /\ c[2] \in {"Update", "Bind"}
             \/ c = <<"stage", "UpdateStatus">> \/ c = <<"worker", "UpdateStatus">>
             \/ c = <<"event", "Update">>
      BY <1>2 DEF NotServed
    <2>2. CASE c \in dagControllerCalls
      BY <2>1, <2>2 DEF dagControllerCalls
    <2>3. CASE c \in stageControllerCalls
      BY <2>1, <2>3 DEF stageControllerCalls
    <2>4. CASE c \in jobControllerCalls
      BY <2>1, <2>4 DEF jobControllerCalls
    <2>5. CASE c \in cronTriggerCalls
      BY <2>1, <2>5 DEF cronTriggerCalls
    <2>6. CASE c \in workerAgentCalls
      BY <2>1, <2>6 DEF workerAgentCalls
    <2>7. CASE c \in schedulerCalls
      BY <2>1, <2>7 DEF schedulerCalls
    <2>8. CASE c \in recorderCalls
      BY <2>1, <2>8 DEF recorderCalls
    <2>9. CASE c \in workflowInformerCalls \cup jobInformerCalls
      BY <2>1, <2>9 DEF workflowInformerCalls, jobInformerCalls
    <2>10. CASE c \in stageInformerCalls \cup workerInformerCalls
      BY <2>1, <2>10 DEF stageInformerCalls, workerInformerCalls
    <2> QED BY <2>2, <2>3, <2>4, <2>5, <2>6, <2>7, <2>8, <2>9, <2>10 DEF ComponentCalls
  <1> QED BY <1>1, <1>2

\* For any UIDs and names that are no segment of a route, whatever is stored and
\* in whatever order it is written: a client's call about an object that is there
\* succeeds, but for those NotServed lists, a second Create and a workflow without
\* a dag (installer.go registerResourceHandlers; core/v1; registry/rest).
THEOREM EveryCallIsServed == ApiSpec => []CallsAreServed
  <1>1. ObjectsInv /\ AnswerInv => CallsAreServed
    <2> SUFFICES ASSUME AnswerInv PROVE CallsAreServed
      OBVIOUS
    <2>1. ASSUME answer.status # "OK"
          PROVE  \/ answer.call \in NotServed
                 \/ answer.status = "Exists" /\ answer.call[2] = "Create"
                 \/ answer.status = "NotFound" /\ answer.call = <<"workflow", "GetDag">>
      <3>1. answer # NoAnswer
        BY <2>1 DEF NoAnswer
      <3>2. PICK kind, m, status :
              answer = [call |-> <<kind, m>>, status |-> status] /\ Excused(kind, m, status)
        BY <3>1 DEF AnswerInv
      <3>3. answer.call = <<kind, m>> /\ answer.status = status /\ answer.call[2] = m
        BY <3>2
      <3> QED BY <2>1, <3>2, <3>3 DEF Excused
    <2> QED BY <2>1, ComponentsAreServed DEF CallsAreServed
  <1> QED BY <1>1, ServedInit, ServedStep, PTL DEF ApiSpec
=============================================================================
