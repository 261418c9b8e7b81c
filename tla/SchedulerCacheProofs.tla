------------------------ MODULE SchedulerCacheProofs ------------------------
(***************************************************************************)
(* Proofs about SchedulerCache, for every set of stages and workers and any *)
(* number of binding goroutines and generations.                           *)
(***************************************************************************)
EXTENDS SchedulerCache, FiniteSetTheorems, TLAPS

----------------------------------------------------------------------------
(* What the operators on the worker list keep *)

Info(g) == [live : BOOLEAN, stages : SUBSET Stages, gen : 1..g]

\* The list has every worker of the map once, the last changed first.
Ordered(ws, seq) ==
  /\ \A n \in 1..Len(seq) : seq[n] \in DOMAIN ws
  /\ \A u \in DOMAIN ws : \E n \in 1..Len(seq) : seq[n] = u
  /\ \A m, n \in 1..Len(seq) : m < n => ws[seq[m]].gen > ws[seq[n]].gen

CacheOK(ws, seq, g) ==
  /\ DOMAIN ws \subseteq Workers /\ ws \in [DOMAIN ws -> Info(g)]
  /\ seq \in Seq(Workers) /\ g \in Nat
  /\ Ordered(ws, seq)

OK(c) == CacheOK(c.workers, c.list, c.generation)

LEMMA ConcatIs ==
  ASSUME NEW S, NEW a \in Seq(S), NEW b \in Seq(S)
  PROVE  /\ a \o b \in Seq(S) /\ Len(a \o b) = Len(a) + Len(b)
         /\ \A n \in 1..Len(a \o b) : (a \o b)[n] = IF n <= Len(a) THEN a[n] ELSE b[n - Len(a)]
  OBVIOUS

\* Unlinking takes u out and keeps the order of the others.
LEMMA UnlinkIs ==
  ASSUME NEW S, NEW seq \in Seq(S), NEW u,
         \A m, n \in 1..Len(seq) : m < n => seq[m] # seq[n]
  PROVE  /\ Unlink(seq, u) \in Seq(S)
         /\ \A n \in 1..Len(Unlink(seq, u)) : Unlink(seq, u)[n] # u
         /\ \A i \in 1..Len(seq) : seq[i] # u =>
              \E n \in 1..Len(Unlink(seq, u)) : Unlink(seq, u)[n] = seq[i]
         /\ \A n \in 1..Len(Unlink(seq, u)) : \E i \in 1..Len(seq) : Unlink(seq, u)[n] = seq[i]
         /\ \A m, n \in 1..Len(Unlink(seq, u)) : m < n =>
              \E i, j \in 1..Len(seq) :
                i < j /\ Unlink(seq, u)[m] = seq[i] /\ Unlink(seq, u)[n] = seq[j]
  <1> DEFINE at == CHOOSE n \in 1..Len(seq) : seq[n] = u
             r == Unlink(seq, u)
  <1>1. CASE \E n \in 1..Len(seq) : seq[n] = u
    <2>1. at \in 1..Len(seq) /\ seq[at] = u /\ Len(seq) \in Nat
      BY <1>1
    <2>2. r = SubSeq(seq, 1, at - 1) \o SubSeq(seq, at + 1, Len(seq))
      BY <1>1 DEF Unlink
    <2> HIDE DEF at, r
    <2>3. /\ r \in Seq(S) /\ Len(r) = Len(seq) - 1
          /\ \A n \in 1..Len(r) : r[n] = IF n < at THEN seq[n] ELSE seq[n + 1]
      <3> DEFINE a == SubSeq(seq, 1, at - 1)
                 b == SubSeq(seq, at + 1, Len(seq))
      <3>1. /\ a \in Seq(S) /\ Len(a) = at - 1 /\ \A n \in 1..(at - 1) : a[n] = seq[n]
        BY <2>1
      <3>2. /\ b \in Seq(S) /\ Len(b) = Len(seq) - at
            /\ \A n \in 1..(Len(seq) - at) : b[n] = seq[at + n]
        <4>1. at + 1 \in Nat /\ at + 1 >= 1 /\ at + 1 <= Len(seq) + 1
          BY <2>1
        <4>2. b \in Seq(S) /\ Len(b) = Len(seq) - at
          BY <2>1, <4>1
        <4>3. ASSUME NEW n \in 1..(Len(seq) - at) PROVE b[n] = seq[at + n]
          <5>1. n \in 1..Len(b) /\ (at + 1) + n - 1 = at + n
            BY <2>1, <4>2
          <5>2. b[n] = seq[(at + 1) + n - 1]
            BY <2>1, <4>1, <4>2, <5>1
          <5> QED BY <5>1, <5>2
        <4> QED BY <4>2, <4>3
      <3>3. r = a \o b
        BY <2>2
      <3> HIDE DEF a, b
      <3>4. /\ r \in Seq(S) /\ Len(r) = Len(a) + Len(b)
            /\ \A n \in 1..Len(r) : r[n] = IF n <= Len(a) THEN a[n] ELSE b[n - Len(a)]
        <4>1. a \in Seq(S) /\ b \in Seq(S)
          BY <3>1, <3>2
        <4>2. /\ a \o b \in Seq(S) /\ Len(a \o b) = Len(a) + Len(b)
              /\ \A n \in 1..Len(a \o b) : (a \o b)[n] = IF n <= Len(a) THEN a[n] ELSE b[n - Len(a)]
          BY <4>1, ConcatIs
        <4> QED BY <3>3, <4>2
      <3>5. ASSUME NEW n \in 1..Len(r) PROVE r[n] = IF n < at THEN seq[n] ELSE seq[n + 1]
        <4>1. CASE n < at
          BY <2>1, <3>1, <3>4, <4>1
        <4>2. CASE ~(n < at)
          <5>1. n - (at - 1) \in 1..(Len(seq) - at) /\ at + (n - (at - 1)) = n + 1 /\ ~(n <= at - 1)
            BY <2>1, <3>1, <3>2, <3>4, <4>2
          <5> QED BY <3>1, <3>2, <3>4, <4>2, <5>1
        <4> QED BY <4>1, <4>2
      <3> QED BY <2>1, <3>1, <3>2, <3>4, <3>5
    <2>4. \A n \in 1..Len(r) : r[n] # u
      BY <2>1, <2>3
    <2>5. ASSUME NEW i \in 1..Len(seq), seq[i] # u PROVE \E n \in 1..Len(r) : r[n] = seq[i]
      <3>1. CASE i < at
        BY <2>1, <2>3, <3>1
      <3>2. CASE i > at
        <4>1. i - 1 \in 1..Len(r) /\ ~(i - 1 < at) /\ (i - 1) + 1 = i
          BY <2>1, <2>3, <3>2
        <4> QED BY <2>3, <4>1
      <3> QED BY <2>1, <2>5, <3>1, <3>2
    <2>6. \A n \in 1..Len(r) : \E i \in 1..Len(seq) : r[n] = seq[i]
      BY <2>1, <2>3
    <2>7. ASSUME NEW m \in 1..Len(r), NEW n \in 1..Len(r), m < n
          PROVE  \E i, j \in 1..Len(seq) : i < j /\ r[m] = seq[i] /\ r[n] = seq[j]
      <3> DEFINE i == IF m < at THEN m ELSE m + 1
                 j == IF n < at THEN n ELSE n + 1
      <3>1. i \in 1..Len(seq) /\ j \in 1..Len(seq) /\ i < j
        BY <2>1, <2>3, <2>7
      <3>2. r[m] = seq[i] /\ r[n] = seq[j]
        BY <2>3
      <3> QED BY <3>1, <3>2
    <2> QED BY <2>3, <2>4, <2>5, <2>6, <2>7 DEF r
  <1>2. CASE ~(\E n \in 1..Len(seq) : seq[n] = u)
    BY <1>2 DEF Unlink
  <1> QED BY <1>1, <1>2

LEMMA Distinct ==
  ASSUME NEW ws, NEW seq, NEW g, CacheOK(ws, seq, g)
  PROVE  \A m, n \in 1..Len(seq) : m < n => seq[m] # seq[n]
  <1>1. \A u \in DOMAIN ws : ws[u].gen \in Nat
    BY DEF CacheOK, Info
  <1> QED BY <1>1 DEF CacheOK, Ordered

\* A worker that changes gets the highest generation and the head of the list.
LEMMA ToHead ==
  ASSUME NEW ws, NEW seq, NEW g, CacheOK(ws, seq, g), NEW u \in Workers,
         NEW info \in Info(g + 1), info.gen = g + 1
  PROVE  CacheOK(With(ws, u, info), <<u>> \o Unlink(seq, u), g + 1)
  <1> DEFINE nws == With(ws, u, info)
             r == Unlink(seq, u)
             l == <<u>> \o r
  <1>0. /\ seq \in Seq(Workers) /\ g \in Nat /\ DOMAIN ws \subseteq Workers
        /\ \A v \in DOMAIN ws : ws[v] \in Info(g)
    BY DEF CacheOK
  <1>1. DOMAIN nws = DOMAIN ws \cup {u} /\ nws[u] = info /\ \A v \in DOMAIN ws \ {u} : nws[v] = ws[v]
    BY DEF With
  <1>2. \A i \in Info(g) : i \in Info(g + 1) /\ i.gen \in 1..g
    BY <1>0 DEF Info
  <1>3. nws \in [DOMAIN nws -> Info(g + 1)]
    <2>1. nws = [v \in DOMAIN ws \cup {u} |-> IF v = u THEN info ELSE ws[v]]
      BY DEF With
    <2> QED BY <1>0, <1>1, <1>2, <2>1
  <1>4. /\ r \in Seq(Workers)
        /\ \A n \in 1..Len(r) : r[n] # u
        /\ \A i \in 1..Len(seq) : seq[i] # u => \E n \in 1..Len(r) : r[n] = seq[i]
        /\ \A n \in 1..Len(r) : \E i \in 1..Len(seq) : r[n] = seq[i]
        /\ \A m, n \in 1..Len(r) : m < n =>
             \E i, j \in 1..Len(seq) : i < j /\ r[m] = seq[i] /\ r[n] = seq[j]
    BY <1>0, Distinct, UnlinkIs
  <1> HIDE DEF r, nws
  <1>5. /\ l \in Seq(Workers) /\ Len(l) = Len(r) + 1 /\ l[1] = u /\ Len(r) \in Nat
        /\ \A n \in 1..Len(r) : l[n + 1] = r[n]
    BY <1>4
  <1> HIDE DEF l
  <1>6. \A n \in 1..Len(l) : n = 1 \/ (n - 1 \in 1..Len(r) /\ l[n] = r[n - 1])
    BY <1>5
  <1>7. \A n \in 1..Len(r) : r[n] \in DOMAIN ws \ {u}
    BY <1>4 DEF CacheOK, Ordered
  <1>8. \A n \in 1..Len(l) : l[n] \in DOMAIN nws
    BY <1>1, <1>5, <1>6, <1>7
  <1>9. ASSUME NEW v \in DOMAIN nws PROVE \E n \in 1..Len(l) : l[n] = v
    <2>1. CASE v = u
      BY <1>5, <2>1
    <2>2. CASE v # u
      <3>1. PICK i \in 1..Len(seq) : seq[i] = v
        BY <1>1, <2>2 DEF CacheOK, Ordered
      <3>2. PICK n \in 1..Len(r) : r[n] = v
        BY <1>4, <2>2, <3>1
      <3> QED BY SMTT(30), <1>5, <3>2
    <2> QED BY <2>1, <2>2
  <1>10. ASSUME NEW m \in 1..Len(l), NEW n \in 1..Len(l), m < n PROVE nws[l[m]].gen > nws[l[n]].gen
    <2>1. n - 1 \in 1..Len(r) /\ l[n] = r[n - 1] /\ r[n - 1] \in DOMAIN ws \ {u}
      BY <1>5, <1>6, <1>7, <1>10
    <2>2. nws[l[n]] = ws[r[n - 1]] /\ ws[r[n - 1]].gen \in 1..g
      BY <1>0, <1>1, <1>2, <2>1
    <2>3. CASE m = 1
      BY <1>0, <1>1, <1>5, <2>2, <2>3
    <2>4. CASE m # 1
      <3>1. m - 1 \in 1..Len(r) /\ l[m] = r[m - 1]
        BY <1>6, <2>4
      <3>2. r[m - 1] \in DOMAIN ws \ {u} /\ m - 1 < n - 1
        BY <1>5, <1>7, <1>10, <3>1
      <3>3. PICK i \in 1..Len(seq), j \in 1..Len(seq) :
              i < j /\ r[m - 1] = seq[i] /\ r[n - 1] = seq[j]
        BY <1>4, <2>1, <3>1, <3>2
      <3>4. ws[seq[i]].gen > ws[seq[j]].gen
        BY <3>3 DEF CacheOK, Ordered
      <3> QED BY <1>1, <2>2, <3>1, <3>2, <3>3, <3>4
    <2> QED BY <2>3, <2>4
  <1>11. DOMAIN nws \subseteq Workers
    BY <1>0, <1>1
  <1>12. CacheOK(nws, l, g + 1)
    BY <1>0, <1>3, <1>5, <1>8, <1>9, <1>10, <1>11 DEF CacheOK, Ordered
  <1> QED BY <1>12 DEF nws, r, l

\* A worker that goes leaves the list and the map.
LEMMA Dropped ==
  ASSUME NEW ws, NEW seq, NEW g, CacheOK(ws, seq, g), NEW u
  PROVE  CacheOK(Without(ws, {u}), Unlink(seq, u), g + 1)
  <1> DEFINE nws == Without(ws, {u})
             r == Unlink(seq, u)
  <1>0. /\ seq \in Seq(Workers) /\ g \in Nat /\ DOMAIN ws \subseteq Workers
        /\ \A v \in DOMAIN ws : ws[v] \in Info(g)
    BY DEF CacheOK
  <1>1. DOMAIN nws = DOMAIN ws \ {u} /\ \A v \in DOMAIN ws \ {u} : nws[v] = ws[v]
    BY DEF Without
  <1>2. \A i \in Info(g) : i \in Info(g + 1)
    BY <1>0 DEF Info
  <1>3. nws \in [DOMAIN nws -> Info(g + 1)]
    <2>1. nws = [v \in DOMAIN ws \ {u} |-> ws[v]]
      BY DEF Without
    <2> QED BY <1>0, <1>1, <1>2, <2>1
  <1>4. /\ r \in Seq(Workers)
        /\ \A n \in 1..Len(r) : r[n] # u
        /\ \A i \in 1..Len(seq) : seq[i] # u => \E n \in 1..Len(r) : r[n] = seq[i]
        /\ \A n \in 1..Len(r) : \E i \in 1..Len(seq) : r[n] = seq[i]
        /\ \A m, n \in 1..Len(r) : m < n =>
             \E i, j \in 1..Len(seq) : i < j /\ r[m] = seq[i] /\ r[n] = seq[j]
    BY <1>0, Distinct, UnlinkIs
  <1> HIDE DEF r, nws
  <1>5. \A n \in 1..Len(r) : r[n] \in DOMAIN nws /\ nws[r[n]] = ws[r[n]]
    BY <1>1, <1>4 DEF CacheOK, Ordered
  <1>6. \A v \in DOMAIN nws : \E n \in 1..Len(r) : r[n] = v
    BY <1>1, <1>4 DEF CacheOK, Ordered
  <1>7. ASSUME NEW m \in 1..Len(r), NEW n \in 1..Len(r), m < n PROVE nws[r[m]].gen > nws[r[n]].gen
    <2>1. PICK i \in 1..Len(seq), j \in 1..Len(seq) : i < j /\ r[m] = seq[i] /\ r[n] = seq[j]
      BY <1>4, <1>7
    <2>2. ws[seq[i]].gen > ws[seq[j]].gen
      BY <2>1 DEF CacheOK, Ordered
    <2> QED BY <1>5, <2>1, <2>2
  <1>8. DOMAIN nws \subseteq Workers
    BY <1>0, <1>1
  <1>9. CacheOK(nws, r, g + 1)
    BY <1>0, <1>3, <1>4, <1>5, <1>6, <1>7, <1>8 DEF CacheOK, Ordered
  <1> QED BY <1>9 DEF nws, r

----------------------------------------------------------------------------
(* Stages and workers *)

\* The stages of the workers are those of st, stage -> worker.
Match(ws, st) ==
  /\ \A u \in DOMAIN ws : \A s \in Stages :
       s \in ws[u].stages <=> (s \in DOMAIN st /\ st[s] = u)
  /\ \A u \in DOMAIN ws : ws[u].live \/ ws[u].stages # {}
  /\ \A s \in DOMAIN st : st[s] \in DOMAIN ws

Live(ws) == {u \in DOMAIN ws : ws[u].live}

\* From c to d, workers that were not given a new generation are as they were.
Newer(c, d) ==
  /\ c.generation <= d.generation
  /\ \A u \in DOMAIN d.workers : d.workers[u].gen <= c.generation =>
       u \in DOMAIN c.workers /\ d.workers[u] = c.workers[u]

\* Matching does not depend on more than the values of st.
LEMMA MatchSame ==
  ASSUME NEW ws, NEW st, NEW tt, Match(ws, st), DOMAIN tt = DOMAIN st,
         \A s \in DOMAIN st : tt[s] = st[s]
  PROVE  Match(ws, tt)
  BY DEF Match

\* A changed worker at the head of the list.
LEMMA SetToHead ==
  ASSUME NEW c, OK(c), NEW u \in Workers, NEW live \in BOOLEAN, NEW stages \in SUBSET Stages
  PROVE  LET d == moveWorkerInfoToHead(SetInfo(c, u, live, stages), u)
         IN /\ OK(d) /\ Newer(c, d)
            /\ d = SetInfo(moveWorkerInfoToHead(c, u), u, live, stages)
            /\ DOMAIN d.workers = DOMAIN c.workers \cup {u}
            /\ d.workers[u].live = live /\ d.workers[u].stages = stages
            /\ \A v \in DOMAIN c.workers \ {u} : d.workers[v] = c.workers[v]
  <1> DEFINE info == [live |-> live, stages |-> stages, gen |-> c.generation + 1]
             ws == With(c.workers, u, info)
             l == <<u>> \o Unlink(c.list, u)
             d == moveWorkerInfoToHead(SetInfo(c, u, live, stages), u)
             e == [workers |-> ws, list |-> l, generation |-> c.generation + 1]
  <1>0. /\ CacheOK(c.workers, c.list, c.generation) /\ c.generation \in Nat
    BY DEF OK, CacheOK
  <1>1. d = e /\ d = SetInfo(moveWorkerInfoToHead(c, u), u, live, stages)
    BY DEF moveWorkerInfoToHead, SetInfo
  <1>2. info \in Info(c.generation + 1) /\ info.gen = c.generation + 1
    BY <1>0 DEF Info
  <1>3. info.live = live /\ info.stages = stages
    OBVIOUS
  <1> HIDE DEF info
  <1>4. CacheOK(ws, l, c.generation + 1)
    BY <1>0, <1>2, ToHead
  <1>5. DOMAIN ws = DOMAIN c.workers \cup {u} /\ ws[u] = info /\ \A v \in DOMAIN c.workers \ {u} : ws[v] = c.workers[v]
    BY DEF With
  <1> HIDE DEF ws, l
  <1>6. e.workers = ws /\ e.list = l /\ e.generation = c.generation + 1
    OBVIOUS
  <1>7. OK(e)
    BY <1>4, <1>6 DEF OK
  <1>8. Newer(c, e)
    BY <1>0, <1>2, <1>5, <1>6 DEF Newer
  <1> HIDE DEF d, e
  <1>9. /\ DOMAIN e.workers = DOMAIN c.workers \cup {u}
        /\ e.workers[u].live = live /\ e.workers[u].stages = stages
        /\ \A v \in DOMAIN c.workers \ {u} : e.workers[v] = c.workers[v]
    BY <1>3, <1>5, <1>6
  <1> QED BY <1>1, <1>7, <1>8, <1>9 DEF d

\* A worker that goes.
LEMMA SetAndRemove ==
  ASSUME NEW c, OK(c), NEW u \in DOMAIN c.workers, NEW live, NEW stages
  PROVE  LET d == removeWorkerInfoFromList(SetInfo(c, u, live, stages), u)
         IN /\ OK(d) /\ Newer(c, d)
            /\ DOMAIN d.workers = DOMAIN c.workers \ {u}
            /\ \A v \in DOMAIN c.workers \ {u} : d.workers[v] = c.workers[v]
  <1> DEFINE info == [live |-> live, stages |-> stages, gen |-> c.generation + 1]
             ws == Without(c.workers, {u})
             l == Unlink(c.list, u)
             d == removeWorkerInfoFromList(SetInfo(c, u, live, stages), u)
             e == [workers |-> ws, list |-> l, generation |-> c.generation + 1]
  <1>0. /\ CacheOK(c.workers, c.list, c.generation) /\ c.generation \in Nat
    BY DEF OK, CacheOK
  <1>1. Without(With(c.workers, u, info), {u}) = ws
    BY DEF With, Without
  <1>2. d = e
    BY <1>1 DEF removeWorkerInfoFromList, SetInfo
  <1>3. CacheOK(ws, l, c.generation + 1)
    BY <1>0, Dropped
  <1>4. DOMAIN ws = DOMAIN c.workers \ {u} /\ \A v \in DOMAIN c.workers \ {u} : ws[v] = c.workers[v]
    BY DEF Without
  <1> HIDE DEF ws, l
  <1>5. e.workers = ws /\ e.list = l /\ e.generation = c.generation + 1
    OBVIOUS
  <1>6. OK(e)
    BY <1>3, <1>5 DEF OK
  <1>7. Newer(c, e)
    BY <1>0, <1>4, <1>5 DEF Newer
  <1> HIDE DEF d, e
  <1>8. /\ DOMAIN e.workers = DOMAIN c.workers \ {u}
        /\ \A v \in DOMAIN c.workers \ {u} : e.workers[v] = c.workers[v]
    BY <1>4, <1>5
  <1> QED BY <1>2, <1>6, <1>7, <1>8 DEF d

LEMMA NewerTrans ==
  ASSUME NEW c, OK(c), NEW d, OK(d), NEW e, OK(e), Newer(c, d), Newer(d, e)
  PROVE  Newer(c, e)
  <1>1. /\ c.generation \in Nat /\ d.generation \in Nat /\ e.generation \in Nat
        /\ \A u \in DOMAIN e.workers : e.workers[u].gen \in Nat
    BY DEF OK, CacheOK, Info
  <1> QED BY <1>1 DEF Newer

\* addStage to a worker, for a stage that is on none.
LEMMA AddStageTo ==
  ASSUME NEW c, OK(c), NEW st, Match(c.workers, st), DOMAIN st \subseteq Stages,
         NEW s \in Stages, s \notin DOMAIN st, NEW u \in Workers
  PROVE  LET d == addStageTo(c, s, u)
         IN /\ OK(d) /\ Newer(c, d) /\ Match(d.workers, With(st, s, u))
            /\ Live(d.workers) = Live(c.workers)
  <1> DEFINE i == InfoOf(c, u)
             d == addStageTo(c, s, u)
             tt == With(st, s, u)
  <1>1. i.live \in BOOLEAN /\ i.stages \in SUBSET Stages
    BY DEF InfoOf, OK, CacheOK, Info
  <1>2. u \in DOMAIN c.workers => i = c.workers[u]
    BY DEF InfoOf
  <1>3. u \notin DOMAIN c.workers => i.live = FALSE /\ i.stages = {}
    BY DEF InfoOf
  <1>4. d = moveWorkerInfoToHead(SetInfo(c, u, i.live, i.stages \cup {s}), u)
    BY DEF addStageTo
  <1>5. DOMAIN tt = DOMAIN st \cup {s} /\ tt[s] = u /\ \A x \in DOMAIN st : tt[x] = st[x]
    BY DEF With
  <1> HIDE DEF i, d, tt
  <1>6. i.stages \cup {s} \in SUBSET Stages
    BY <1>1
  <1>7. /\ OK(d) /\ Newer(c, d)
        /\ DOMAIN d.workers = DOMAIN c.workers \cup {u}
        /\ d.workers[u].live = i.live /\ d.workers[u].stages = i.stages \cup {s}
        /\ \A v \in DOMAIN c.workers \ {u} : d.workers[v] = c.workers[v]
    BY <1>1, <1>4, <1>6, SetToHead
  <1>8. \A v \in DOMAIN d.workers : \A x \in Stages :
          x \in d.workers[v].stages <=> (x \in DOMAIN tt /\ tt[x] = v)
    <2>1. ASSUME NEW x \in Stages PROVE x \in i.stages <=> (x \in DOMAIN st /\ st[x] = u)
      <3>1. CASE u \in DOMAIN c.workers
        BY <1>2, <3>1 DEF Match
      <3>2. CASE u \notin DOMAIN c.workers
        BY <1>3, <3>2 DEF Match
      <3> QED BY <3>1, <3>2
    <2>2. \A x \in Stages : x \in d.workers[u].stages <=> (x \in DOMAIN tt /\ tt[x] = u)
      BY <1>5, <1>7, <2>1
    <2>3. ASSUME NEW v \in DOMAIN c.workers \ {u}, NEW x \in Stages
          PROVE  x \in d.workers[v].stages <=> (x \in DOMAIN tt /\ tt[x] = v)
      BY <1>5, <1>7 DEF Match
    <2> QED BY <1>7, <2>2, <2>3
  <1>9. \A v \in DOMAIN d.workers : d.workers[v].live \/ d.workers[v].stages # {}
    BY <1>7 DEF Match
  <1>10. \A x \in DOMAIN tt : tt[x] \in DOMAIN d.workers
    BY <1>5, <1>7 DEF Match
  <1>11. Live(d.workers) = Live(c.workers)
    BY <1>2, <1>3, <1>7 DEF Live
  <1>12. Match(d.workers, tt)
    BY <1>8, <1>9, <1>10 DEF Match
  <1> QED BY <1>7, <1>11, <1>12 DEF d, tt

\* removeStage from its worker, which goes too if it was deleted before.
LEMMA RemoveStageFrom ==
  ASSUME NEW c, OK(c), NEW st, Match(c.workers, st), DOMAIN st \subseteq Stages,
         NEW s \in DOMAIN st
  PROVE  LET d == removeStageFrom(c, s, st[s])
         IN /\ OK(d) /\ Newer(c, d) /\ Match(d.workers, Without(st, {s}))
            /\ Live(d.workers) = Live(c.workers)
  <1> DEFINE u == st[s]
             i == c.workers[u]
             d == removeStageFrom(c, s, u)
             tt == Without(st, {s})
  <1>1. u \in DOMAIN c.workers /\ u \in Workers /\ s \in Stages
    BY DEF Match, OK, CacheOK
  <1>2. i.live \in BOOLEAN /\ i.stages \ {s} \in SUBSET Stages
    BY <1>1 DEF OK, CacheOK, Info
  <1>3. DOMAIN tt = DOMAIN st \ {s} /\ \A x \in DOMAIN tt : tt[x] = st[x]
    BY DEF Without
  <1>4. \A x \in Stages : x \in i.stages \ {s} <=> (x \in DOMAIN tt /\ tt[x] = u)
    BY <1>1, <1>3 DEF Match
  <1> DEFINE e == SetInfo(c, u, i.live, i.stages \ {s})
  <1>5. e.workers[u].stages = i.stages \ {s} /\ e.workers[u].live = i.live
    <2>2. e.workers = With(c.workers, u, [live |-> i.live, stages |-> i.stages \ {s}, gen |-> c.generation + 1])
      BY DEF SetInfo
    <2> QED BY <2>2 DEF With
  <1>6. d = IF i.stages \ {s} = {} /\ ~i.live THEN removeWorkerInfoFromList(e, u)
            ELSE moveWorkerInfoToHead(e, u)
    BY <1>1, <1>5 DEF removeStageFrom
  <1>7. CASE i.stages \ {s} = {} /\ ~i.live
    <2>1. d = removeWorkerInfoFromList(SetInfo(c, u, i.live, i.stages \ {s}), u)
      BY <1>6, <1>7
    <2> HIDE DEF u, i, d, tt, e
    <2>2. /\ OK(d) /\ Newer(c, d)
          /\ DOMAIN d.workers = DOMAIN c.workers \ {u}
          /\ \A v \in DOMAIN c.workers \ {u} : d.workers[v] = c.workers[v]
      BY <1>1, <2>1, SetAndRemove
    <2>3. \A x \in DOMAIN tt : tt[x] # u
      BY <1>3, <1>4, <1>7
    <2>4. \A v \in DOMAIN d.workers : \A x \in Stages :
            x \in d.workers[v].stages <=> (x \in DOMAIN tt /\ tt[x] = v)
      BY <1>3, <2>2 DEF Match, u
    <2>5. Match(d.workers, tt)
      BY <1>3, <2>2, <2>3, <2>4 DEF Match
    <2>6. Live(d.workers) = Live(c.workers)
      BY <1>7, <2>2 DEF Live, i
    <2> QED BY <2>2, <2>5, <2>6 DEF d, tt, u
  <1>8. CASE ~(i.stages \ {s} = {} /\ ~i.live)
    <2>1. d = moveWorkerInfoToHead(SetInfo(c, u, i.live, i.stages \ {s}), u)
      BY <1>6, <1>8
    <2> DEFINE rest == i.stages \ {s}
    <2> HIDE DEF u, i, d, tt, e, rest
    <2>2. /\ OK(d) /\ Newer(c, d)
          /\ DOMAIN d.workers = DOMAIN c.workers \cup {u}
          /\ d.workers[u].live = i.live /\ d.workers[u].stages = rest
          /\ \A v \in DOMAIN c.workers \ {u} : d.workers[v] = c.workers[v]
      BY <1>1, <1>2, <2>1, SetToHead DEF rest
    <2>3. \A v \in DOMAIN d.workers \ {u} : \A x \in Stages :
            x \in d.workers[v].stages <=> (x \in DOMAIN tt /\ tt[x] = v)
      BY <1>3, <2>2 DEF Match, u
    <2>4. \A v \in DOMAIN d.workers : d.workers[v].live \/ d.workers[v].stages # {}
      BY <1>8, <2>2 DEF Match, rest
    <2>5. Match(d.workers, tt)
      BY <1>1, <1>3, <1>4, <2>2, <2>3, <2>4 DEF Match, rest
    <2>6. Live(d.workers) = Live(c.workers)
      BY <1>1, <2>2 DEF Live, i
    <2> QED BY <2>2, <2>5, <2>6 DEF d, tt, u
  <1> QED BY <1>7, <1>8
----------------------------------------------------------------------------
(* The inductive invariant *)

StagesOK == DOMAIN stageStates \subseteq Stages /\ assumedStages \subseteq DOMAIN stageStates

CacheInv ==
  /\ CacheOK(workers, list, generation) /\ generation <= MaxGeneration
  /\ Match(workers, stageStates)
  /\ Live(workers) = known /\ tree = Names(known) /\ known \subseteq Workers

AssumeArgs == [stage : Stages, worker : Workers]
Bindings == [stage : Stages, worker : Workers, pc : BindingPC]

RoutinesOK ==
  /\ assuming \in AssumeArgs \cup {NotAssuming}
  /\ binding \subseteq Bindings
  /\ informed \in [Stages -> Workers \cup {NoWorker}]

SnapshotOK ==
  /\ snapList \subseteq Names(Workers) /\ DOMAIN snapMap \subseteq Names(Workers)
  /\ snapErr \in BOOLEAN /\ snapGeneration \in 0..generation

CacheIInv == StagesOK /\ CacheInv /\ NeverExits /\ RoutinesOK /\ SnapshotOK

\* A step that leaves every worker it does not give a new generation alone.
Kept ==
  /\ generation <= generation'
  /\ \A u \in DOMAIN workers' : workers'[u].gen <= generation =>
       u \in DOMAIN workers /\ workers'[u] = workers[u]

\* The parts a step outside UpdateSnapshot may touch.
Part == CacheInv' /\ Kept /\ StagesOK' /\ NeverExits'

LEMMA CurrentIs ==
  Current.workers = workers /\ Current.list = list /\ Current.generation = generation
  BY DEF Current

LEMMA CurrentOK ==
  ASSUME CacheInv
  PROVE  OK(Current) /\ Match(Current.workers, stageStates) /\ Live(Current.workers) = known
  BY CurrentIs DEF CacheInv, OK

LEMMA CacheBecomes ==
  ASSUME CacheInv, NEW d, OK(d), Newer(Current, d), Becomes(d), Match(d.workers, stageStates'),
         Live(d.workers) = known', tree' = Names(known'), known' \subseteq Workers
  PROVE  CacheInv' /\ Kept
  <1>1. CacheOK(workers', list', generation')
    BY DEF OK, Becomes
  <1>2. Kept
    BY CurrentIs DEF Newer, Becomes, Kept
  <1> QED BY <1>1, <1>2 DEF CacheInv, Becomes

LEMMA CacheSame ==
  ASSUME CacheInv, UNCHANGED <<stageStates, workers, list, tree, generation, known>>
  PROVE  CacheInv' /\ Kept
  <1>1. CacheInv'
    BY DEF CacheInv
  <1>2. generation \in Nat
    BY DEF CacheInv, CacheOK
  <1> QED BY <1>1, <1>2 DEF Kept

LEMMA WithoutIs ==
  ASSUME NEW f, NEW S
  PROVE  DOMAIN Without(f, S) = DOMAIN f \ S /\ \A x \in DOMAIN f \ S : Without(f, S)[x] = f[x]
  BY DEF Without

\* A stage of the cache that is taken from its worker and given to u.
LEMMA Moved ==
  ASSUME NEW c, OK(c), NEW st, Match(c.workers, st), DOMAIN st \subseteq Stages,
         NEW s \in DOMAIN st, NEW u \in Workers
  PROVE  LET d == addStageTo(removeStageFrom(c, s, st[s]), s, u)
         IN /\ OK(d) /\ Newer(c, d) /\ Match(d.workers, With(st, s, u))
            /\ Live(d.workers) = Live(c.workers)
  <1> DEFINE e == removeStageFrom(c, s, st[s])
             tt == Without(st, {s})
             d == addStageTo(e, s, u)
  <1>1. OK(e) /\ Newer(c, e) /\ Match(e.workers, tt) /\ Live(e.workers) = Live(c.workers)
    BY RemoveStageFrom
  <1>2. DOMAIN tt = DOMAIN st \ {s} /\ \A x \in DOMAIN st \ {s} : tt[x] = st[x]
    BY WithoutIs
  <1>3. /\ DOMAIN With(tt, s, u) = DOMAIN With(st, s, u)
        /\ \A x \in DOMAIN With(tt, s, u) : With(st, s, u)[x] = With(tt, s, u)[x]
    <2> HIDE DEF tt
    <2> QED BY <1>2 DEF With
  <1> HIDE DEF e, tt
  <1>4. OK(d) /\ Newer(e, d) /\ Match(d.workers, With(tt, s, u)) /\ Live(d.workers) = Live(e.workers)
    BY <1>1, <1>2, AddStageTo
  <1> HIDE DEF d
  <1>5. Match(d.workers, With(st, s, u))
    BY <1>3, <1>4, MatchSame
  <1>6. Newer(c, d)
    BY <1>1, <1>4, NewerTrans
  <1> QED BY <1>1, <1>4, <1>5, <1>6 DEF d, e

LEMMA AssumeUnlocksKeeps ==
  ASSUME CacheIInv, AssumeStageUnlocks
  PROVE  Part
  <1> DEFINE s == assuming.stage
             u == assuming.worker
  <1>1. s \in Stages /\ u \in Workers /\ UNCHANGED <<tree, known, informed>>
    BY DEF CacheIInv, RoutinesOK, AssumeArgs, AssumeStageUnlocks
  <1>2. CacheInv /\ StagesOK /\ NeverExits
    BY DEF CacheIInv
  <1>3. CASE UNCHANGED cache
    <2>1. CacheInv' /\ Kept
      BY <1>1, <1>2, <1>3, CacheSame DEF cache
    <2> QED BY <1>1, <1>2, <1>3, <2>1 DEF cache, Part, StagesOK, NeverExits
  <1>4. CASE /\ s \notin DOMAIN stageStates
             /\ Becomes(addStageTo(Current, s, u))
             /\ stageStates' = With(stageStates, s, u)
             /\ assumedStages' = assumedStages \cup {s}
    <2> DEFINE d == addStageTo(Current, s, u)
    <2>1. OK(Current) /\ Match(Current.workers, stageStates) /\ Live(Current.workers) = known
      BY <1>2, CurrentOK
    <2>2. OK(d) /\ Newer(Current, d) /\ Match(d.workers, With(stageStates, s, u)) /\ Live(d.workers) = known
      BY <1>1, <1>2, <1>4, <2>1, AddStageTo DEF StagesOK
    <2> HIDE DEF d
    <2>3. CacheInv' /\ Kept
      BY <1>1, <1>2, <1>4, <2>2, CacheBecomes DEF d, CacheInv
    <2>4. /\ DOMAIN stageStates' = DOMAIN stageStates \cup {s}
          /\ \A x \in DOMAIN stageStates : stageStates'[x] = stageStates[x]
      BY <1>4 DEF With
    <2>5. StagesOK' /\ NeverExits'
      BY <1>1, <1>2, <1>4, <2>4 DEF StagesOK, NeverExits
    <2> QED BY <2>3, <2>5 DEF Part
  <1> QED BY <1>3, <1>4 DEF AssumeStageUnlocks, cache

LEMMA ForgetKeeps ==
  ASSUME CacheIInv, NEW b \in binding, ForgetStage(b)
  PROVE  Part
  <1> DEFINE s == b.stage
  <1>1. s \in Stages /\ UNCHANGED <<tree, known, informed>>
    BY DEF CacheIInv, RoutinesOK, Bindings, ForgetStage
  <1>2. CacheInv /\ StagesOK /\ NeverExits
    BY DEF CacheIInv
  <1>3. CASE UNCHANGED cache
    <2>1. CacheInv' /\ Kept
      BY <1>1, <1>2, <1>3, CacheSame DEF cache
    <2> QED BY <1>1, <1>2, <1>3, <2>1 DEF cache, Part, StagesOK, NeverExits
  <1>4. CASE /\ s \in assumedStages /\ stageStates[s] = b.worker
             /\ Becomes(removeStageFrom(Current, s, b.worker))
             /\ stageStates' = Without(stageStates, {s})
             /\ assumedStages' = assumedStages \ {s}
    <2> DEFINE d == removeStageFrom(Current, s, stageStates[s])
    <2>1. OK(Current) /\ Match(Current.workers, stageStates) /\ Live(Current.workers) = known
      BY <1>2, CurrentOK
    <2>2. OK(d) /\ Newer(Current, d) /\ Match(d.workers, Without(stageStates, {s})) /\ Live(d.workers) = known
      BY <1>1, <1>2, <1>4, <2>1, RemoveStageFrom DEF StagesOK
    <2>3. Becomes(d)
      BY <1>4
    <2> HIDE DEF d
    <2>4. CacheInv' /\ Kept
      BY <1>1, <1>2, <1>4, <2>2, <2>3, CacheBecomes DEF CacheInv
    <2>5. /\ DOMAIN stageStates' = DOMAIN stageStates \ {s}
          /\ \A x \in DOMAIN stageStates \ {s} : stageStates'[x] = stageStates[x]
      BY <1>4 DEF Without
    <2>6. StagesOK' /\ NeverExits'
      BY <1>1, <1>2, <1>4, <2>5 DEF StagesOK, NeverExits
    <2> QED BY <2>4, <2>6 DEF Part
  <1> QED BY <1>3, <1>4 DEF ForgetStage, cache
LEMMA AddKeeps ==
  ASSUME CacheIInv, NEW s \in Stages, NEW u \in Workers, AddStage(s, u)
  PROVE  Part
  <1>1. /\ informed[s] = NoWorker /\ informed' = [informed EXCEPT ![s] = u]
        /\ informed \in [Stages -> Workers \cup {NoWorker}] /\ UNCHANGED <<tree, known>>
    BY DEF CacheIInv, RoutinesOK, AddStage
  <1>2. CacheInv /\ StagesOK /\ NeverExits
    BY DEF CacheIInv
  <1>3. s \in assumedStages \/ s \notin DOMAIN stageStates
    BY <1>1, <1>2 DEF NeverExits
  <1>4. informed'[s] = u /\ \A x \in Stages \ {s} : informed'[x] = informed[x]
    BY <1>1
  <1>5. OK(Current) /\ Match(Current.workers, stageStates) /\ Live(Current.workers) = known
    BY <1>2, CurrentOK
  <1>6. ASSUME NEW d, OK(d), Newer(Current, d), Match(d.workers, With(stageStates, s, u)),
               Live(d.workers) = known, Becomes(d), stageStates' = With(stageStates, s, u),
               assumedStages' = assumedStages \ {s}
        PROVE  Part
    <2>1. CacheInv' /\ Kept
      BY <1>1, <1>2, <1>6, CacheBecomes DEF CacheInv
    <2>2. /\ DOMAIN stageStates' = DOMAIN stageStates \cup {s} /\ stageStates'[s] = u
          /\ \A x \in DOMAIN stageStates \ {s} : stageStates'[x] = stageStates[x]
      BY <1>6 DEF With
    <2>3. StagesOK' /\ NeverExits'
      <3>1. StagesOK'
        BY <1>2, <1>6, <2>2 DEF StagesOK
      <3>2. \A x \in Stages \ {s} : x \in assumedStages' <=> x \in assumedStages
        BY <1>6
      <3>3. s \in DOMAIN stageStates' /\ s \notin assumedStages' /\ stageStates'[s] = informed'[s]
            /\ informed'[s] # NoWorker
        BY <1>4, <1>6, <2>2, SchedulerCacheAssumption
      <3>4. \A x \in Stages \ {s} : x \in DOMAIN stageStates' <=> x \in DOMAIN stageStates
        BY <2>2
      <3>5. NeverExits'
        BY <1>2, <1>4, <2>2, <3>2, <3>3, <3>4 DEF NeverExits
      <3> QED BY <3>1, <3>5
    <2> QED BY <2>1, <2>3 DEF Part
  <1>7. CASE /\ s \in assumedStages /\ stageStates[s] = u
             /\ assumedStages' = assumedStages \ {s}
             /\ UNCHANGED <<stageStates, workers, list, generation>>
    <2>1. CacheInv' /\ Kept
      BY <1>1, <1>2, <1>7, CacheSame
    <2>2. informed'[s] # NoWorker
      BY <1>4, SchedulerCacheAssumption
    <2>3. StagesOK'
      BY <1>2, <1>7 DEF StagesOK
    <2>4. NeverExits'
      BY <1>2, <1>4, <1>7, <2>2 DEF NeverExits, StagesOK
    <2> QED BY <2>1, <2>3, <2>4 DEF Part
  <1>8. CASE /\ s \in assumedStages
             /\ Becomes(addStageTo(removeStageFrom(Current, s, stageStates[s]), s, u))
             /\ stageStates' = With(stageStates, s, u)
             /\ assumedStages' = assumedStages \ {s}
    <2> DEFINE d == addStageTo(removeStageFrom(Current, s, stageStates[s]), s, u)
    <2>1. OK(d) /\ Newer(Current, d) /\ Match(d.workers, With(stageStates, s, u)) /\ Live(d.workers) = known
      BY <1>2, <1>5, <1>8, Moved DEF StagesOK
    <2> HIDE DEF d
    <2> QED BY <1>6, <1>8, <2>1 DEF d
  <1>9. CASE /\ s \notin DOMAIN stageStates
             /\ Becomes(addStageTo(Current, s, u))
             /\ stageStates' = With(stageStates, s, u)
             /\ UNCHANGED assumedStages
    <2> DEFINE d == addStageTo(Current, s, u)
    <2>1. OK(d) /\ Newer(Current, d) /\ Match(d.workers, With(stageStates, s, u)) /\ Live(d.workers) = known
      BY <1>2, <1>5, <1>9, AddStageTo DEF StagesOK
    <2>2. assumedStages' = assumedStages \ {s}
      BY <1>2, <1>9 DEF StagesOK
    <2> HIDE DEF d
    <2> QED BY <1>6, <1>9, <2>1, <2>2 DEF d
  <1> QED BY <1>3, <1>7, <1>8, <1>9 DEF AddStage

LEMMA UpdateKeeps ==
  ASSUME CacheIInv, NEW s \in Stages, UpdateStage(s)
  PROVE  Part
  <1> DEFINE u == informed[s]
  <1>1. /\ u \in Workers /\ UNCHANGED <<assumedStages, stageStates, tree, known, informed>>
    BY DEF CacheIInv, RoutinesOK, UpdateStage
  <1>2. CacheInv /\ StagesOK /\ NeverExits
    BY DEF CacheIInv
  <1>3. StagesOK' /\ NeverExits'
    BY <1>1, <1>2 DEF StagesOK, NeverExits
  <1>4. CASE UNCHANGED <<workers, list, generation>>
    <2>1. CacheInv' /\ Kept
      BY <1>1, <1>2, <1>4, CacheSame
    <2> QED BY <1>3, <2>1 DEF Part
  <1>5. CASE /\ s \in DOMAIN stageStates /\ stageStates[s] = u
             /\ Becomes(addStageTo(removeStageFrom(Current, s, u), s, u))
    <2> DEFINE d == addStageTo(removeStageFrom(Current, s, stageStates[s]), s, u)
    <2>1. OK(Current) /\ Match(Current.workers, stageStates) /\ Live(Current.workers) = known
      BY <1>2, CurrentOK
    <2>2. OK(d) /\ Newer(Current, d) /\ Match(d.workers, With(stageStates, s, u)) /\ Live(d.workers) = known
      BY <1>1, <1>2, <1>5, <2>1, Moved DEF StagesOK
    <2>3. Becomes(d)
      BY <1>5
    <2>4. DOMAIN With(stageStates, s, u) = DOMAIN stageStates
          /\ \A x \in DOMAIN With(stageStates, s, u) : stageStates[x] = With(stageStates, s, u)[x]
      BY <1>5 DEF With
    <2> HIDE DEF d, u
    <2>5. Match(d.workers, stageStates')
      BY <1>1, <2>2, <2>4, MatchSame
    <2>6. CacheInv' /\ Kept
      BY <1>1, <1>2, <2>2, <2>3, <2>5, CacheBecomes DEF CacheInv
    <2> QED BY <1>3, <2>6 DEF Part
  <1> QED BY <1>4, <1>5 DEF UpdateStage

LEMMA RemoveKeeps ==
  ASSUME CacheIInv, NEW s \in Stages, RemoveStage(s)
  PROVE  Part
  <1>1. /\ informed[s] # NoWorker /\ informed' = [informed EXCEPT ![s] = NoWorker]
        /\ informed \in [Stages -> Workers \cup {NoWorker}] /\ UNCHANGED <<tree, known>>
    BY DEF CacheIInv, RoutinesOK, RemoveStage
  <1>2. CacheInv /\ StagesOK /\ NeverExits
    BY DEF CacheIInv
  <1>3. s \in DOMAIN stageStates /\ stageStates[s] = informed[s]
    BY <1>1, <1>2 DEF NeverExits
  <1>4. informed'[s] = NoWorker /\ \A x \in Stages \ {s} : informed'[x] = informed[x]
    BY <1>1
  <1>5. /\ Becomes(removeStageFrom(Current, s, stageStates[s]))
        /\ stageStates' = Without(stageStates, {s})
        /\ assumedStages' = assumedStages \ {s}
    BY <1>3 DEF RemoveStage
  <1> DEFINE d == removeStageFrom(Current, s, stageStates[s])
  <1>6. OK(Current) /\ Match(Current.workers, stageStates) /\ Live(Current.workers) = known
    BY <1>2, CurrentOK
  <1>7. OK(d) /\ Newer(Current, d) /\ Match(d.workers, Without(stageStates, {s})) /\ Live(d.workers) = known
    BY <1>2, <1>3, <1>6, RemoveStageFrom DEF StagesOK
  <1> HIDE DEF d
  <1>8. CacheInv' /\ Kept
    BY <1>1, <1>2, <1>5, <1>7, CacheBecomes DEF CacheInv, d
  <1>9. /\ DOMAIN stageStates' = DOMAIN stageStates \ {s}
        /\ \A x \in DOMAIN stageStates \ {s} : stageStates'[x] = stageStates[x]
    BY <1>5 DEF Without
  <1>10. StagesOK' /\ NeverExits'
    BY <1>2, <1>4, <1>5, <1>9 DEF StagesOK, NeverExits
  <1> QED BY <1>8, <1>10 DEF Part
LEMMA SetWorkerKeeps ==
  ASSUME CacheIInv, NEW u \in Workers, AddWorker(u) \/ UpdateWorker(u)
  PROVE  Part
  <1> DEFINE i == InfoOf(Current, u)
             d == moveWorkerInfoToHead(SetInfo(Current, u, TRUE, i.stages), u)
  <1>1. known' = known \cup {u} /\ SetWorker(u)
    BY DEF AddWorker, UpdateWorker
  <1>2. CacheInv /\ StagesOK /\ NeverExits
    BY DEF CacheIInv
  <1>3. OK(Current) /\ Match(Current.workers, stageStates) /\ Live(Current.workers) = known
    BY <1>2, CurrentOK
  <1>4. i.stages \in SUBSET Stages
    BY <1>3 DEF InfoOf, OK, CacheOK, Info
  <1>5. u \in DOMAIN Current.workers => i = Current.workers[u]
    BY DEF InfoOf
  <1>6. u \notin DOMAIN Current.workers => i.stages = {}
    BY DEF InfoOf
  <1> DEFINE e == SetInfo(moveWorkerInfoToHead(Current, u), u, TRUE, i.stages)
  <1>7. Becomes(e) /\ tree' = tree \cup {NameOf[u]} /\ UNCHANGED <<assumedStages, stageStates, informed>>
    BY <1>1 DEF SetWorker
  <1>8. d = e
    BY DEF moveWorkerInfoToHead, SetInfo
  <1> DEFINE S == i.stages
  <1>9. /\ OK(d) /\ Newer(Current, d)
        /\ DOMAIN d.workers = DOMAIN Current.workers \cup {u}
        /\ d.workers[u].live = TRUE /\ d.workers[u].stages = S
        /\ \A v \in DOMAIN Current.workers \ {u} : d.workers[v] = Current.workers[v]
    <2> HIDE DEF S
    <2> DEFINE yes == TRUE
    <2>1. /\ S \in SUBSET Stages /\ yes \in BOOLEAN
          /\ d = moveWorkerInfoToHead(SetInfo(Current, u, yes, S), u)
      BY <1>4 DEF S
    <2> HIDE DEF d, yes
    <2>2. /\ OK(d) /\ Newer(Current, d)
          /\ DOMAIN d.workers = DOMAIN Current.workers \cup {u}
          /\ d.workers[u].live = yes /\ d.workers[u].stages = S
          /\ \A v \in DOMAIN Current.workers \ {u} : d.workers[v] = Current.workers[v]
      BY <1>3, <2>1, SetToHead
    <2> QED BY <2>2 DEF yes
  <1>10. Becomes(d)
    BY <1>7, <1>8
  <1> HIDE DEF d, e, i, S
  <1>11. Live(d.workers) = known \cup {u}
    BY <1>3, <1>9 DEF Live
  <1>12. Match(d.workers, stageStates)
    <2>1. ASSUME NEW x \in Stages PROVE x \in S <=> (x \in DOMAIN stageStates /\ stageStates[x] = u)
      <3>1. CASE u \in DOMAIN Current.workers
        BY <1>3, <1>5, <3>1 DEF Match, S
      <3>2. CASE u \notin DOMAIN Current.workers
        BY <1>3, <1>6, <3>2 DEF Match, S
      <3> QED BY <3>1, <3>2
    <2>2. \A v \in DOMAIN d.workers : \A x \in Stages :
            x \in d.workers[v].stages <=> (x \in DOMAIN stageStates /\ stageStates[x] = v)
      BY <1>3, <1>9, <2>1 DEF Match
    <2>3. \A v \in DOMAIN d.workers : d.workers[v].live \/ d.workers[v].stages # {}
      BY <1>3, <1>9 DEF Match
    <2> QED BY <1>3, <1>9, <2>2, <2>3 DEF Match
  <1>13. tree' = Names(known')
    BY <1>1, <1>2, <1>7 DEF CacheInv, Names
  <1>14. CacheInv' /\ Kept
    BY <1>1, <1>2, <1>7, <1>9, <1>10, <1>11, <1>12, <1>13, CacheBecomes DEF CacheInv
  <1>15. StagesOK' /\ NeverExits'
    BY <1>2, <1>7 DEF StagesOK, NeverExits
  <1> QED BY <1>14, <1>15 DEF Part

LEMMA RemoveWorkerKeeps ==
  ASSUME CacheIInv, NEW u \in Workers, RemoveWorker(u)
  PROVE  Part
  <1> DEFINE S == workers[u].stages
             no == FALSE
             a == removeWorkerInfoFromList(SetInfo(Current, u, no, S), u)
             b == moveWorkerInfoToHead(SetInfo(Current, u, no, S), u)
  <1>1. /\ u \in known /\ known' = known \ {u} /\ tree' = tree \ {NameOf[u]}
        /\ UNCHANGED <<assumedStages, stageStates, informed>>
        /\ Becomes(IF S = {} THEN a ELSE b)
    BY DEF RemoveWorker
  <1>2. CacheInv /\ StagesOK /\ NeverExits
    BY DEF CacheIInv
  <1>3. OK(Current) /\ Match(Current.workers, stageStates) /\ Live(Current.workers) = known
    BY <1>2, CurrentOK
  <1>4. u \in DOMAIN Current.workers /\ S \in SUBSET Stages /\ S = Current.workers[u].stages
    BY <1>1, <1>2, <1>3, CurrentIs DEF Live, OK, CacheOK, Info
  <1>0. no \in BOOLEAN /\ ~no
    OBVIOUS
  <1> HIDE DEF S, no
  <1>5. tree' = Names(known')
    <2>1. tree = Names(known) /\ known \subseteq Workers
      BY <1>2 DEF CacheInv
    <2> QED BY <1>1, <2>1, SchedulerCacheAssumption DEF Names
  <1>6. \A x \in Stages : x \in S <=> (x \in DOMAIN stageStates /\ stageStates[x] = u)
    BY <1>3, <1>4 DEF Match
  <1>7. StagesOK' /\ NeverExits'
    BY <1>1, <1>2 DEF StagesOK, NeverExits
  <1>8. CASE S = {}
    <2>1. OK(a) /\ Newer(Current, a) /\ DOMAIN a.workers = DOMAIN Current.workers \ {u}
          /\ \A v \in DOMAIN Current.workers \ {u} : a.workers[v] = Current.workers[v]
      BY <1>3, <1>4, SetAndRemove
    <2>2. Becomes(a)
      BY <1>1, <1>8
    <2> HIDE DEF a
    <2>3. Live(a.workers) = known \ {u}
      BY <1>3, <2>1 DEF Live
    <2>4. \A x \in DOMAIN stageStates : stageStates[x] # u
      BY <1>2, <1>6, <1>8 DEF StagesOK
    <2>5. Match(a.workers, stageStates)
      BY <1>3, <2>1, <2>4 DEF Match
    <2>6. CacheInv' /\ Kept
      BY <1>1, <1>2, <1>5, <2>1, <2>2, <2>3, <2>5, CacheBecomes DEF CacheInv
    <2> QED BY <1>7, <2>6 DEF Part
  <1>9. CASE S # {}
    <2>1. /\ OK(b) /\ Newer(Current, b) /\ DOMAIN b.workers = DOMAIN Current.workers \cup {u}
          /\ b.workers[u].live = no /\ b.workers[u].stages = S
          /\ \A v \in DOMAIN Current.workers \ {u} : b.workers[v] = Current.workers[v]
      BY <1>0, <1>3, <1>4, SetToHead
    <2>2. Becomes(b)
      BY <1>1, <1>9
    <2> HIDE DEF b
    <2>3. Live(b.workers) = known \ {u}
      BY <1>0, <1>3, <1>4, <2>1 DEF Live
    <2>4. \A v \in DOMAIN b.workers : \A x \in Stages :
            x \in b.workers[v].stages <=> (x \in DOMAIN stageStates /\ stageStates[x] = v)
      BY <1>3, <1>6, <2>1 DEF Match
    <2>5. \A v \in DOMAIN b.workers : b.workers[v].live \/ b.workers[v].stages # {}
      BY <1>3, <1>9, <2>1 DEF Match
    <2>6. Match(b.workers, stageStates)
      BY <1>3, <2>1, <2>4, <2>5 DEF Match
    <2>7. CacheInv' /\ Kept
      BY <1>1, <1>2, <1>5, <2>1, <2>2, <2>3, <2>6, CacheBecomes DEF CacheInv
    <2> QED BY <1>7, <2>7 DEF Part
  <1> QED BY <1>8, <1>9
----------------------------------------------------------------------------
(* The invariant holds *)

LEMMA ChangedAreWorkers ==
  ASSUME CacheInv
  PROVE  Changed \subseteq Workers /\ Changed \subseteq DOMAIN workers
  BY DEF Changed, CacheInv, CacheOK, Ordered

LEMMA RemoveDeletedIs ==
  ASSUME NEW m, NEW k \in removeDeletedWorkersFromSnapshot(m)
  PROVE  DOMAIN k \subseteq DOMAIN m
  BY DEF removeDeletedWorkersFromSnapshot, Without

LEMMA HeadGeneration ==
  ASSUME CacheInv, list # <<>>
  PROVE  /\ workers[Head(list)].gen \in 1..generation
         /\ \A u \in DOMAIN workers : workers[u].gen <= workers[Head(list)].gen
  <1>1. list \in Seq(Workers) /\ generation \in Nat /\ Ordered(workers, list)
        /\ \A u \in DOMAIN workers : workers[u].gen \in 1..generation
    BY DEF CacheInv, CacheOK, Info
  <1>2. Head(list) = list[1] /\ Len(list) \in Nat /\ 1 \in 1..Len(list)
    BY <1>1
  <1>3. workers[list[1]].gen \in 1..generation
    BY <1>1, <1>2 DEF Ordered
  <1>4. ASSUME NEW u \in DOMAIN workers PROVE workers[u].gen <= workers[list[1]].gen
    <2>1. PICK n \in 1..Len(list) : list[n] = u
      BY <1>1 DEF Ordered
    <2>2. CASE n = 1
      BY <1>1, <2>1, <2>2
    <2>3. CASE n > 1
      <3>1. workers[list[1]].gen > workers[list[n]].gen
        BY <1>1, <1>2, <2>3 DEF Ordered
      <3>2. workers[u].gen \in Int /\ workers[list[1]].gen \in Int
        BY <1>1, <1>3
      <3> QED BY <2>1, <3>1, <3>2
    <2> QED BY <1>2, <2>2, <2>3
  <1> QED BY <1>2, <1>3, <1>4

LEMMA UpdateSnapshotKeeps ==
  ASSUME CacheIInv, UpdateSnapshot
  PROVE  Part /\ SnapshotOK'
  <1>1. CacheInv /\ StagesOK /\ NeverExits /\ SnapshotOK
    BY DEF CacheIInv
  <1>2. UNCHANGED <<cache, tree, known, informed>>
    BY DEF UpdateSnapshot
  <1>3. CacheInv' /\ Kept
    BY <1>1, <1>2, CacheSame DEF cache
  <1>4. StagesOK' /\ NeverExits'
    BY <1>1, <1>2 DEF cache, StagesOK, NeverExits
  <1>5. snapGeneration' \in 0..generation'
    <2>1. snapGeneration' = (IF list = <<>> THEN snapGeneration ELSE workers[Head(list)].gen)
      BY DEF UpdateSnapshot
    <2>2. snapGeneration \in 0..generation /\ generation' = generation /\ generation \in Nat
      BY <1>1, <1>2 DEF SnapshotOK, cache, CacheInv, CacheOK
    <2>3. CASE list = <<>>
      BY <2>1, <2>2, <2>3
    <2>4. CASE list # <<>>
      BY <1>1, <2>1, <2>2, <2>4, HeadGeneration
    <2> QED BY <2>3, <2>4
  <1>6. /\ snapMap' \in removeDeletedWorkersFromSnapshot(Refreshed)
        /\ snapErr' \in BOOLEAN
        /\ snapList' \subseteq tree \/ snapList' = snapList
    BY DEF UpdateSnapshot
  <1>7. DOMAIN snapMap' \subseteq Names(Workers)
    <2>1. DOMAIN Refreshed = DOMAIN snapMap \cup Names(Changed)
      BY DEF Refreshed
    <2>2. Names(Changed) \subseteq Names(Workers)
      BY <1>1, ChangedAreWorkers DEF Names
    <2>3. DOMAIN snapMap' \subseteq DOMAIN Refreshed
      BY <1>6, RemoveDeletedIs
    <2> QED BY <1>1, <2>1, <2>2, <2>3 DEF SnapshotOK
  <1>8. tree \subseteq Names(Workers)
    BY <1>1 DEF CacheInv, Names
  <1> QED BY <1>1, <1>3, <1>4, <1>5, <1>6, <1>7, <1>8 DEF Part, SnapshotOK

LEMMA CacheInit == Init => CacheIInv
  <1> SUFFICES ASSUME Init PROVE CacheIInv
    OBVIOUS
  <1>1. /\ DOMAIN stageStates = {} /\ DOMAIN workers = {} /\ DOMAIN snapMap = {}
        /\ \A s \in Stages : informed[s] = NoWorker
    BY DEF Init
  <1>2. CacheInv
    <2>1. workers \in [DOMAIN workers -> Info(generation)]
      BY DEF Init
    <2>2. list \in Seq(Workers) /\ Len(list) = 0 /\ generation \in Nat /\ generation <= MaxGeneration
      BY SchedulerCacheAssumption DEF Init
    <2>3. CacheOK(workers, list, generation)
      BY <1>1, <2>1, <2>2 DEF CacheOK, Ordered
    <2>4. Match(workers, stageStates) /\ Live(workers) = {}
      BY <1>1 DEF Match, Live
    <2> QED BY <2>2, <2>3, <2>4 DEF CacheInv, Init, Names
  <1>3. StagesOK /\ NeverExits
    BY <1>1 DEF StagesOK, NeverExits, Init
  <1>4. RoutinesOK
    BY DEF Init, RoutinesOK
  <1>5. SnapshotOK
    <2>1. snapGeneration \in 0..generation /\ snapList = {}
      BY DEF Init
    <2>2. snapErr \in BOOLEAN
      BY DEF Init
    <2> QED BY <1>1, <2>1, <2>2 DEF SnapshotOK
  <1> QED BY <1>2, <1>3, <1>4, <1>5 DEF CacheIInv

\* Every step but UpdateSnapshot.
Other ==
  \/ \E s \in Stages, u \in Workers : AssumeStage(s, u) \/ AddStage(s, u)
  \/ AssumeStageUnlocks
  \/ \E b \in binding :
       BindReturns(b) \/ FinishBinding(b) \/ FinishBindingUnlocks(b) \/ ForgetStage(b)
  \/ \E s \in Stages : UpdateStage(s) \/ RemoveStage(s)
  \/ \E u \in Workers : AddWorker(u) \/ UpdateWorker(u) \/ RemoveWorker(u)
  \/ UNCHANGED vars

LEMMA OtherKeeps ==
  ASSUME CacheIInv, Other
  PROVE  Part /\ UNCHANGED snapshot
  <1>1. CacheInv /\ StagesOK /\ NeverExits
    BY DEF CacheIInv
  <1>2. ASSUME UNCHANGED <<cache, tree, known, informed>> PROVE Part
    <2>1. CacheInv' /\ Kept
      BY <1>1, <1>2, CacheSame DEF cache
    <2> QED BY <1>1, <1>2, <2>1 DEF cache, StagesOK, NeverExits, Part
  <1>3. CASE \E s \in Stages, u \in Workers : AssumeStage(s, u)
    BY <1>2, <1>3 DEF AssumeStage
  <1>4. CASE \E s \in Stages, u \in Workers : AddStage(s, u)
    BY <1>4, AddKeeps DEF AddStage
  <1>5. CASE AssumeStageUnlocks
    BY <1>5, AssumeUnlocksKeeps DEF AssumeStageUnlocks
  <1>6. CASE \E b \in binding : BindReturns(b) \/ FinishBinding(b) \/ FinishBindingUnlocks(b)
    BY <1>2, <1>6 DEF BindReturns, FinishBinding, FinishBindingUnlocks
  <1>7. CASE \E b \in binding : ForgetStage(b)
    BY <1>7, ForgetKeeps DEF ForgetStage
  <1>8. CASE \E s \in Stages : UpdateStage(s)
    BY <1>8, UpdateKeeps DEF UpdateStage
  <1>9. CASE \E s \in Stages : RemoveStage(s)
    BY <1>9, RemoveKeeps DEF RemoveStage
  <1>10. CASE \E u \in Workers : AddWorker(u) \/ UpdateWorker(u)
    BY <1>10, SetWorkerKeeps DEF AddWorker, UpdateWorker, SetWorker
  <1>11. CASE \E u \in Workers : RemoveWorker(u)
    BY <1>11, RemoveWorkerKeeps DEF RemoveWorker
  <1>12. CASE UNCHANGED vars
    <2>1. UNCHANGED <<cache, tree, known, informed>>
      BY <1>12 DEF vars, cache
    <2>2. UNCHANGED snapshot
      BY <1>12 DEF vars, snapshot
    <2> QED BY <1>2, <2>1, <2>2
  <1> QED BY <1>3, <1>4, <1>5, <1>6, <1>7, <1>8, <1>9, <1>10, <1>11, <1>12 DEF Other

LEMMA RoutinesKeep ==
  ASSUME RoutinesOK, Other \/ UpdateSnapshot
  PROVE  RoutinesOK'
  <1> USE DEF RoutinesOK
  <1>1. CASE \E s \in Stages, u \in Workers : AssumeStage(s, u)
    BY <1>1 DEF AssumeStage, AssumeArgs
  <1>2. CASE \E s \in Stages, u \in Workers : AddStage(s, u)
    BY <1>2 DEF AddStage, goroutines
  <1>3. CASE AssumeStageUnlocks
    <2>1. assuming \in AssumeArgs /\ assuming' = NotAssuming /\ UNCHANGED informed
      BY <1>3 DEF AssumeStageUnlocks
    <2>2. [stage |-> assuming.stage, worker |-> assuming.worker, pc |-> "call"] \in Bindings
      BY <2>1 DEF AssumeArgs, Bindings, BindingPC
    <2>3. binding' = binding \/ binding' = binding \cup {[stage |-> assuming.stage, worker |-> assuming.worker, pc |-> "call"]}
      BY <1>3 DEF AssumeStageUnlocks
    <2> QED BY <2>1, <2>2, <2>3
  <1>4. CASE \E b \in binding :
               BindReturns(b) \/ FinishBinding(b) \/ FinishBindingUnlocks(b) \/ ForgetStage(b)
    <2>1. PICK b \in binding :
            BindReturns(b) \/ FinishBinding(b) \/ FinishBindingUnlocks(b) \/ ForgetStage(b)
      BY <1>4
    <2>2. UNCHANGED <<assuming, informed>> /\ (End(b) \/ \E pc \in BindingPC : Step(b, pc))
      BY <2>1 DEF BindReturns, FinishBinding, FinishBindingUnlocks, ForgetStage, BindingPC
    <2>3. \A pc \in BindingPC : [b EXCEPT !.pc = pc] \in Bindings
      BY DEF Bindings
    <2> QED BY <2>2, <2>3 DEF End, Step
  <1>5. CASE \E s \in Stages : UpdateStage(s)
    BY <1>5 DEF UpdateStage, goroutines
  <1>6. CASE \E s \in Stages : RemoveStage(s)
    BY <1>6 DEF RemoveStage, goroutines
  <1>7. CASE \E u \in Workers : AddWorker(u) \/ UpdateWorker(u) \/ RemoveWorker(u)
    BY <1>7 DEF AddWorker, UpdateWorker, RemoveWorker, SetWorker, goroutines
  <1>8. CASE UpdateSnapshot
    BY <1>8 DEF UpdateSnapshot, goroutines
  <1>9. CASE UNCHANGED vars
    BY <1>9 DEF vars
  <1> QED BY <1>1, <1>2, <1>3, <1>4, <1>5, <1>6, <1>7, <1>8, <1>9 DEF Other

LEMMA CacheStep == CacheIInv /\ [Next]_vars => CacheIInv'
  <1> SUFFICES ASSUME CacheIInv, [Next]_vars PROVE CacheIInv'
    OBVIOUS
  <1>1. Other \/ UpdateSnapshot
    BY DEF Next, Other
  <1>2. RoutinesOK'
    BY <1>1, RoutinesKeep DEF CacheIInv
  <1>3. CASE Other
    <2>1. Part /\ UNCHANGED snapshot
      BY <1>3, OtherKeeps
    <2>2. SnapshotOK'
      <3>1. SnapshotOK /\ generation \in Nat /\ generation' \in Nat /\ generation <= generation'
        BY <2>1 DEF Part, Kept, CacheIInv, CacheInv, CacheOK
      <3> QED BY <2>1, <3>1 DEF SnapshotOK, snapshot
    <2> QED BY <1>2, <2>1, <2>2 DEF Part, CacheIInv
  <1>4. CASE UpdateSnapshot
    BY <1>2, <1>4, UpdateSnapshotKeeps DEF Part, CacheIInv
  <1> QED BY <1>1, <1>3, <1>4
\* Each worker once in the list, by descending generation; every stage with
\* exactly the worker the cache has it on; each handler's event in agreement
\* with the cache: the invariant of every reachable state.
THEOREM CacheInvariant == Spec => []CacheIInv
  <1>1. Init => CacheIInv
    BY CacheInit
  <1>2. CacheIInv /\ [Next]_vars => CacheIInv'
    BY CacheStep
  <1> QED BY <1>1, <1>2, PTL DEF Spec

LEMMA CacheTypes == CacheIInv => TypeOK
  <1> SUFFICES ASSUME CacheIInv PROVE TypeOK
    OBVIOUS
  <1> USE DEF CacheIInv
  <1>1. /\ DOMAIN stageStates \subseteq Stages /\ assumedStages \subseteq DOMAIN stageStates
        /\ \A s \in DOMAIN stageStates : stageStates[s] \in Workers
    BY DEF StagesOK, CacheInv, CacheOK, Match
  <1>2. /\ workers \in [DOMAIN workers -> [live : BOOLEAN, stages : SUBSET Stages, gen : 1..generation]]
        /\ list \in Seq(Workers) /\ generation \in 0..MaxGeneration
    BY SchedulerCacheAssumption DEF CacheInv, CacheOK, Info
  <1>3. tree \subseteq Names(Workers) /\ known \subseteq Workers
    BY DEF CacheInv, Names
  <1> QED BY <1>1, <1>2, <1>3 DEF TypeOK, SnapshotOK, RoutinesOK, AssumeArgs, Bindings

\* Type correctness of the cache, its snapshot and its callers.
THEOREM TypeCorrect == Spec => []TypeOK
  BY CacheInvariant, CacheTypes, PTL

\* A stage's update or delete event never finds it on another worker, nor
\* missing, so that UpdateStage and RemoveStage never exit the process,
\* however many assumptions and failed bindings of it are on their way.
THEOREM ProcessNeverExits == Spec => []NeverExits
  <1>1. CacheIInv => NeverExits
    BY DEF CacheIInv
  <1> QED BY <1>1, CacheInvariant, PTL

\* The stages of the workers and the workers of the stages agree, and a
\* worker is kept exactly while it exists or has stages.
THEOREM TwoViewsAgree == Spec => []WorkersMatchStages
  <1>1. ASSUME CacheIInv PROVE WorkersMatchStages
    <2>1. CacheInv /\ StagesOK
      BY <1>1 DEF CacheIInv
    <2>2. /\ Match(workers, stageStates) /\ Live(workers) = known /\ tree = Names(known)
          /\ Ordered(workers, list) /\ \A u \in DOMAIN workers : workers[u].stages \subseteq Stages
      BY <2>1 DEF CacheInv, CacheOK, Info
    <2>3. \A u \in DOMAIN workers : workers[u].stages = {s \in DOMAIN stageStates : stageStates[s] = u}
      BY <2>1, <2>2 DEF Match, StagesOK
    <2>4. {list[n] : n \in 1..Len(list)} = DOMAIN workers
      BY <2>2 DEF Ordered
    <2> QED BY <2>2, <2>3, <2>4 DEF WorkersMatchStages, Match, Live
  <1> QED BY <1>1, CacheInvariant, PTL

\* The list stays in descending order of generation through every change of a
\* worker, whichever operation moves it to the head.
THEOREM ListOrdered == Spec => []ListIsByGeneration
  <1>1. CacheIInv => ListIsByGeneration
    BY DEF CacheIInv, CacheInv, CacheOK, Ordered, ListIsByGeneration
  <1> QED BY <1>1, CacheInvariant, PTL
----------------------------------------------------------------------------
(* The incremental snapshot, for workers whose name is their UID *)

NamesAreUIDs == \A u \in Workers : NameOf[u] = u

\* What did not change since the snapshot was taken is in it as it is.
SnapInv ==
  /\ IsFiniteSet(known) /\ IsFiniteSet(DOMAIN snapMap) /\ snapList = DOMAIN snapMap
  /\ \A u \in known : workers[u].gen <= snapGeneration =>
       u \in DOMAIN snapMap /\ snapMap[u] = workers[u].stages

LEMMA NamesIs ==
  ASSUME NamesAreUIDs, NEW S, S \subseteq Workers
  PROVE  Names(S) = S
  BY DEF NamesAreUIDs, Names

\* The prefix of the list that UpdateSnapshot walks has every live worker
\* that changed, because the list is by generation.
LEMMA ChangedIs ==
  ASSUME CacheInv, snapGeneration \in Nat
  PROVE  Changed = {u \in known : workers[u].gen > snapGeneration}
  <1>1. Ordered(workers, list) /\ list \in Seq(Workers) /\ Live(workers) = known
        /\ \A u \in DOMAIN workers : workers[u].gen \in Nat
    BY DEF CacheInv, CacheOK, Info
  <1>2. ASSUME NEW u \in Changed PROVE u \in known /\ workers[u].gen > snapGeneration
    <2>1. PICK m \in 1..Len(list) : /\ u = list[m] /\ workers[list[m]].live
                                    /\ \A k \in 1..m : workers[list[k]].gen > snapGeneration
      BY DEF Changed
    <2>2. m \in 1..m /\ u \in DOMAIN workers
      BY <1>1, <2>1 DEF Ordered
    <2> QED BY <1>1, <2>1, <2>2 DEF Live
  <1>3. ASSUME NEW u \in known, workers[u].gen > snapGeneration PROVE u \in Changed
    <2>1. u \in DOMAIN workers /\ workers[u].live
      BY <1>1 DEF Live
    <2>2. PICK m \in 1..Len(list) : list[m] = u
      BY <1>1, <2>1 DEF Ordered
    <2>3. ASSUME NEW k \in 1..m PROVE workers[list[k]].gen > snapGeneration
      <3>1. k \in 1..Len(list) /\ list[k] \in DOMAIN workers
        BY <1>1 DEF Ordered
      <3>2. CASE k = m
        BY <1>3, <2>2, <3>2
      <3>3. CASE k < m
        <4>1. workers[list[k]].gen > workers[list[m]].gen
          BY <1>1, <3>1, <3>3 DEF Ordered
        <4> QED BY <1>1, <1>3, <2>1, <2>2, <3>1, <4>1
      <3> QED BY <3>2, <3>3
    <2> QED BY <2>1, <2>2, <2>3 DEF Changed
  <1> QED BY <1>2, <1>3

\* Refreshed has every existing worker with its present stages.
LEMMA RefreshedIs ==
  ASSUME NamesAreUIDs, CacheIInv, SnapInv
  PROVE  /\ IsFiniteSet(DOMAIN Refreshed) /\ known \subseteq DOMAIN Refreshed
         /\ \A u \in known : Refreshed[u] = workers[u].stages
  <1>1. CacheInv /\ snapGeneration \in Nat /\ known \subseteq Workers
        /\ \A u \in known : workers[u].gen \in Nat
    BY DEF CacheIInv, CacheInv, SnapshotOK, CacheOK, Info, Live
  <1>2. Changed = {u \in known : workers[u].gen > snapGeneration}
    BY <1>1, ChangedIs
  <1>3. Names(Changed) = Changed
    BY <1>1, <1>2, NamesIs
  <1>4. IsFiniteSet(Changed)
    <2>1. Changed \subseteq known /\ IsFiniteSet(known)
      BY <1>2 DEF SnapInv
    <2> QED BY <2>1, FS_Subset
  <1>5. DOMAIN Refreshed = DOMAIN snapMap \cup Changed
    BY <1>3 DEF Refreshed
  <1>6. IsFiniteSet(DOMAIN Refreshed)
    BY <1>4, <1>5, FS_Union DEF SnapInv
  <1>7. ASSUME NEW u \in known PROVE u \in DOMAIN Refreshed /\ Refreshed[u] = workers[u].stages
    <2>1. CASE u \in Changed
      <3>1. (CHOOSE v \in Changed : NameOf[v] = u) = u
        <4>1. \A v \in Changed : NameOf[v] = v
          BY <1>1, <1>2 DEF NamesAreUIDs
        <4> QED BY <2>1, <4>1
      <3> QED BY <1>3, <1>5, <2>1, <3>1 DEF Refreshed
    <2>2. CASE u \notin Changed
      <3>1. workers[u].gen <= snapGeneration
        BY <1>1, <1>2, <2>2
      <3>2. u \in DOMAIN snapMap /\ snapMap[u] = workers[u].stages
        BY <3>1 DEF SnapInv
      <3> QED BY <1>3, <1>5, <2>2, <3>2 DEF Refreshed
    <2> QED BY <2>1, <2>2
  <1> QED BY <1>6, <1>7

\* Deleting as many missing workers as there are names too many leaves
\* exactly the existing ones.
LEMMA RemovesTheMissing ==
  ASSUME NamesAreUIDs, CacheIInv, SnapInv, NEW m, IsFiniteSet(DOMAIN m), known \subseteq DOMAIN m,
         NEW k \in removeDeletedWorkersFromSnapshot(m)
  PROVE  DOMAIN k = known /\ \A u \in known : k[u] = m[u]
  <1> DEFINE missing == {n \in DOMAIN m : n \notin DOMAIN workers \/ ~workers[n].live}
             toDelete == Cardinality(DOMAIN m) - Cardinality(tree)
  <1>1. tree = known /\ known = Live(workers)
    BY NamesIs DEF CacheIInv, CacheInv
  <1>2. missing = DOMAIN m \ known
    BY <1>1 DEF Live
  <1>3. DOMAIN m \cap known = known
    OBVIOUS
  <1>4. /\ Cardinality(missing) = Cardinality(DOMAIN m) - Cardinality(known)
        /\ IsFiniteSet(missing) /\ IsFiniteSet(known)
        /\ Cardinality(DOMAIN m) \in Nat /\ Cardinality(known) \in Nat
        /\ Cardinality(missing) \in Nat
    <2> DEFINE N == DOMAIN m
    <2> HIDE DEF missing, N
    <2>1. missing = N \ known /\ N \cap known = known /\ IsFiniteSet(N) /\ IsFiniteSet(known)
      BY <1>2, <1>3 DEF N, SnapInv
    <2>2. IsFiniteSet(N \ known) /\ Cardinality(N \ known) = Cardinality(N) - Cardinality(N \cap known)
      BY <2>1, FS_Difference
    <2>3. Cardinality(N) \in Nat /\ Cardinality(known) \in Nat /\ Cardinality(N \ known) \in Nat
      BY <2>1, <2>2, FS_CardinalityType
    <2>4. Cardinality(missing) = Cardinality(N) - Cardinality(known)
      BY <2>1, <2>2
    <2> QED BY <2>1, <2>2, <2>3, <2>4 DEF N
  <1>5. toDelete = Cardinality(missing)
    BY <1>1, <1>4
  <1>6. CASE toDelete <= 0
    <2>1. k = m
      BY <1>6 DEF removeDeletedWorkersFromSnapshot
    <2>2. missing = {}
      BY <1>4, <1>5, <1>6, FS_EmptySet
    <2> QED BY <1>2, <2>1, <2>2
  <1>7. CASE ~(toDelete <= 0)
    <2>1. PICK E \in SUBSET missing :
            k = Without(m, E) /\
            Cardinality(E) = IF toDelete < Cardinality(missing) THEN toDelete ELSE Cardinality(missing)
      BY <1>7 DEF removeDeletedWorkersFromSnapshot
    <2> HIDE DEF missing, toDelete
    <2>2. Cardinality(E) = Cardinality(missing)
      BY <1>4, <1>5, <2>1
    <2>3. E = missing
      BY <1>4, <2>2, FS_Subset
    <2>4. DOMAIN k = DOMAIN m \ E /\ \A u \in DOMAIN m \ E : k[u] = m[u]
      BY <2>1, WithoutIs
    <2> QED BY <1>2, <2>3, <2>4
  <1> QED BY <1>6, <1>7
LEMMA SnapshotTaken ==
  ASSUME NamesAreUIDs, CacheIInv, SnapInv, UpdateSnapshot
  PROVE  /\ snapErr' = FALSE /\ snapList' = tree /\ DOMAIN snapMap' = tree
         /\ \A u \in known : snapMap'[NameOf[u]] = workers[u].stages
         /\ SnapInv'
  <1>1. PICK m \in removeDeletedWorkersFromSnapshot(Refreshed) :
          LET updateAllLists == \/ DOMAIN Refreshed # DOMAIN snapMap
                                \/ Cardinality(DOMAIN Refreshed) > Cardinality(tree)
              names == IF updateAllLists THEN tree \cap DOMAIN m ELSE snapList
          IN /\ snapMap' = m
             /\ snapErr' = (Cardinality(names) # Cardinality(tree))
             /\ snapList' = IF snapErr' THEN tree \cap DOMAIN m ELSE names
    BY DEF UpdateSnapshot
  <1>2. tree = known /\ known \subseteq Workers /\ IsFiniteSet(known) /\ snapList = DOMAIN snapMap
    BY NamesIs DEF CacheIInv, CacheInv, SnapInv
  <1>3. /\ IsFiniteSet(DOMAIN Refreshed) /\ known \subseteq DOMAIN Refreshed
        /\ \A u \in known : Refreshed[u] = workers[u].stages
    BY RefreshedIs
  <1>4. DOMAIN m = known /\ \A u \in known : m[u] = workers[u].stages
    BY <1>3, RemovesTheMissing
  <1> DEFINE all == \/ DOMAIN Refreshed # DOMAIN snapMap
                    \/ Cardinality(DOMAIN Refreshed) > Cardinality(tree)
             names == IF all THEN tree \cap DOMAIN m ELSE snapList
  <1>5. names = known
    <2>1. CASE all
      BY <1>2, <1>4, <2>1
    <2>2. CASE ~all
      <3>1. DOMAIN Refreshed = DOMAIN snapMap /\ ~(Cardinality(DOMAIN Refreshed) > Cardinality(known))
        BY <1>2, <2>2
      <3>2. Cardinality(DOMAIN Refreshed) \in Nat /\ Cardinality(known) \in Nat
        BY <1>2, <1>3, FS_CardinalityType
      <3>3. known = DOMAIN Refreshed
        BY <1>3, <3>1, <3>2, FS_Subset
      <3> QED BY <1>2, <2>2, <3>1, <3>3
    <2> QED BY <2>1, <2>2
  <1>6. /\ snapMap' = m /\ snapErr' = (Cardinality(names) # Cardinality(tree))
        /\ snapList' = IF snapErr' THEN tree \cap DOMAIN m ELSE names
    BY <1>1
  <1> HIDE DEF names
  <1>7. snapErr' = FALSE
    BY <1>2, <1>5, <1>6
  <1>8. snapList' = known /\ DOMAIN snapMap' = known
    BY <1>2, <1>4, <1>5, <1>6
  <1>9. \A u \in known : snapMap'[u] = workers[u].stages
    BY <1>4, <1>6
  <1>10. known' = known /\ workers' = workers
    BY DEF UpdateSnapshot, cache
  <1>11. SnapInv'
    BY <1>2, <1>8, <1>9, <1>10 DEF SnapInv
  <1>12. \A u \in known : NameOf[u] = u
    BY <1>2 DEF NamesAreUIDs
  <1> QED BY <1>2, <1>7, <1>8, <1>9, <1>11, <1>12

\* A changed worker has a generation above the snapshot's.
LEMMA SnapOther ==
  ASSUME CacheIInv, SnapInv, Other
  PROVE  SnapInv'
  <1>1. Part /\ UNCHANGED snapshot
    BY OtherKeeps
  <1>2. IsFiniteSet(known')
    <2>1. known' = known \/ \E u \in Workers : known' = known \cup {u} \/ known' = known \ {u}
      BY DEF Other, AssumeStage, AddStage, AssumeStageUnlocks, BindReturns, FinishBinding,
             FinishBindingUnlocks, ForgetStage, UpdateStage, RemoveStage, AddWorker, UpdateWorker,
             RemoveWorker, vars
    <2>2. IsFiniteSet(known)
      BY DEF SnapInv
    <2> QED BY <2>1, <2>2, FS_AddElement, FS_RemoveElement
  <1>3. ASSUME NEW u \in known', workers'[u].gen <= snapGeneration'
        PROVE  u \in DOMAIN snapMap' /\ snapMap'[u] = workers'[u].stages
    <2>1. /\ snapGeneration \in 0..generation /\ snapGeneration' = snapGeneration
          /\ snapMap' = snapMap /\ generation \in Nat
      BY <1>1 DEF CacheIInv, SnapshotOK, snapshot, CacheInv, CacheOK
    <2>2. u \in DOMAIN workers' /\ workers'[u].live /\ workers'[u].gen \in Nat
      BY <1>1 DEF Part, CacheInv, Live, CacheOK, Info
    <2>3. workers'[u].gen <= generation
      BY <1>3, <2>1, <2>2
    <2>4. u \in DOMAIN workers /\ workers'[u] = workers[u]
      BY <1>1, <2>2, <2>3 DEF Part, Kept
    <2>5. u \in known
      BY <2>2, <2>4 DEF CacheIInv, CacheInv, Live
    <2> QED BY <1>3, <2>1, <2>4, <2>5 DEF SnapInv
  <1> QED BY <1>1, <1>2, <1>3 DEF SnapInv, snapshot

\* For workers whose name is their UID, an update of the snapshot that only
\* walks the workers changed since the last one, and deletes as many names
\* as there are too many, leaves exactly the existing workers, each with its
\* present stages, and never falls back to rebuilding the list.
THEOREM SnapshotMissesNothing ==
  ASSUME NamesAreUIDs
  PROVE  Spec => SnapshotIsCurrent
  <1>1. Init => SnapInv
    <2>1. ASSUME Init PROVE SnapInv
      <3>1. known = {} /\ DOMAIN snapMap = {} /\ snapList = {}
        BY <2>1 DEF Init
      <3> QED BY <3>1, FS_EmptySet DEF SnapInv
    <2> QED BY <2>1
  <1>2. CacheIInv /\ SnapInv /\ [Next]_vars => SnapInv'
    <2>1. ASSUME CacheIInv, SnapInv, [Next]_vars PROVE SnapInv'
      <3>1. Other \/ UpdateSnapshot
        BY <2>1 DEF Next, Other
      <3> QED BY <2>1, <3>1, SnapOther, SnapshotTaken
    <2> QED BY <2>1
  <1>3. CacheIInv /\ SnapInv =>
          [UpdateSnapshot =>
             /\ ~snapErr'
             /\ snapList' = tree /\ DOMAIN snapMap' = tree
             /\ \A u \in known : snapMap'[NameOf[u]] = workers[u].stages]_vars
    BY SnapshotTaken
  <1> QED BY <1>1, <1>2, <1>3, CacheInvariant, PTL DEF Spec, SnapshotIsCurrent

=============================================================================
