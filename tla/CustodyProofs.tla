--------------------------- MODULE CustodyProofs ---------------------------
(***************************************************************************)
(* No event is dropped or duplicated on its way through BatchManager.      *)
(* Moved says how any step moves events between the places that hold them; *)
(* from it follow Conservation, the refinement of EventLedger, the count   *)
(* of what is in flight, the bound of the queue, what flush() returns, and *)
(* that the child of a fork leaves its parent's events alone.  All of it   *)
(* is proved of a process that forks, and so of one that does not.         *)
(***************************************************************************)
EXTENDS BatchManagerProofs, ForkedManager, FiniteSetTheorems

-----------------------------------------------------------------------------
(* Families of sequences that hold each event once.                        *)

\* The two parts of a sequence hold what it holds, each of it once.
LEMMA PartsOf ==
  ASSUME NEW S, NEW s \in Seq(S), NEW n \in 0 .. Len(s)
  PROVE  /\ SubSeq(s, 1, n) \in Seq(S) /\ Len(SubSeq(s, 1, n)) = n
         /\ SubSeq(s, n + 1, Len(s)) \in Seq(S)
         /\ Len(SubSeq(s, n + 1, Len(s))) = Len(s) - n
         /\ \A i \in 1 .. n : SubSeq(s, 1, n)[i] = s[i]
         /\ \A i \in 1 .. (Len(s) - n) : SubSeq(s, n + 1, Len(s))[i] = s[n + i]
  OBVIOUS

\* What a prefix and a suffix of a sequence hold.
LEMMA PartsHold ==
  ASSUME NEW S, NEW s \in Seq(S), NEW n \in 0 .. Len(s)
  PROVE  /\ ToSet(SubSeq(s, 1, n)) = {s[i] : i \in 1 .. n}
         /\ ToSet(SubSeq(s, n + 1, Len(s))) = {s[i] : i \in (n + 1) .. Len(s)}
         /\ ToSet(s) = {s[i] : i \in 1 .. Len(s)}
<1>1. Len(s) \in Nat /\ DOMAIN s = 1 .. Len(s)
  OBVIOUS
<1>2. /\ DOMAIN SubSeq(s, 1, n) = 1 .. n
      /\ DOMAIN SubSeq(s, n + 1, Len(s)) = 1 .. (Len(s) - n)
  BY PartsOf
<1>3. \A i \in (n + 1) .. Len(s) : i - n \in 1 .. (Len(s) - n) /\ s[i] = s[n + (i - n)]
  BY <1>1
<1>4. \A i \in 1 .. (Len(s) - n) : n + i \in (n + 1) .. Len(s)
  BY <1>1
<1>5. /\ \A i \in 1 .. n : SubSeq(s, 1, n)[i] = s[i]
      /\ \A i \in 1 .. (Len(s) - n) : SubSeq(s, n + 1, Len(s))[i] = s[n + i]
  BY PartsOf
<1>6. ToSet(SubSeq(s, n + 1, Len(s))) = {s[i] : i \in (n + 1) .. Len(s)}
  <2> DEFINE u == SubSeq(s, n + 1, Len(s))
  <2>1. \A x : x \in ToSet(u) <=> \E i \in 1 .. (Len(s) - n) : x = u[i]
    BY <1>2 DEF ToSet
  <2>2. ASSUME NEW i \in 1 .. (Len(s) - n)
        PROVE  \E k \in (n + 1) .. Len(s) : u[i] = s[k]
    BY <1>4, <1>5
  <2>3. ASSUME NEW k \in (n + 1) .. Len(s)
        PROVE  \E i \in 1 .. (Len(s) - n) : s[k] = u[i]
    BY <1>3, <1>5
  <2> HIDE DEF u
  <2>4. ASSUME NEW x PROVE x \in ToSet(u) <=> \E k \in (n + 1) .. Len(s) : x = s[k]
    <3>1. ASSUME x \in ToSet(u) PROVE \E k \in (n + 1) .. Len(s) : x = s[k]
      <4>1. PICK i \in 1 .. (Len(s) - n) : x = u[i]
        BY <2>1, <3>1
      <4> QED
        BY <2>2, <4>1
    <3>2. ASSUME NEW k \in (n + 1) .. Len(s), x = s[k] PROVE x \in ToSet(u)
      <4>1. PICK i \in 1 .. (Len(s) - n) : s[k] = u[i]
        BY <2>3
      <4> QED
        BY <2>1, <3>2, <4>1
    <3> QED
      BY <3>1, <3>2
  <2>5. ToSet(u) = {s[i] : i \in (n + 1) .. Len(s)}
    BY <2>4
  <2> QED
    BY <2>5 DEF u
<1>7. ToSet(SubSeq(s, 1, n)) = {s[i] : i \in 1 .. n}
  <2> DEFINE u == SubSeq(s, 1, n)
  <2>1. ToSet(u) = {u[i] : i \in 1 .. n}
    BY <1>2 DEF ToSet
  <2> QED
    BY <1>5, <2>1
<1> QED
  BY <1>1, <1>6, <1>7 DEF ToSet

\* Two sequences one after the other.
LEMMA ConcatOf ==
  ASSUME NEW S, NEW v \in Seq(S), NEW w \in Seq(S)
  PROVE  /\ v \o w \in Seq(S) /\ DOMAIN (v \o w) = 1 .. (Len(v) + Len(w))
         /\ \A i \in 1 .. Len(v) : (v \o w)[i] = v[i]
         /\ \A i \in (Len(v) + 1) .. (Len(v) + Len(w)) : (v \o w)[i] = w[i - Len(v)]
  OBVIOUS

\* The first events of one are dropped, or pass to the head of another; or one joins.
Dropped(F, g, n) == [F EXCEPT ![g] = SubSeq(F[g], n + 1, Len(F[g]))]
Passed(F, g, h, n) ==
  [F EXCEPT ![g] = SubSeq(F[g], n + 1, Len(F[g])), ![h] = SubSeq(F[g], 1, n) \o F[h]]
Joined(F, g, e) == [F EXCEPT ![g] = Append(F[g], e)]

\* Events dropped from one sequence of a family are in it no more.
LEMMA OnceDrop ==
  ASSUME NEW H, NEW S, NEW F \in [H -> Seq(S)], Once(F), NEW g \in H,
         NEW n \in 0 .. Len(F[g])
  PROVE  /\ Once(Dropped(F, g, n))
         /\ EventsIn(Dropped(F, g, n)) = EventsIn(F) \ ToSet(SubSeq(F[g], 1, n))
         /\ ToSet(SubSeq(F[g], 1, n)) \subseteq EventsIn(F)
<1>0. PICK G : G = [F EXCEPT ![g] = SubSeq(F[g], n + 1, Len(F[g]))]
  OBVIOUS
<1> USE <1>0
<1>1. /\ F[g] \in Seq(S) /\ DOMAIN F = H /\ DOMAIN G = H /\ Len(F[g]) \in Nat
      /\ G[g] = SubSeq(F[g], n + 1, Len(F[g])) /\ \A h \in H \ {g} : G[h] = F[h]
  OBVIOUS
<1>2. /\ DOMAIN G[g] = 1 .. (Len(F[g]) - n) /\ DOMAIN F[g] = 1 .. Len(F[g])
      /\ \A i \in DOMAIN G[g] : G[g][i] = F[g][n + i] /\ n + i \in DOMAIN F[g]
  BY <1>1, PartsOf
<1>3. Once(G)
  <2>1. SUFFICES ASSUME NEW a \in H, NEW b \in H, NEW i \in DOMAIN G[a],
                        NEW k \in DOMAIN G[b], G[a][i] = G[b][k]
                 PROVE  a = b /\ i = k
    BY <1>1 DEF Once
  <2>2. \A h \in H : \A m \in DOMAIN G[h] :
          \E l \in DOMAIN F[h] : G[h][m] = F[h][l] /\ l = IF h = g THEN n + m ELSE m
    BY <1>1, <1>2
  <2>3. PICK x \in DOMAIN F[a] : G[a][i] = F[a][x] /\ x = IF a = g THEN n + i ELSE i
    BY <2>2
  <2>4. PICK y \in DOMAIN F[b] : G[b][k] = F[b][y] /\ y = IF b = g THEN n + k ELSE k
    BY <2>2
  <2>5. a = b /\ x = y
    BY <1>1, <2>1, <2>3, <2>4 DEF Once
  <2>6. CASE a = g
    BY <1>2, <2>3, <2>4, <2>5, <2>6
  <2>7. CASE a # g
    BY <2>3, <2>4, <2>5, <2>7
  <2> QED
    BY <2>5, <2>6, <2>7
<1>4. /\ ToSet(SubSeq(F[g], 1, n)) = {F[g][i] : i \in 1 .. n}
      /\ ToSet(SubSeq(F[g], n + 1, Len(F[g]))) = {F[g][i] : i \in (n + 1) .. Len(F[g])}
      /\ ToSet(F[g]) = {F[g][i] : i \in 1 .. Len(F[g])}
  BY <1>1, PartsHold, Zenon
<1>5. ToSet(F[g]) = ToSet(SubSeq(F[g], 1, n)) \cup ToSet(G[g])
  <2>1. 1 .. Len(F[g]) = 1 .. n \cup (n + 1) .. Len(F[g])
    BY <1>1
  <2> QED
    BY <1>1, <1>4, <2>1
<1>6. ToSet(SubSeq(F[g], 1, n)) \cap EventsIn(G) = {}
  <2>1. SUFFICES ASSUME NEW i \in 1 .. n, NEW h \in H, NEW k \in DOMAIN G[h],
                        F[g][i] = G[h][k]
                 PROVE  FALSE
    BY <1>1, <1>4 DEF EventsIn, ToSet
  <2>2. i \in DOMAIN F[g]
    BY <1>1, <1>2
  <2>3. CASE h = g
    <3>1. F[g][i] = F[g][n + k] /\ n + k \in DOMAIN F[g]
      BY <1>2, <2>1, <2>3
    <3>2. i = n + k
      BY <1>1, <2>2, <3>1 DEF Once
    <3> QED
      BY <1>2, <2>1, <2>3, <3>2
  <2>4. CASE h # g
    BY <1>1, <2>1, <2>2, <2>4 DEF Once
  <2> QED
    BY <2>3, <2>4
<1>7. \A h \in H \ {g} : ToSet(G[h]) = ToSet(F[h])
  BY <1>1
<1>8. EventsIn(F) = EventsIn(G) \cup ToSet(SubSeq(F[g], 1, n))
  <2>1. \A x : x \in EventsIn(F) <=> \E h \in H : x \in ToSet(F[h])
    BY <1>1 DEF EventsIn
  <2>2. \A x : x \in EventsIn(G) <=> \E h \in H : x \in ToSet(G[h])
    BY <1>1 DEF EventsIn
  <2> QED
    BY <1>5, <1>7, <2>1, <2>2
<1> QED
  BY <1>3, <1>6, <1>8 DEF Dropped

\* So do events that pass from the head of one to the head of another.
LEMMA OncePass ==
  ASSUME NEW H, NEW S, NEW F \in [H -> Seq(S)], Once(F), NEW g \in H, NEW h \in H, g # h,
         NEW n \in 0 .. Len(F[g])
  PROVE  Once(Passed(F, g, h, n)) /\ EventsIn(Passed(F, g, h, n)) = EventsIn(F)
<1>0. PICK G : G = [F EXCEPT ![g] = SubSeq(F[g], n + 1, Len(F[g])),
                            ![h] = SubSeq(F[g], 1, n) \o F[h]]
  OBVIOUS
<1> USE <1>0
<1>1. /\ F[g] \in Seq(S) /\ F[h] \in Seq(S) /\ DOMAIN F = H /\ DOMAIN G = H
      /\ Len(F[g]) \in Nat /\ Len(F[h]) \in Nat
      /\ G[g] = SubSeq(F[g], n + 1, Len(F[g]))
      /\ G[h] = SubSeq(F[g], 1, n) \o F[h]
      /\ \A k \in H \ {g, h} : G[k] = F[k]
  OBVIOUS
<1>2. /\ DOMAIN G[g] = 1 .. (Len(F[g]) - n) /\ DOMAIN F[g] = 1 .. Len(F[g])
      /\ \A i \in DOMAIN G[g] : G[g][i] = F[g][n + i] /\ n + i \in DOMAIN F[g]
  <2>1. /\ SubSeq(F[g], n + 1, Len(F[g])) \in Seq(S)
        /\ Len(SubSeq(F[g], n + 1, Len(F[g]))) = Len(F[g]) - n
        /\ \A i \in 1 .. (Len(F[g]) - n) : SubSeq(F[g], n + 1, Len(F[g]))[i] = F[g][n + i]
    BY <1>1, PartsOf
  <2>2. DOMAIN G[g] = 1 .. (Len(F[g]) - n)
    BY <1>1, <2>1
  <2>3. DOMAIN F[g] = 1 .. Len(F[g])
    BY <1>1
  <2>4. \A i \in 1 .. (Len(F[g]) - n) : n + i \in 1 .. Len(F[g])
    BY <1>1
  <2> QED
    BY <1>1, <2>1, <2>2, <2>3, <2>4
<1>3. /\ DOMAIN G[h] = 1 .. (n + Len(F[h])) /\ DOMAIN F[h] = 1 .. Len(F[h])
      /\ \A i \in 1 .. n : G[h][i] = F[g][i] /\ i \in DOMAIN F[g]
      /\ \A i \in (n + 1) .. (n + Len(F[h])) :
           G[h][i] = F[h][i - n] /\ i - n \in DOMAIN F[h]
  <2>1. SubSeq(F[g], 1, n) \in Seq(S) /\ Len(SubSeq(F[g], 1, n)) = n
        /\ \A i \in 1 .. n : SubSeq(F[g], 1, n)[i] = F[g][i]
    BY <1>1, PartsOf
  <2> QED
    BY <1>1, <2>1
<1> DEFINE Home(k, i) == IF k = h THEN IF i <= n THEN g ELSE h ELSE k
           Place(k, i) == IF k = h THEN IF i <= n THEN i ELSE i - n
                          ELSE IF k = g THEN n + i ELSE i
<1>4. \A k \in H : \A i \in DOMAIN G[k] :
        /\ Home(k, i) \in H /\ Place(k, i) \in DOMAIN F[Home(k, i)]
        /\ G[k][i] = F[Home(k, i)][Place(k, i)]
  <2>1. SUFFICES ASSUME NEW k \in H, NEW i \in DOMAIN G[k]
                 PROVE  /\ Home(k, i) \in H /\ Place(k, i) \in DOMAIN F[Home(k, i)]
                        /\ G[k][i] = F[Home(k, i)][Place(k, i)]
    OBVIOUS
  <2>2. CASE k \notin {g, h}
    BY <1>1, <2>1, <2>2
  <2>3. CASE k = g
    BY <1>2, <2>1, <2>3
  <2>4. CASE k = h
    <3>1. i \in 1 .. n \/ i \in (n + 1) .. (n + Len(F[h]))
      BY <1>1, <1>3, <2>1, <2>4
    <3>2. CASE i \in 1 .. n
      BY <1>3, <2>4, <3>2
    <3>3. CASE i \in (n + 1) .. (n + Len(F[h]))
      BY <1>1, <1>3, <2>4, <3>3
    <3> QED
      BY <3>1, <3>2, <3>3
  <2> QED
    BY <2>2, <2>3, <2>4
<1>5. Once(G)
  <2>1. SUFFICES ASSUME NEW a \in H, NEW b \in H, NEW i \in DOMAIN G[a],
                        NEW k \in DOMAIN G[b], G[a][i] = G[b][k]
                 PROVE  a = b /\ i = k
    <3>1. DOMAIN G = H
      BY <1>1
    <3> HIDE <1>0 DEF Home, Place
    <3> QED
      BY <3>1 DEF Once
  <2>2. Home(a, i) = Home(b, k) /\ Place(a, i) = Place(b, k)
    <3>1. /\ Home(a, i) \in H /\ Place(a, i) \in DOMAIN F[Home(a, i)]
          /\ Home(b, k) \in H /\ Place(b, k) \in DOMAIN F[Home(b, k)]
          /\ F[Home(a, i)][Place(a, i)] = F[Home(b, k)][Place(b, k)]
      BY <1>4, <2>1, Zenon
    <3>2. DOMAIN F = H
      BY <1>1
    <3>3. \A x, y \in H : \A l \in DOMAIN F[x], m \in DOMAIN F[y] :
            F[x][l] = F[y][m] => x = y /\ l = m
      BY <3>2, Zenon DEF Once
    <3>4. PICK x \in H : x = Home(a, i)
      BY <3>1, Zenon
    <3>5. PICK y \in H : y = Home(b, k)
      BY <3>1, Zenon
    <3>6. PICK l \in DOMAIN F[x] : l = Place(a, i)
      BY <3>1, <3>4, Zenon
    <3>7. PICK m \in DOMAIN F[y] : m = Place(b, k)
      BY <3>1, <3>5, Zenon
    <3>8. F[x][l] = F[y][m]
      BY <3>1, <3>4, <3>5, <3>6, <3>7, Zenon
    <3>9. x = y /\ l = m
      BY <3>3, <3>8
    <3> QED
      BY <3>4, <3>5, <3>6, <3>7, <3>9
  <2>3. a \in {g, h} => i \in Nat /\ i >= 1
    BY <1>1, <1>2, <1>3
  <2>4. b \in {g, h} => k \in Nat /\ k >= 1
    BY <1>1, <1>2, <1>3
  <2> QED
    BY <2>2, <2>3, <2>4
<1>6. /\ ToSet(F[g]) = {F[g][i] : i \in 1 .. Len(F[g])}
      /\ ToSet(G[g]) = {F[g][i] : i \in (n + 1) .. Len(F[g])}
  BY <1>1, PartsHold
<1>7. ToSet(G[h]) = {F[g][i] : i \in 1 .. n} \cup ToSet(F[h])
  <2>1. 1 .. (n + Len(F[h])) = 1 .. n \cup (n + 1) .. (n + Len(F[h]))
    BY <1>1
  <2>2. \A i \in 1 .. Len(F[h]) : n + i \in (n + 1) .. (n + Len(F[h])) /\ (n + i) - n = i
    BY <1>1
  <2>3. \A x : x \in ToSet(G[h]) <=> \E i \in 1 .. (n + Len(F[h])) : x = G[h][i]
    BY <1>3 DEF ToSet
  <2>4. \A x : x \in ToSet(F[h]) <=> \E i \in 1 .. Len(F[h]) : x = F[h][i]
    BY <1>3 DEF ToSet
  <2>5. ASSUME NEW x \in ToSet(G[h])
        PROVE  x \in {F[g][i] : i \in 1 .. n} \cup ToSet(F[h])
    <3>1. PICK i \in 1 .. (n + Len(F[h])) : x = G[h][i]
      BY <2>3, <2>5
    <3>2. CASE i \in 1 .. n
      BY <1>3, <3>1, <3>2
    <3>3. CASE i \in (n + 1) .. (n + Len(F[h]))
      BY <1>3, <2>4, <3>1, <3>3
    <3> QED
      BY <2>1, <3>2, <3>3
  <2>6. ASSUME NEW x \in ToSet(F[h]) PROVE x \in ToSet(G[h])
    <3>1. PICK i \in 1 .. Len(F[h]) : x = F[h][i]
      BY <2>4, <2>6
    <3>2. n + i \in 1 .. (n + Len(F[h])) /\ G[h][n + i] = F[h][i]
      BY <1>3, <2>1, <2>2
    <3> QED
      BY <2>3, <3>1, <3>2
  <2>7. ASSUME NEW i \in 1 .. n PROVE F[g][i] \in ToSet(G[h])
    BY <1>3, <2>1, <2>3, <2>7
  <2> QED
    BY <2>5, <2>6, <2>7
<1>8. ToSet(G[g]) \cup ToSet(G[h]) = ToSet(F[g]) \cup ToSet(F[h])
  <2>1. 1 .. Len(F[g]) = 1 .. n \cup (n + 1) .. Len(F[g])
    BY <1>1
  <2> QED
    BY <1>6, <1>7, <2>1
<1>9. \A k \in H \ {g, h} : ToSet(G[k]) = ToSet(F[k])
  BY <1>1
<1>10. EventsIn(G) = EventsIn(F)
  <2>1. \A x : x \in EventsIn(F) <=> \E k \in H : x \in ToSet(F[k])
    BY <1>1 DEF EventsIn
  <2>2. \A x : x \in EventsIn(G) <=> \E k \in H : x \in ToSet(G[k])
    BY <1>1 DEF EventsIn
  <2> QED
    BY <1>8, <1>9, <2>1, <2>2
<1> QED
  BY <1>5, <1>10 DEF Passed

\* An event that is in none of them may join one.
LEMMA OnceAdd ==
  ASSUME NEW H, NEW S, NEW F \in [H -> Seq(S)], Once(F), NEW g \in H,
         NEW e \in S, e \notin EventsIn(F)
  PROVE  Once(Joined(F, g, e)) /\ EventsIn(Joined(F, g, e)) = EventsIn(F) \cup {e}
<1>0. PICK G : G = [F EXCEPT ![g] = Append(F[g], e)]
  OBVIOUS
<1> USE <1>0
<1>1. /\ F[g] \in Seq(S) /\ DOMAIN F = H /\ DOMAIN G = H /\ Len(F[g]) \in Nat
      /\ G[g] = Append(F[g], e) /\ \A h \in H \ {g} : G[h] = F[h]
  OBVIOUS
<1>2. /\ DOMAIN F[g] = 1 .. Len(F[g]) /\ DOMAIN G[g] = DOMAIN F[g] \cup {Len(F[g]) + 1}
      /\ G[g][Len(F[g]) + 1] = e /\ \A i \in DOMAIN F[g] : G[g][i] = F[g][i]
  BY <1>1
<1>3. \A h \in H : \A i \in DOMAIN F[h] : F[h][i] # e
  BY <1>1 DEF EventsIn, ToSet
<1>4. Once(G)
  BY <1>1, <1>2, <1>3 DEF Once
<1>5. ToSet(G[g]) = ToSet(F[g]) \cup {e}
  BY <1>2 DEF ToSet
<1>6. EventsIn(G) = EventsIn(F) \cup {e}
  BY <1>1, <1>5 DEF EventsIn
<1> QED
  BY <1>4, <1>6 DEF Joined

\* A record of events that are in no record of the log may be appended to it.
LEMMA OnceAppend ==
  ASSUME NEW S, NEW s \in Seq(Seq(S)), Once(s), NEW r \in Seq(S), IsInjective(r),
         ToSet(r) \cap EventsIn(s) = {}
  PROVE  Once(Append(s, r)) /\ EventsIn(Append(s, r)) = EventsIn(s) \cup ToSet(r)
<1> DEFINE u == Append(s, r)
<1>1. /\ DOMAIN s = 1 .. Len(s) /\ DOMAIN u = DOMAIN s \cup {Len(s) + 1}
      /\ u[Len(s) + 1] = r /\ \A i \in DOMAIN s : u[i] = s[i]
  OBVIOUS
<1>2. \A i \in DOMAIN s : \A m \in DOMAIN s[i] : \A l \in DOMAIN r : s[i][m] # r[l]
  <2>1. \A i \in DOMAIN s : ToSet(s[i]) \cap ToSet(r) = {}
    BY DEF EventsIn
  <2> QED
    BY <2>1 DEF ToSet
<1>3. Once(u)
  <2> HIDE DEF u
  <2> QED
    BY <1>1, <1>2 DEF Once, IsInjective
<1>4. EventsIn(u) = EventsIn(s) \cup ToSet(r)
  BY <1>1 DEF EventsIn
<1> QED
  BY <1>3, <1>4

\* What is left when the element at i is removed, and where it was.
RemainsAt(i, k) == IF k < i THEN k ELSE k + 1

LEMMA RemovedAt ==
  ASSUME NEW S, NEW s \in Seq(S), NEW i \in DOMAIN s
  PROVE  /\ DOMAIN RemoveAt(s, i) = 1 .. (Len(s) - 1)
         /\ \A k \in 1 .. (Len(s) - 1) : /\ RemainsAt(i, k) \in DOMAIN s \ {i}
                                         /\ RemoveAt(s, i)[k] = s[RemainsAt(i, k)]
<1> DEFINE u == RemoveAt(s, i)
<1>0. /\ Len(s) \in Nat /\ i \in 1 .. Len(s) /\ DOMAIN s = 1 .. Len(s)
  OBVIOUS
<1> DEFINE v == SubSeq(s, 1, i - 1)
           w == SubSeq(s, i + 1, Len(s))
<1>1. u = v \o w
  BY DEF RemoveAt
<1>2. /\ v \in Seq(S) /\ Len(v) = i - 1 /\ \A k \in 1 .. (i - 1) : v[k] = s[k]
  <2>1. i - 1 \in 0 .. Len(s) /\ s \in Seq(S)
    BY <1>0
  <2> QED
    BY <2>1, PartsOf
<1>3. /\ w \in Seq(S) /\ Len(w) = Len(s) - i
      /\ \A k \in 1 .. (Len(s) - i) : w[k] = s[i + k]
  <2>1. i \in 0 .. Len(s) /\ s \in Seq(S)
    BY <1>0
  <2> QED
    BY <2>1, PartsOf
<1> HIDE DEF u, v, w
<1>4. /\ DOMAIN u = 1 .. (Len(v) + Len(w))
      /\ \A k \in 1 .. Len(v) : u[k] = v[k]
      /\ \A k \in (Len(v) + 1) .. (Len(v) + Len(w)) : u[k] = w[k - Len(v)]
  <2>1. v \in Seq(S) /\ w \in Seq(S)
    BY <1>2, <1>3
  <2> QED
    BY <1>1, <2>1, ConcatOf, Zenon
<1>5. /\ Len(v) + Len(w) = Len(s) - 1 /\ Len(v) \in Nat /\ Len(w) \in Nat
      /\ Len(v) = i - 1 /\ i \in Int
  BY <1>0, <1>2, <1>3
<1>6. ASSUME NEW k \in 1 .. (Len(s) - 1), k < i PROVE u[k] = s[k]
  <2>1. k \in 1 .. (i - 1) /\ k \in 1 .. Len(v)
    BY <1>5, <1>6
  <2> QED
    BY <1>2, <1>4, <2>1
<1>7. ASSUME NEW k \in 1 .. (Len(s) - 1), ~(k < i) PROVE u[k] = s[k + 1]
  <2>1. /\ k - Len(v) \in 1 .. (Len(s) - i) /\ i + (k - Len(v)) = k + 1
        /\ k \in (Len(v) + 1) .. (Len(v) + Len(w))
    <3>1. k \in Int /\ i \in Int /\ Len(s) \in Int /\ Len(v) = i - 1
          /\ Len(w) = Len(s) - i /\ k <= Len(s) - 1 /\ k >= i
      BY <1>0, <1>3, <1>5, <1>7
    <3>2. \A x, y, z \in Int : x <= z - 1 /\ x >= y =>
            /\ x - (y - 1) \in 1 .. (z - y) /\ y + (x - (y - 1)) = x + 1
            /\ x \in ((y - 1) + 1) .. ((y - 1) + (z - y))
      OBVIOUS
    <3> QED
      BY <3>1, <3>2, Zenon
  <2> QED
    BY <1>3, <1>4, <2>1
<1>8. DOMAIN u = 1 .. (Len(s) - 1)
  BY <1>4, <1>5
<1>9. \A k \in 1 .. (Len(s) - 1) : RemainsAt(i, k) \in DOMAIN s \ {i}
  BY <1>0 DEF RemainsAt
<1> QED
  BY <1>0, <1>6, <1>7, <1>8, <1>9 DEF u, RemainsAt

\* A record that is removed takes its events with it.
LEMMA OnceRemove ==
  ASSUME NEW S, NEW s \in Seq(Seq(S)), Once(s), NEW i \in DOMAIN s
  PROVE  /\ Once(RemoveAt(s, i)) /\ EventsIn(RemoveAt(s, i)) = EventsIn(s) \ ToSet(s[i])
         /\ \A k \in DOMAIN RemoveAt(s, i) : \E l \in DOMAIN s : RemoveAt(s, i)[k] = s[l]
<1> DEFINE u == RemoveAt(s, i)
           From(k) == IF k < i THEN k ELSE k + 1
<1>1. /\ Len(s) \in Nat /\ i \in 1 .. Len(s) /\ DOMAIN s = 1 .. Len(s)
  OBVIOUS
<1>2. /\ DOMAIN u = 1 .. (Len(s) - 1)
      /\ \A k \in DOMAIN u : u[k] = s[From(k)]
  <2>1. /\ DOMAIN u = 1 .. (Len(s) - 1)
        /\ \A k \in 1 .. (Len(s) - 1) : u[k] = s[RemainsAt(i, k)]
    BY RemovedAt
  <2> HIDE DEF u
  <2> QED
    BY <2>1 DEF RemainsAt
<1>3. \A k \in DOMAIN u : From(k) \in DOMAIN s \ {i}
  BY <1>1, <1>2
<1>4. \A l \in DOMAIN s \ {i} : \E k \in DOMAIN u : l = From(k)
  <2>1. SUFFICES ASSUME NEW l \in DOMAIN s \ {i} PROVE \E k \in DOMAIN u : l = From(k)
    OBVIOUS
  <2>2. CASE l < i
    BY <1>1, <1>2, <2>2
  <2>3. CASE l > i
    <3>1. l - 1 \in DOMAIN u /\ l = From(l - 1)
      BY <1>1, <1>2, <2>3
    <3> QED
      BY <3>1
  <2> QED
    BY <1>1, <2>2, <2>3
<1>5. \A k, l \in DOMAIN u : From(k) = From(l) => k = l
  BY <1>1, <1>2
<1>6. Once(u)
  BY <1>2, <1>3, <1>5 DEF Once
<1>7. EventsIn(u) = UNION {ToSet(s[l]) : l \in DOMAIN s \ {i}}
  BY <1>2, <1>3, <1>4 DEF EventsIn
<1>8. \A l \in DOMAIN s \ {i} : ToSet(s[l]) \cap ToSet(s[i]) = {}
  BY DEF Once, ToSet
<1>9. EventsIn(u) = EventsIn(s) \ ToSet(s[i])
  BY <1>7, <1>8 DEF EventsIn
<1> QED
  BY <1>2, <1>3, <1>6, <1>9

\* A part of a sequence that holds each event once does so too, and it has as many
\* events as places.
LEMMA OncePrefix ==
  ASSUME NEW S, NEW s \in Seq(S), IsInjective(s), NEW n \in 0 .. Len(s)
  PROVE  /\ IsInjective(SubSeq(s, 1, n))
         /\ IsFiniteSet(ToSet(SubSeq(s, 1, n))) /\ Cardinality(ToSet(SubSeq(s, 1, n))) = n
<1> DEFINE p == SubSeq(s, 1, n)
<1>1. DOMAIN p = 1 .. n /\ \A i \in 1 .. n : p[i] = s[i] /\ i \in DOMAIN s
  BY PartsOf
<1>2. IsInjective(p)
  BY <1>1 DEF IsInjective
<1>3. p \in Bijection(1 .. n, ToSet(p))
  <2> HIDE DEF p
  <2>1. p \in [1 .. n -> ToSet(p)] /\ \A x \in ToSet(p) : \E i \in 1 .. n : p[i] = x
    <3>1. p \in Seq(S)
      BY PartsOf DEF p
    <3>2. p = [i \in 1 .. n |-> p[i]]
      BY <1>1, <3>1
    <3> QED
      BY <1>1, <3>2 DEF ToSet
  <2> QED
    BY <1>1, <1>2, <2>1 DEF Bijection, Injection, Surjection, IsInjective
<1>4. IsFiniteSet(1 .. n) /\ Cardinality(1 .. n) = n
  BY FS_Interval
<1>5. IsFiniteSet(ToSet(p)) /\ Cardinality(ToSet(p)) = Cardinality(1 .. n)
  BY <1>3, <1>4, FS_Bijection DEF ExistsBijection
<1> QED
  BY <1>2, <1>4, <1>5

-----------------------------------------------------------------------------
(* Who has which events in hand.                                           *)

InQueue == <<"queue", Worker>>
InBatch(t) == <<"batch", t>>
InHands(c) == <<"shutdown", c>>

\* A shutdown never gives events back.
Carriers == {InQueue} \cup {InBatch(t) : t \in Threads}

\* There are the queue, a batch of every thread, and what every shutdown took.
LEMMA HoldersAre ==
  /\ InQueue \in Holders
  /\ \A t \in Threads : InBatch(t) \in Holders /\ InBatch(t) # InQueue
  /\ \A c \in Callers : InHands(c) \in Holders /\ InHands(c) # InQueue
  /\ \A t, c : InBatch(t) # InHands(c)
  /\ \A t, u : InBatch(t) = InBatch(u) \/ InHands(t) = InHands(u) => t = u
  /\ \A h \in Holders : \/ h = InQueue
                        \/ \E t \in Threads : h = InBatch(t)
                        \/ \E c \in Callers : h = InHands(c)
  BY DEF Holders, InQueue, InBatch, InHands

\* What each of them has.
LEMMA HoldingIs ==
  /\ DOMAIN Holding = Holders
  /\ Holding[InQueue] = queue
  /\ \A t \in Threads : Holding[InBatch(t)] = Unresolved(t)
  /\ \A c \in Callers : Holding[InHands(c)] = Unwritten(c)
  BY HoldersAre DEF Holding, HeldBy, InQueue, InBatch, InHands

\* The same after a step.
LEMMA HoldingIsNext ==
  /\ DOMAIN Holding' = Holders
  /\ Holding'[InQueue] = queue'
  /\ \A t \in Threads : Holding'[InBatch(t)] = Unresolved(t)'
  /\ \A c \in Callers : Holding'[InHands(c)] = Unwritten(c)'
  BY HoldersAre DEF Holding, HeldBy, InQueue, InBatch, InHands

\* It is a sequence of events, in a known order.
LEMMA HoldingTypes ==
  ASSUME IInv
  PROVE  /\ Holding \in [Holders -> Seq(Event)]
         /\ \A t \in Threads : /\ Unresolved(t) \in Seq(Event)
                               /\ Len(Unresolved(t)) = Len(job[t].batch) - job[t].done
         /\ \A c \in Callers : Unwritten(c) \in Seq(Event)
<1>1. ASSUME NEW t \in Threads
      PROVE  /\ Unresolved(t) \in Seq(Event)
             /\ Len(Unresolved(t)) = Len(job[t].batch) - job[t].done
  <2>1. job[t].batch \in Seq(Event) /\ job[t].done \in 0 .. Len(job[t].batch)
    BY DEF IInv, TypeOK, Jobs, JobsWellFormed, WellFormed
  <2> QED
    BY <2>1, PartsOf DEF Unresolved
<1>2. ASSUME NEW c \in Callers PROVE Unwritten(c) \in Seq(Event)
  <2>1. taken[c] \in Seq(Event) /\ (pc[c] = "confirm" => taken[c] # <<>>)
    BY DEF IInv, TypeOK, NothingStranded
  <2> QED
    BY <2>1 DEF Unwritten
<1>3. queue \in Seq(Event)
  BY DEF IInv, TypeOK
<1>4. \A h \in Holders : Holding[h] \in Seq(Event)
  BY <1>1, <1>2, <1>3, HoldingIs, HoldersAre
<1>5. Holding = [h \in Holders |-> Holding[h]]
  <2>1. PICK F : F = Holding
    OBVIOUS
  <2>2. F = [h \in Holders |-> F[h]]
    BY <2>1 DEF Holding
  <2> QED
    BY <2>1, <2>2, Zenon
<1> QED
  BY <1>1, <1>2, <1>4, <1>5

\* A family is what it has at each holder.
LEMMA SameHolding ==
  ASSUME NEW F, DOMAIN F = Holders, F = [h \in DOMAIN F |-> F[h]],
         F[InQueue] = queue', \A t \in Threads : F[InBatch(t)] = Unresolved(t)',
         \A c \in Callers : F[InHands(c)] = Unwritten(c)'
  PROVE  Holding' = F
<1>1. \A h \in Holders : Holding'[h] = F[h]
  BY HoldingIsNext, HoldersAre
<1>2. Holding' = [h \in Holders |-> Holding'[h]]
  <2>1. PICK f : f = Holding'
    OBVIOUS
  <2>2. f = [h \in Holders |-> f[h]]
    BY <2>1 DEF Holding
  <2> QED
    BY <2>1, <2>2, Zenon
<1> QED
  BY <1>1, <1>2

\* A thread that moves alone leaves to the others what they are sending and writing.
Alone(t) ==
  \A u \in Threads \ {t} :
    /\ job'[u] = job[u] /\ (u \in Callers => taken'[u] = taken[u])
    /\ \A place \in {"post", "confirm"} : pc'[u] = place <=> pc[u] = place

\* Waking others does not disturb them.
LEMMA MovesAlone ==
  ASSUME TypeOK, NEW t \in Threads, NEW place, Move(t, place) \/ MoveAndNotify(t, place)
  PROVE  /\ pc'[t] = place
         /\ \A u \in Threads \ {t} : \A p \in {"post", "confirm"} : pc'[u] = p <=> pc[u] = p
<1>1. pc \in [Threads -> Places] /\ Notified(pc) \in [Threads -> Places]
  BY NotifiedTypes DEF TypeOK
<1>2. \A u \in Threads : \A p \in {"post", "confirm"} : Notified(pc)[u] = p <=> pc[u] = p
  BY DEF Notified, Awake
<1>3. pc' = [pc EXCEPT ![t] = place] \/ pc' = [Notified(pc) EXCEPT ![t] = place]
  BY DEF Move, MoveAndNotify
<1> QED
  BY <1>1, <1>2, <1>3

\* Nothing changes hands in a step that leaves a thread its batch and its events.
LEMMA HoldingAlone ==
  ASSUME IInv, NEW t \in Threads, Alone(t)
  PROVE  /\ \A u \in Threads \ {t} : Unresolved(u)' = Holding[InBatch(u)]
         /\ \A c \in Callers \ {t} : Unwritten(c)' = Holding[InHands(c)]
<1>1. Callers \subseteq Threads
  BY DEF Threads
<1>2. ASSUME NEW u \in Threads \ {t} PROVE Unresolved(u)' = Holding[InBatch(u)]
  BY HoldingIs DEF Unresolved, Alone
<1>3. ASSUME NEW c \in Callers \ {t} PROVE Unwritten(c)' = Holding[InHands(c)]
  <2>1. taken'[c] = taken[c] /\ (pc'[c] = "confirm" <=> pc[c] = "confirm")
    BY <1>1 DEF Alone
  <2> QED
    BY <2>1, HoldingIs DEF Unwritten
<1> QED
  BY <1>2, <1>3

\* What is on the wire while, before and after one thread posts.
LEMMA WireAlone ==
  ASSUME IInv, NEW t \in Threads, Alone(t)
  PROVE  /\ /\ pc'[t] = "post" <=> pc[t] = "post"
            /\ pc[t] = "post" => job'[t] = job[t]
            => OnTheWire' = OnTheWire
         /\ pc[t] = "post" => OnTheWire = ToSet(Segment(t))
         /\ pc[t] = "post" /\ pc'[t] # "post" => OnTheWire' = {}
         /\ LockFree => OnTheWire = {}
         /\ LockFree /\ pc'[t] = "post" => OnTheWire' = ToSet(Segment(t)')
<1> DEFINE Post == {u \in Threads : pc[u] = "post"}
<1>1. \A u \in Threads \ {t} : Segment(u)' = Segment(u) /\ (pc'[u] = "post" <=> pc[u] = "post")
  BY DEF Segment, Alone
<1>2. \A u, v \in Post : u = v
  BY DEF IInv, OneDelivery
<1>3. OnTheWire = UNION {ToSet(Segment(u)) : u \in Post}
  BY DEF OnTheWire
<1>4. OnTheWire' = UNION {ToSet(Segment(u)') : u \in {v \in Threads : pc'[v] = "post"}}
  BY DEF OnTheWire
<1>5. ASSUME pc'[t] = "post" <=> pc[t] = "post", pc[t] = "post" => job'[t] = job[t]
      PROVE  OnTheWire' = OnTheWire
  <2>1. {v \in Threads : pc'[v] = "post"} = Post
    BY <1>1, <1>5
  <2>2. \A u \in Post : Segment(u)' = Segment(u)
    BY <1>1, <1>5 DEF Segment
  <2> QED
    BY <1>3, <1>4, <2>1, <2>2
<1>6. pc[t] = "post" => OnTheWire = ToSet(Segment(t))
  BY <1>2, <1>3
<1>7. pc[t] = "post" /\ pc'[t] # "post" => OnTheWire' = {}
  <2>1. pc[t] = "post" /\ pc'[t] # "post" => {v \in Threads : pc'[v] = "post"} = {}
    BY <1>1, <1>2
  <2> QED
    BY <1>4, <2>1
<1>8. LockFree => Post = {}
  BY DEF LockFree
<1>9. LockFree /\ pc'[t] = "post" => {v \in Threads : pc'[v] = "post"} = {t}
  BY <1>1, <1>8
<1> QED
  BY <1>3, <1>4, <1>5, <1>6, <1>7, <1>8, <1>9

\* The first segment of a batch is the first part of what is unresolved, and after
\* it comes the rest.
LEMMA SegmentFirst ==
  ASSUME IInv, NEW t \in Threads, job[t].ends # <<>>
  PROVE  /\ SegmentLen(t) \in 1 .. Len(Unresolved(t))
         /\ Segment(t) = SubSeq(Unresolved(t), 1, SegmentLen(t))
         /\ SubSeq(job[t].batch, Head(job[t].ends) + 1, Len(job[t].batch))
              = SubSeq(Unresolved(t), SegmentLen(t) + 1, Len(Unresolved(t)))
<1> DEFINE b == job[t].batch
           d == job[t].done
           h == Head(job[t].ends)
<1>1. /\ b \in Seq(Event) /\ Len(b) \in Nat /\ d \in Nat /\ h \in Nat
      /\ d < h /\ h <= Len(b)
  BY HeadSegment DEF IInv, Jobs
<1>2. \A s \in Seq(Event) : \A x, y \in Nat : x < y /\ y <= Len(s) =>
        /\ Len(SubSeq(s, x + 1, Len(s))) = Len(s) - x
        /\ SubSeq(s, x + 1, y) = SubSeq(SubSeq(s, x + 1, Len(s)), 1, y - x)
        /\ SubSeq(s, y + 1, Len(s))
             = SubSeq(SubSeq(s, x + 1, Len(s)), (y - x) + 1, Len(s) - x)
  OBVIOUS
<1> HIDE DEF b, d, h
<1>3. /\ Len(SubSeq(b, d + 1, Len(b))) = Len(b) - d
      /\ SubSeq(b, d + 1, h) = SubSeq(SubSeq(b, d + 1, Len(b)), 1, h - d)
      /\ SubSeq(b, h + 1, Len(b))
           = SubSeq(SubSeq(b, d + 1, Len(b)), (h - d) + 1, Len(b) - d)
  BY <1>1, <1>2
<1>4. h - d \in 1 .. (Len(b) - d)
  BY <1>1
<1> QED
  BY <1>3, <1>4 DEF Segment, SegmentLen, Unresolved, b, d, h

-----------------------------------------------------------------------------
(* The ways in which a step moves events.                                  *)

\* The events on the wire that the log shares with memory, and the public totals.
Wire == IF enabled THEN OnTheWire ELSE {}
Counted == delivered + lost

\* No shutdown has just written an event, and the log is as it was.
NoneWrites ==
  \A c \in Callers : pc'[c] = "confirm" => pc[c] = "confirm" /\ taken'[c] = taken[c]
LogStays == wal' = wal /\ Wire' = Wire

\* The record of the batch on the wire is acknowledged.
Acknowledges(r) ==
  /\ Wire = ToSet(r) /\ Wire' = {}
  /\ \E i \in DOMAIN wal : wal[i] = r /\ wal' = RemoveAt(wal, i)

\* The first events of a holder leave its hands and get a fate.
First(g, n) == SubSeq(Holding[g], 1, n)
After(g, n) == SubSeq(Holding[g], n + 1, Len(Holding[g]))
Leave(g, n, f) ==
  /\ g \in Holders /\ n \in 0 .. Len(Holding[g])
  /\ Holding' = [Holding EXCEPT ![g] = After(g, n)]
  /\ fate' = SetFate(ToSet(First(g, n)), f)
  /\ UNCHANGED submitted

Comes ==
  submitted' = submitted + 1 /\ submitted' \in Event /\ LogStays /\ NoneWrites

Idles == UNCHANGED <<Holding, fate, submitted, Counted>> /\ LogStays /\ NoneWrites

Refuses ==
  /\ Comes /\ UNCHANGED Holding
  /\ \E f \in {"refused", "lost"} : fate' = SetFate({submitted'}, f)
  /\ Counted' \in {Counted, Counted + 1}

\* add() has room in the queue, and its thread dispatches nothing.
Accepts ==
  /\ Comes /\ ~QueueFull /\ \E c \in Callers : job[c].batch = <<>>
  /\ Holding' = [Holding EXCEPT ![InQueue] = Append(queue, submitted')]
  /\ fate' = SetFate({submitted'}, "held") /\ UNCHANGED Counted

\* The first events of one holder go to the head of another.
PassesOn(g, h, n) ==
  Holding' = [Holding EXCEPT ![g] = After(g, n), ![h] = First(g, n) \o Holding[h]]

\* Events are popped, or taken by a shutdown; or a segment is put back at the head.
Dequeues(h) ==
  /\ h # InQueue /\ Holding[h] = <<>>
  /\ \E n \in 0 .. Len(queue) : PassesOn(InQueue, h, n)
PutsBack(t) == job[t].ends # <<>> /\ PassesOn(InBatch(t), InQueue, SegmentLen(t))

Passes ==
  /\ (\E h \in Holders : Dequeues(h)) \/ (\E t \in Threads : PutsBack(t))
  /\ UNCHANGED <<fate, submitted, Counted>> /\ LogStays /\ NoneWrites

\* Events get their answer; only what was posted is delivered.
Settles(g, n) ==
  /\ n > 0 /\ g # InQueue
  /\ \E f \in {"delivered", "lost"} :
       Leave(g, n, f) /\ (f = "delivered" => \E t \in Threads : pc[t] = "post")
  /\ Counted' = Counted + n /\ NoneWrites
  /\ \/ LogStays /\ ToSet(First(g, n)) \cap Wire = {}
     \/ enabled /\ Acknowledges(First(g, n))

\* A batch that failed stays in the log.
Retains(g, n) ==
  /\ n > 0 /\ g # InQueue /\ Leave(g, n, "stored") /\ enabled
  /\ Wire = ToSet(First(g, n)) /\ Wire' = {} /\ wal' = wal
  /\ UNCHANGED Counted /\ NoneWrites

Persists(c) ==
  /\ Leave(InHands(c), 1, "stored") /\ First(InHands(c), 1) = <<Head(taken[c])>>
  /\ wal' = Append(wal, <<Head(taken[c])>>)
  /\ Wire' = Wire /\ Head(taken[c]) \notin Wire
  /\ pc'[c] = "confirm" /\ UNCHANGED <<Counted, taken>>
  /\ \A d \in Callers \ {c} : pc'[d] = "confirm" => pc[d] = "confirm"

Splits ==
  /\ UNCHANGED <<Holding, fate, submitted, Counted>> /\ NoneWrites
  /\ enabled /\ \E r \in Seq(Event) : Acknowledges(r)

Posts ==
  /\ UNCHANGED <<Holding, fate, submitted, Counted>> /\ NoneWrites /\ Wire = {}
  /\ \E t \in Threads : pc[t] = "deliver"
  /\ \E g \in Holders : \E n \in 1 .. Len(Holding[g]) :
       wal' = Append(wal, First(g, n)) /\ Wire' = ToSet(First(g, n))

Replays ==
  /\ UNCHANGED <<Holding, submitted, Counted>> /\ NoneWrites /\ Wire = {} /\ Wire' = {}
  /\ 1 \in DOMAIN wal /\ wal' = RemoveAt(wal, 1)
  /\ \E f \in {"replayed", "rejected"} : fate' = SetFate(ToSet(wal[1]), f)

\* A shutdown does not find the event it wrote, and gives up the rest.
Recounts(c) ==
  /\ pc[c] = "confirm" /\ \A i \in DOMAIN wal : wal[i] # <<Head(taken[c])>>
  /\ Leave(InHands(c), Len(Unwritten(c)), "lost")
  /\ Counted' = Counted + Len(Unwritten(c)) + 1
  /\ LogStays /\ NoneWrites /\ ToSet(Unwritten(c)) \cap Wire = {}

Moved ==
  \/ Idles \/ Refuses \/ Accepts \/ Passes \/ Splits \/ Posts \/ Replays
  \/ \E g \in Holders : \E n \in 1 .. Len(Holding[g]) : Settles(g, n) \/ Retains(g, n)
  \/ \E c \in Callers : Persists(c) \/ Recounts(c)

\* Events are numbered as they come.
NewEvents == \A e \in Event : fate[e] = "new" <=> e > submitted

\* What a shutdown has written is its own, and not in memory, nor in a larger record.
Written ==
  \A c \in Callers : pc[c] = "confirm" =>
    /\ fate[Head(taken[c])] \notin {"new", "held", "parent"}
    /\ \A i \in DOMAIN wal :
         Head(taken[c]) \in ToSet(wal[i]) => wal[i] = <<Head(taken[c])>>

CustodyInv == IInv /\ Conservation /\ NewEvents /\ Written

-----------------------------------------------------------------------------
(* Every step is one of them.                                              *)

\* A step that moves no event, and brings no thread to the wire or to the log.
LEMMA QuietStep ==
  ASSUME IInv, UNCHANGED <<queue, job, taken, enabled, wal>>,
         \A u \in Threads : \A p \in {"post", "confirm"} : pc'[u] = p <=> pc[u] = p
  PROVE  UNCHANGED Holding /\ LogStays /\ NoneWrites
<1>0. Worker \in Threads /\ Callers \subseteq Threads
  BY DEF Threads
<1>1. Alone(Worker)
  BY DEF Alone
<1>2. OnTheWire' = OnTheWire
  BY <1>0, <1>1, WireAlone
<1>3. \A c \in Callers : Unwritten(c)' = Unwritten(c)
  BY <1>0 DEF Unwritten
<1>4. \A t \in Threads : Unresolved(t)' = Unresolved(t)
  BY DEF Unresolved
<1>5. Holding' = Holding
  BY <1>3, <1>4, HoldingTypes, HoldingIs, SameHolding
<1>6. NoneWrites
  BY <1>0 DEF NoneWrites
<1> QED
  BY <1>2, <1>5, <1>6 DEF LogStays, Wire

\* The same of a thread that moves from and to other places.
LEMMA QuietMove ==
  ASSUME IInv, UNCHANGED <<queue, job, taken, enabled, wal>>, NEW t \in Threads, NEW place,
         {place, pc[t]} \cap {"post", "confirm"} = {},
         Move(t, place) \/ MoveAndNotify(t, place)
  PROVE  UNCHANGED Holding /\ LogStays /\ NoneWrites
<1>1. pc'[t] = place
      /\ \A u \in Threads \ {t} : \A p \in {"post", "confirm"} : pc'[u] = p <=> pc[u] = p
  BY MovesAlone DEF IInv
<1> QED
  BY <1>1, QuietStep

\* add() refuses an event, or takes it to the queue.
LEMMA AddMoves ==
  ASSUME IInv, NEW c \in Callers, Add(c)
  PROVE  Moved
<1>0. TypeOK /\ c \in Threads /\ submitted \in 0 .. MaxEvents /\ MaxEvents \in Nat
      /\ delivered \in Nat /\ lost \in Nat
  BY ManagerAssumption DEF IInv, TypeOK, Threads
<1>1. submitted' = submitted + 1 /\ submitted' \in Event
  BY <1>0 DEF Add, AddRefused, AddOverflows, AddAccepted, CanAdd, Event
<1>2. CASE AddRefused(c) \/ AddOverflows(c)
  <2>1. UNCHANGED <<queue, job, taken, enabled, wal, pc, delivered>>
    BY <1>2 DEF AddRefused, AddOverflows, memory, log, control, counters
  <2>2. UNCHANGED Holding /\ LogStays /\ NoneWrites
    BY <2>1, QuietStep
  <2>3. \E f \in {"refused", "lost"} : fate' = SetFate({submitted'}, f)
    BY <1>2 DEF AddRefused, AddOverflows
  <2>4. Counted' \in {Counted, Counted + 1}
    BY <1>0, <1>2 DEF AddRefused, AddOverflows, Counted, counters
  <2> QED
    BY <1>1, <2>2, <2>3, <2>4 DEF Refuses, Comes, Moved
<1>3. CASE AddAccepted(c)
  <2>1. UNCHANGED <<job, taken, enabled, wal, delivered, lost>> /\ queue' = Append(queue, submitted')
        /\ MoveAndNotify(c, "ensure") /\ pc[c] = "idle" /\ fate' = SetFate({submitted'}, "held")
        /\ ~QueueFull
    BY <1>3 DEF AddAccepted, log, counters, CanAdd, CanCall
  <2>2. /\ pc'[c] = "ensure"
        /\ \A u \in Threads \ {c} : \A p \in {"post", "confirm"} : pc'[u] = p <=> pc[u] = p
    BY <1>0, <2>1, MovesAlone
  <2>3. \A u \in Threads : \A p \in {"post", "confirm"} : pc'[u] = p <=> pc[u] = p
    BY <2>1, <2>2
  <2>4. Alone(c)
    BY <2>1, <2>3 DEF Alone
  <2>5. OnTheWire' = OnTheWire
    BY <1>0, <2>1, <2>3, <2>4, WireAlone
  <2>6. NoneWrites
    BY <2>1, <2>3 DEF NoneWrites, Threads
  <2>7. /\ \A d \in Callers : Unwritten(d)' = Unwritten(d)
        /\ \A t \in Threads : Unresolved(t)' = Unresolved(t)
    BY <2>1, <2>3 DEF Unwritten, Unresolved, Threads
  <2> DEFINE F == [Holding EXCEPT ![InQueue] = Append(queue, submitted')]
  <2>8. Holding' = F
    <3>1. DOMAIN F = Holders /\ F = [h \in DOMAIN F |-> F[h]]
      BY HoldingTypes
    <3>2. /\ F[InQueue] = queue'
          /\ \A h \in Holders \ {InQueue} : F[h] = Holding[h]
      BY <2>1, HoldingTypes, HoldersAre
    <3>3. /\ \A t \in Threads : F[InBatch(t)] = Unresolved(t)'
          /\ \A d \in Callers : F[InHands(d)] = Unwritten(d)'
      BY <2>7, <3>2, HoldingIs, HoldersAre
    <3> HIDE DEF F
    <3> QED
      BY <3>1, <3>2, <3>3, SameHolding
  <2>9. job[c].batch = <<>>
    BY <1>0, <2>1 DEF IInv, JobsWellFormed, WellFormed, Dispatching
  <2> QED
    BY <1>1, <2>1, <2>5, <2>6, <2>8, <2>9
    DEF Accepts, Comes, Moved, LogStays, Wire, Counted
<1> QED
  BY <1>2, <1>3 DEF Add

\* Two holders change, and nothing else does.
LEMMA TwoHolders ==
  ASSUME IInv, NEW g \in Holders, NEW h \in Holders, g # h,
         \A k \in Holders \ {g, h} : Holding'[k] = Holding[k]
  PROVE  Holding' = [Holding EXCEPT ![g] = Holding'[g], ![h] = Holding'[h]]
<1> DEFINE F == [Holding EXCEPT ![g] = Holding'[g], ![h] = Holding'[h]]
<1>1. DOMAIN F = Holders /\ F = [k \in DOMAIN F |-> F[k]]
  BY HoldingTypes
<1>2. F[g] = Holding'[g] /\ F[h] = Holding'[h] /\ \A k \in Holders \ {g, h} : F[k] = Holding[k]
  BY HoldingTypes
<1>3. \A k \in Holders : F[k] = Holding'[k]
  BY <1>2
<1> HIDE DEF F
<1>4. Holding' = F
  BY <1>1, <1>3, HoldersAre, HoldingIsNext, SameHolding
<1> QED
  BY <1>4 DEF F

\* One does.
LEMMA OneHolder ==
  ASSUME IInv, NEW g \in Holders, \A k \in Holders \ {g} : Holding'[k] = Holding[k]
  PROVE  Holding' = [Holding EXCEPT ![g] = Holding'[g]]
<1> DEFINE F == [Holding EXCEPT ![g] = Holding'[g]]
<1>1. DOMAIN F = Holders /\ F = [k \in DOMAIN F |-> F[k]]
  BY HoldingTypes
<1>2. F[g] = Holding'[g] /\ \A k \in Holders \ {g} : F[k] = Holding[k]
  BY HoldingTypes
<1>3. \A k \in Holders : F[k] = Holding'[k]
  BY <1>2
<1> HIDE DEF F
<1>4. Holding' = F
  BY <1>1, <1>3, HoldersAre, HoldingIsNext, SameHolding
<1> QED
  BY <1>4 DEF F

\* A step of a thread that moves alone changes the queue, and what it has itself.
LEMMA OthersKeepTheirs ==
  ASSUME IInv, NEW t \in Threads, Alone(t)
  PROVE  /\ \A h \in Holders \ {InQueue, InBatch(t), InHands(t)} : Holding'[h] = Holding[h]
         /\ UNCHANGED queue => Holding'[InQueue] = Holding[InQueue]
         /\ job'[t].batch = job[t].batch /\ job'[t].done = job[t].done
              => Holding'[InBatch(t)] = Holding[InBatch(t)]
         /\ t \in Callers /\ taken'[t] = taken[t] /\ "confirm" \notin {pc[t], pc'[t]}
              => Holding'[InHands(t)] = Holding[InHands(t)]
         /\ t \notin Callers => InHands(t) \notin Holders
<1>1. ASSUME NEW h \in Holders \ {InQueue, InBatch(t), InHands(t)}
      PROVE  Holding'[h] = Holding[h]
  BY <1>1, HoldersAre, HoldingAlone, HoldingIsNext
<1>2. UNCHANGED queue => Holding'[InQueue] = Holding[InQueue]
  BY HoldingIs, HoldingIsNext
<1>3. job'[t].batch = job[t].batch /\ job'[t].done = job[t].done
        => Holding'[InBatch(t)] = Holding[InBatch(t)]
  BY HoldingIs, HoldingIsNext DEF Unresolved
<1>4. t \in Callers /\ taken'[t] = taken[t] /\ "confirm" \notin {pc[t], pc'[t]}
        => Holding'[InHands(t)] = Holding[InHands(t)]
  BY HoldingIs, HoldingIsNext DEF Unwritten
<1>5. t \notin Callers => InHands(t) \notin Holders
  BY DEF InHands, Holders
<1> QED
  BY <1>1, <1>2, <1>3, <1>4, <1>5

\* A popped batch passes from the queue to a thread that had none.
LEMMA PopMoves ==
  ASSUME IInv, NEW t \in Threads, pc[t] \notin Dispatching \cup {"confirm"}, queue # <<>>,
         Pop(t, AtMostFlushSize), Move(t, "recover"),
         UNCHANGED <<taken, enabled, wal, fate, submitted, delivered, lost>>
  PROVE  Passes
<1> DEFINE n == AtMostFlushSize
<1>0. TypeOK /\ queue \in Seq(Event) /\ job \in [Threads -> Jobs]
  BY DEF IInv, TypeOK
<1>1. n \in 1 .. Len(queue)
  BY <1>0, PopTypes
<1> HIDE DEF n
<1>2. /\ queue' = SubSeq(queue, n + 1, Len(queue))
      /\ job' = [job EXCEPT ![t] = [batch |-> SubSeq(queue, 1, n), done |-> 0,
                                    ends |-> <<n>>, budget |-> MaxSplitSends, out |-> "ok"]]
  BY DEF Pop, n
<1>3. pc'[t] = "recover"
      /\ \A u \in Threads \ {t} : \A p \in {"post", "confirm"} : pc'[u] = p <=> pc[u] = p
  BY <1>0, MovesAlone
<1>4. Alone(t)
  BY <1>0, <1>2, <1>3 DEF Alone
<1>5. pc[t] # "post" /\ pc'[t] # "post"
  BY <1>3 DEF Dispatching
<1>6. LogStays /\ NoneWrites
  <2>1. OnTheWire' = OnTheWire
    BY <1>4, <1>5, WireAlone
  <2> QED
    BY <1>3, <2>1 DEF LogStays, Wire, NoneWrites, Threads
<1>7. Holding[InBatch(t)] = <<>>
  <2>1. job[t].batch = <<>>
    BY DEF IInv, JobsWellFormed, WellFormed
  <2>2. Unresolved(t) \in Seq(Event) /\ Len(Unresolved(t)) = Len(job[t].batch) - job[t].done
        /\ job[t].done \in Nat /\ job[t].done <= Len(job[t].batch)
    BY HoldingTypes DEF IInv, TypeOK, Jobs, JobsWellFormed, WellFormed
  <2>3. Len(Unresolved(t)) = 0
    BY <2>1, <2>2
  <2> QED
    BY <2>2, <2>3, HoldingIs
<1>8. Holding'[InBatch(t)] = SubSeq(queue, 1, n)
  <2>1. job'[t].batch = SubSeq(queue, 1, n) /\ job'[t].done = 0
    BY <1>0, <1>2
  <2>2. Unresolved(t)' = SubSeq(SubSeq(queue, 1, n), 1, Len(SubSeq(queue, 1, n)))
    BY <2>1 DEF Unresolved
  <2>3. \A s \in Seq(Event) : SubSeq(s, 1, Len(s)) = s
    OBVIOUS
  <2>4. SubSeq(queue, 1, n) \in Seq(Event)
    BY <1>0, <1>1, PartsOf
  <2> QED
    BY <2>2, <2>3, <2>4, HoldingIsNext
<1>9. InQueue \in Holders /\ InBatch(t) \in Holders /\ InQueue # InBatch(t)
  BY HoldersAre
<1>10. /\ Holding'[InQueue] = After(InQueue, n)
       /\ Holding'[InBatch(t)] = First(InQueue, n) \o Holding[InBatch(t)]
  <2>1. Holding[InQueue] = queue /\ Holding'[InQueue] = queue'
    BY HoldingIs, HoldingIsNext
  <2>2. SubSeq(queue, 1, n) \o <<>> = SubSeq(queue, 1, n)
    BY <1>0, <1>1
  <2> QED
    BY <1>2, <1>7, <1>8, <2>1, <2>2 DEF First, After
<1>11. \A h \in Holders \ {InQueue, InBatch(t)} : Holding'[h] = Holding[h]
  BY <1>3, <1>4, OthersKeepTheirs
<1>12. Holding' = [Holding EXCEPT ![InQueue] = After(InQueue, n),
                                  ![InBatch(t)] = First(InQueue, n) \o Holding[InBatch(t)]]
  BY <1>9, <1>10, <1>11, TwoHolders
<1>13. n \in 0 .. Len(queue)
  BY <1>0, <1>1
<1>14. Dequeues(InBatch(t))
  BY <1>7, <1>9, <1>12, <1>13 DEF Dequeues, PassesOn
<1> QED
  BY <1>6, <1>9, <1>14 DEF Passes, Counted

\* Callers that add, flush or shut down move no events but with a pop.
LEMMA CallerMoves ==
  ASSUME IInv, NEW c \in Callers,
         \/ FlushCalled(c) \/ ShutdownBegins(c) \/ EnsureWorker(c) \/ FlushStep(c)
         \/ DeadlinePasses(c) \/ ShutdownJoins(c) \/ ShutdownMarksFinite(c)
  PROVE  Moved
<1> USE DEF flags, counters, log, memory, history, control
<1>0. TypeOK /\ c \in Threads
  BY DEF IInv, Threads
<1>1. CASE FlushTakes(c)
  <2>1. Passes
    BY <1>0, <1>1, PopMoves DEF FlushTakes, Dispatching
  <2> QED
    BY <2>1 DEF Moved
<1>2. CASE EnsureWorker(c)
  <2>1. UNCHANGED <<queue, job, taken, enabled, wal, fate, submitted, delivered, lost>>
    BY <1>2 DEF EnsureWorker
  <2>2. \A u \in Threads : \A p \in {"post", "confirm"} : pc'[u] = p <=> pc[u] = p
    BY <1>0, <1>2 DEF EnsureWorker, Move, TypeOK
  <2> QED
    BY <2>1, <2>2, QuietStep DEF Idles, Moved, Counted
<1>3. CASE DeadlinePasses(c)
  <2>1. UNCHANGED <<queue, job, taken, enabled, wal, fate, submitted, delivered, lost>>
    BY <1>3 DEF DeadlinePasses
  <2>2. \A u \in Threads : \A p \in {"post", "confirm"} : pc'[u] = p <=> pc[u] = p
    BY <1>0, <1>3 DEF DeadlinePasses, Awake, TypeOK
  <2> QED
    BY <2>1, <2>2, QuietStep DEF Idles, Moved, Counted
<1>4. ASSUME \/ FlushCalled(c) \/ ShutdownBegins(c) \/ FlushStarts(c) \/ FlushDone(c)
             \/ InflightDrained(c) \/ WaitTimesOut(c) \/ InflightWaits(c)
             \/ ShutdownJoins(c) \/ ShutdownMarksFinite(c)
      PROVE  Moved
  <2>1. UNCHANGED <<queue, job, taken, enabled, wal, fate, submitted, delivered, lost>>
    BY <1>4
    DEF FlushCalled, ShutdownBegins, FlushStarts, FlushDone, InflightDrained, WaitTimesOut,
        InflightWaits, ShutdownJoins, ShutdownMarksFinite
  <2>2. pc[c] \notin {"post", "confirm"}
    BY <1>4
    DEF FlushCalled, ShutdownBegins, FlushStarts, FlushDone, InflightDrained, WaitTimesOut,
        InflightWaits, ShutdownJoins, ShutdownMarksFinite, CanCall
  <2>3. \A r : FlushReturns(c, r) => \E p \in {"idle", "unqueue"} : Move(c, p)
    BY DEF FlushReturns
  <2>4. PICK place \in {"flush", "join", "recover", "idle", "unqueue", "loop_wait",
                        "drain_wait", "quiesce_wait", "quiesce", "mark"} :
          Move(c, place) \/ MoveAndNotify(c, place)
    BY <1>4, <2>3
    DEF FlushCalled, ShutdownBegins, FlushStarts, FlushDone, InflightDrained, WaitTimesOut,
        InflightWaits, ShutdownJoins, ShutdownMarksFinite
  <2> QED
    BY <1>0, <2>1, <2>2, <2>4, QuietMove DEF Idles, Moved, Counted
<1> QED
  BY <1>1, <1>2, <1>3, <1>4 DEF FlushStep

\* Neither do the worker's own steps, nor the timer.
LEMMA WorkerMoves ==
  ASSUME IInv, WorkerStep \/ Tick \/ UNCHANGED vars
  PROVE  Moved
<1> USE DEF flags, counters, log, memory, history, control
<1>0. TypeOK /\ Worker \in Threads
  BY DEF IInv, Threads
<1>1. CASE WorkerTakes
  <2>1. Passes
    BY <1>0, <1>1, PopMoves DEF WorkerTakes, Dispatching
  <2> QED
    BY <2>1 DEF Moved
<1>2. CASE WorkerSkipsTick \/ Tick \/ UNCHANGED vars
  <2>1. UNCHANGED <<queue, job, taken, enabled, wal, fate, submitted, delivered, lost>>
    BY <1>2 DEF WorkerSkipsTick, Tick, vars
  <2>2. \A u \in Threads : \A p \in {"post", "confirm"} : pc'[u] = p <=> pc[u] = p
    BY <1>0, <1>2 DEF WorkerSkipsTick, Tick, vars, TypeOK
  <2> QED
    BY <2>1, <2>2, QuietStep DEF Idles, Moved, Counted
<1>3. CASE WorkerWaits \/ WorkerStops \/ WorkerBacksOff \/ WorkerExits
  <2>1. UNCHANGED <<queue, job, taken, enabled, wal, fate, submitted, delivered, lost>>
        /\ pc[Worker] \notin {"post", "confirm"}
    BY <1>3 DEF WorkerWaits, WorkerStops, WorkerBacksOff, WorkerExits
  <2>2. PICK place \in {"take_wait", "closing", "take", "exited"} :
          Move(Worker, place) \/ MoveAndNotify(Worker, place)
    BY <1>3 DEF WorkerWaits, WorkerStops, WorkerBacksOff, WorkerExits
  <2> QED
    BY <1>0, <2>1, <2>2, QuietMove DEF Idles, Moved, Counted
<1> QED
  BY <1>1, <1>2, <1>3 DEF WorkerStep

\* With the outcome of its first segment, a batch goes on to the next one.
LEMMA SegmentGoes ==
  ASSUME IInv, NEW t \in Threads, job[t].ends # <<>>,
         Move(t, AfterSegment(t)) \/ MoveAndNotify(t, AfterSegment(t)),
         pc[t] # "confirm", UNCHANGED taken,
         \E o \in {"ok", "rejected", "transient"} :
           job' = Resolved(t, o) \/ (job[t].budget > 0 /\ job' = Spent(Resolved(t, o), t))
  PROVE  /\ Alone(t) /\ NoneWrites /\ pc'[t] \notin {"post", "confirm"}
         /\ InBatch(t) \in Holders
         /\ SegmentLen(t) \in 1 .. Len(Holding[InBatch(t)])
         /\ First(InBatch(t), SegmentLen(t)) = Segment(t)
         /\ Holding'[InBatch(t)] = After(InBatch(t), SegmentLen(t))
         /\ \A h \in Holders \ {InQueue, InBatch(t)} : Holding'[h] = Holding[h]
         /\ Holding'[InQueue] = queue' /\ Holding[InQueue] = queue
<1>0. TypeOK /\ JobsWellFormed /\ job[t] \in Jobs
  BY DEF IInv, TypeOK
<1>1. PICK o \in {"ok", "rejected", "transient"} :
        job' = Resolved(t, o) \/ (job[t].budget > 0 /\ job' = Spent(Resolved(t, o), t))
  OBVIOUS
<1>2. Resolved(t, o) \in [Threads -> Jobs]
  BY <1>0, ResolvedTypes
<1>3. /\ \A u \in Threads \ {t} : job'[u] = Resolved(t, o)[u]
      /\ job'[t].batch = Resolved(t, o)[t].batch /\ job'[t].done = Resolved(t, o)[t].done
  BY <1>0, <1>1, <1>2, SpentTypes
<1>4. /\ \A u \in Threads \ {t} : Resolved(t, o)[u] = job[u]
      /\ Resolved(t, o)[t].batch = job[t].batch /\ Resolved(t, o)[t].done = Head(job[t].ends)
  BY <1>0 DEF Resolved, TypeOK, Jobs
<1>5. pc'[t] = AfterSegment(t)
      /\ \A u \in Threads \ {t} : \A p \in {"post", "confirm"} : pc'[u] = p <=> pc[u] = p
  BY <1>0, MovesAlone
<1>6. pc'[t] \notin {"post", "confirm"}
  BY <1>5, AfterSegmentPlace
<1>7. Alone(t)
  BY <1>3, <1>4, <1>5 DEF Alone
<1>8. NoneWrites
  BY <1>5, <1>6 DEF NoneWrites, Threads
<1>9. /\ Holding[InBatch(t)] = Unresolved(t)
      /\ Holding'[InBatch(t)]
           = SubSeq(job[t].batch, Head(job[t].ends) + 1, Len(job[t].batch))
  BY <1>3, <1>4, HoldingIs, HoldingIsNext DEF Unresolved
<1>10. \A h \in Holders \ {InQueue, InBatch(t)} : Holding'[h] = Holding[h]
  BY <1>6, <1>7, OthersKeepTheirs
<1> QED
  BY <1>6, <1>7, <1>8, <1>9, <1>10, SegmentFirst, HoldersAre, HoldingIs, HoldingIsNext
  DEF First, After

\* The segment of another thread is not on the wire.
LEMMA NotOnTheWire ==
  ASSUME IInv, Conservation, NEW g \in Holders, \A t \in Threads : g = InBatch(t) => pc[t] # "post"
  PROVE  \A n \in 0 .. Len(Holding[g]) : ToSet(First(g, n)) \cap Wire = {}
<1>1. SUFFICES ASSUME NEW n \in 0 .. Len(Holding[g]), NEW e \in ToSet(First(g, n)), e \in OnTheWire
               PROVE  FALSE
  BY DEF Wire
<1>2. PICK t \in Threads : pc[t] = "post" /\ e \in ToSet(Segment(t))
  BY <1>1 DEF OnTheWire
<1>3. job[t].ends # <<>>
  BY <1>2 DEF IInv, JobsWellFormed, WellFormed
<1>4. /\ SegmentLen(t) \in 0 .. Len(Unresolved(t))
      /\ Segment(t) = SubSeq(Unresolved(t), 1, SegmentLen(t))
      /\ Unresolved(t) \in Seq(Event) /\ Holding[InBatch(t)] = Unresolved(t)
  BY <1>3, SegmentFirst, HoldingTypes, HoldingIs
<1>5. \E k \in DOMAIN Unresolved(t) : e = Unresolved(t)[k]
  <2>1. ToSet(Segment(t)) = {Unresolved(t)[i] : i \in 1 .. SegmentLen(t)}
    <3>1. ToSet(SubSeq(Unresolved(t), 1, SegmentLen(t)))
            = {Unresolved(t)[i] : i \in 1 .. SegmentLen(t)}
      BY <1>4, PartsHold, Zenon
    <3> QED
      BY <1>4, <3>1, Zenon
  <2>2. \A i \in 1 .. SegmentLen(t) : i \in DOMAIN Unresolved(t)
    BY <1>4
  <2> QED
    BY <1>2, <2>1, <2>2
<1>6. \E i \in DOMAIN Holding[g] : e = Holding[g][i]
  <2>0. Holding[g] \in Seq(Event)
    BY HoldingTypes
  <2>1. ToSet(First(g, n)) = {Holding[g][i] : i \in 1 .. n}
    BY <2>0, PartsHold, Zenon DEF First
  <2>2. \A i \in 1 .. n : i \in DOMAIN Holding[g]
    BY <2>0
  <2> QED
    BY <1>1, <2>1, <2>2
<1>7. g # InBatch(t) /\ InBatch(t) \in Holders
  BY <1>2, HoldersAre
<1>8. PICK k \in DOMAIN Holding[InBatch(t)] : e = Holding[InBatch(t)][k]
  BY <1>4, <1>5
<1>9. PICK i \in DOMAIN Holding[g] : e = Holding[g][i]
  BY <1>6
<1>10. \A x, y \in Holders : \A l \in DOMAIN Holding[x], m \in DOMAIN Holding[y] :
         Holding[x][l] = Holding[y][m] => x = y
  BY HoldingIs DEF Conservation, Once
<1> QED
  BY <1>7, <1>8, <1>9, <1>10

\* A segment is put back at the head of the queue, or lost after a bounded shutdown.
LEMMA RequeueMoves ==
  ASSUME IInv, Conservation, NEW t \in Threads, job[t].ends # <<>>, RequeueAtHead(t),
         pc[t] \in {"recover", "replay", "deliver", "post"}, pc[t] = "post" => ~enabled,
         UNCHANGED <<taken, enabled, wal, delivered, submitted>>,
         \E o \in {"ok", "rejected", "transient"} :
           job' = Resolved(t, o) \/ (job[t].budget > 0 /\ job' = Spent(Resolved(t, o), t))
  PROVE  Moved
<1> DEFINE n == SegmentLen(t)
<1>0. /\ Alone(t) /\ NoneWrites /\ pc'[t] \notin {"post", "confirm"}
      /\ InBatch(t) \in Holders
      /\ n \in 1 .. Len(Holding[InBatch(t)])
      /\ First(InBatch(t), n) = Segment(t)
      /\ Holding'[InBatch(t)] = After(InBatch(t), n)
      /\ \A h \in Holders \ {InQueue, InBatch(t)} : Holding'[h] = Holding[h]
      /\ Holding'[InQueue] = queue' /\ Holding[InQueue] = queue
  BY SegmentGoes DEF RequeueAtHead
<1> HIDE DEF n
<1>1. LogStays
  <2>1. CASE pc[t] = "post"
    BY <2>1 DEF LogStays, Wire
  <2>2. CASE pc[t] # "post"
    BY <1>0, <2>2, WireAlone DEF LogStays, Wire
  <2> QED
    BY <2>1, <2>2
<1>2. InQueue \in Holders /\ InQueue # InBatch(t)
  BY HoldersAre
<1>3. CASE finite
  <2>1. queue' = queue /\ lost' = lost + n /\ fate' = SetFate(ToSet(Segment(t)), "lost")
    BY <1>3 DEF RequeueAtHead, n
  <2>2. Holding' = [Holding EXCEPT ![InBatch(t)] = After(InBatch(t), n)]
    BY <1>0, <2>1, OneHolder
  <2>3. ToSet(First(InBatch(t), n)) \cap Wire = {}
    <3>1. CASE pc[t] = "post"
      BY <3>1 DEF Wire
    <3>2. CASE pc[t] # "post"
      <4>1. \A u \in Threads : InBatch(t) = InBatch(u) => pc[u] # "post"
        BY <3>2, HoldersAre
      <4>2. n \in 0 .. Len(Holding[InBatch(t)])
        BY <1>0
      <4> QED
        BY <1>0, <4>1, <4>2, NotOnTheWire
    <3> QED
      BY <3>1, <3>2
  <2>4. Counted' = Counted + n
    <3>1. delivered \in Nat /\ lost \in Nat /\ n \in Nat
      BY <1>0 DEF IInv, TypeOK
    <3> QED
      BY <2>1, <3>1 DEF Counted
  <2>5. n > 0 /\ n \in 0 .. Len(Holding[InBatch(t)])
    BY <1>0
  <2>6. Leave(InBatch(t), n, "lost")
    BY <1>0, <2>1, <2>2, <2>5 DEF Leave
  <2>7. Settles(InBatch(t), n)
    BY <1>0, <1>1, <1>2, <2>3, <2>4, <2>5, <2>6 DEF Settles
  <2> QED
    BY <1>0, <2>7 DEF Moved
<1>4. CASE ~finite
  <2>1. queue' = Segment(t) \o queue /\ UNCHANGED <<lost, fate>>
    BY <1>4 DEF RequeueAtHead
  <2>2. Holding' = [Holding EXCEPT ![InBatch(t)] = After(InBatch(t), n),
                                   ![InQueue] = First(InBatch(t), n) \o Holding[InQueue]]
    BY <1>0, <1>2, <2>1, TwoHolders
  <2>3. PutsBack(t)
    BY <2>2 DEF PutsBack, PassesOn, n
  <2>4. Passes
    BY <1>0, <1>1, <2>1, <2>3 DEF Passes, Counted
  <2> QED
    BY <2>4 DEF Moved
<1> QED
  BY <1>3, <1>4

\* recover() settles the oldest record, or gives up; the batch it delays is put back.
LEMMA ReplayMoves ==
  ASSUME IInv, Conservation, NEW t \in Threads, Replay(t)
  PROVE  Moved
<1> USE DEF flags, counters, log, memory, history, control
<1>0. TypeOK
  BY DEF IInv
<1>1. CASE ReplayStarts(t) \/ ReplayDone(t)
  <2>1. UNCHANGED <<queue, job, taken, enabled, wal, fate, submitted, delivered, lost>>
        /\ pc[t] \notin {"post", "confirm"}
    BY <1>1 DEF ReplayStarts, ReplayDone, RecoverSucceeds
  <2>2. PICK place \in {"replay", "ensure", "deliver"} : Move(t, place)
    BY <1>1 DEF ReplayStarts, ReplayDone, RecoverSucceeds
  <2> QED
    BY <2>1, <2>2, QuietMove DEF Idles, Moved, Counted
<1>2. CASE ReplayAnswered(t)
  <2>1. UNCHANGED <<queue, job, taken, pc, call, submitted, delivered, lost>>
        /\ pc[t] = "replay" /\ wal' = Tail(wal) /\ todo > 0
    BY <1>2 DEF ReplayAnswered
  <2>2. todo <= Len(wal) /\ todo \in Nat /\ wal \in Seq(Seq(Event))
        /\ \A u \in Threads : pc[u] # "post"
    BY <2>1 DEF IInv, OneDelivery, TypeOK
  <2>3. 1 \in DOMAIN wal /\ Head(wal) = wal[1]
    BY <2>1, <2>2
  <2>4. wal' = RemoveAt(wal, 1)
    <3>1. \A s \in Seq(Seq(Event)) : Len(s) > 0 =>
            SubSeq(s, 1, 0) \o SubSeq(s, 2, Len(s)) = Tail(s)
      OBVIOUS
    <3> QED
      BY <2>1, <2>2, <3>1 DEF RemoveAt
  <2>5. OnTheWire = {} /\ OnTheWire' = {}
    BY <2>1, <2>2 DEF OnTheWire
  <2>6. \A c \in Callers : Unwritten(c)' = Unwritten(c)
    BY <2>1 DEF Unwritten
  <2>7. \A u \in Threads : Unresolved(u)' = Unresolved(u)
    BY <2>1 DEF Unresolved
  <2>8. Holding' = Holding
    BY <2>1, <2>6, <2>7, HoldingTypes, HoldingIs, SameHolding
  <2>9. PICK answer \in Responses \ {"fail"} :
          fate' = SetFate(ToSet(Head(wal)), IF answer = "2xx" THEN "replayed" ELSE "rejected")
    BY <1>2 DEF ReplayAnswered
  <2>10. \E f \in {"replayed", "rejected"} : fate' = SetFate(ToSet(wal[1]), f)
    BY <2>3, <2>9
  <2>11. NoneWrites
    BY <2>1 DEF NoneWrites
  <2> QED
    BY <2>1, <2>3, <2>4, <2>5, <2>8, <2>10, <2>11 DEF Replays, Moved, Wire, Counted
<1>3. CASE ReplayFails(t)
  <2>1. pc[t] \in {"recover", "replay"} /\ RecoverFails(t)
        /\ UNCHANGED <<taken, enabled, wal, delivered, submitted>>
    BY <1>3 DEF ReplayFails
  <2>2. CASE job[t].batch = <<>>
    <3>1. FlushReturns(t, "false") /\ UNCHANGED <<queue, lost, job, fate>>
      BY <2>1, <2>2 DEF RecoverFails
    <3>2. PICK place \in {"idle", "unqueue"} : Move(t, place)
      BY <3>1 DEF FlushReturns
    <3> QED
      BY <2>1, <3>1, <3>2, QuietMove DEF Idles, Moved, Counted
  <2>3. CASE job[t].batch # <<>>
    <3>1. RequeueAtHead(t) /\ job' = Resolved(t, "transient")
      BY <2>1, <2>3 DEF RecoverFails
    <3>2. job[t].done = 0 /\ Len(job[t].batch) # 0
      BY <2>1, <2>3 DEF IInv, JobsWellFormed, WellFormed, TypeOK, Jobs
    <3>3. job[t].ends # <<>>
      BY <3>2 DEF IInv, JobsWellFormed, WellFormed
    <3> QED
      BY <2>1, <3>1, <3>3, RequeueMoves
  <2> QED
    BY <2>2, <2>3
<1> QED
  BY <1>1, <1>2, <1>3 DEF Replay

\* The record of a batch that leaves the wire is acknowledged.
LEMMA WireAcknowledged ==
  ASSUME IInv, enabled, NEW t \in Threads, Alone(t), pc[t] = "post", pc'[t] # "post",
         wal' = WalAcknowledged(t)
  PROVE  Acknowledges(Segment(t))
<1>1. OnTheWire = ToSet(Segment(t)) /\ OnTheWire' = {}
  BY WireAlone
<1>2. \E i \in DOMAIN wal : wal[i] = Segment(t)
  BY DEF IInv, WriteAhead
<1>3. PICK i \in DOMAIN wal : wal[i] = Segment(t) /\ wal' = RemoveAt(wal, i)
  BY <1>2 DEF WalAcknowledged
<1> QED
  BY <1>1, <1>3 DEF Acknowledges, Wire

\* A segment gets its last answer: it is delivered, or counted as lost.
LEMMA SettledMoves ==
  ASSUME IInv, Conservation, NEW t \in Threads, SplitLimitReached(t) \/ Accepted(t) \/ Rejected(t)
  PROVE  Moved
<1> USE DEF flags, counters, log, memory, history, control
<1> DEFINE n == SegmentLen(t)
<1>0. TypeOK /\ job[t].ends # <<>>
  BY DEF SplitLimitReached, Accepted, Rejected, IInv, JobsWellFormed, WellFormed
<1>1. /\ Move(t, AfterSegment(t)) /\ UNCHANGED <<queue, enabled, taken, submitted>>
      /\ \E o \in {"ok", "rejected", "transient"} : job' = Resolved(t, o)
      /\ pc[t] \in {"deliver", "post"}
      /\ \E f \in {"delivered", "lost"} :
           fate' = SetFate(ToSet(Segment(t)), f) /\ (f = "delivered" => pc[t] = "post")
  BY DEF SplitLimitReached, Accepted, Rejected, DropSegment
<1>2. Counted' = Counted + n
  <2>1. delivered \in Nat /\ lost \in Nat /\ n \in Nat
    BY <1>0, HeadSegment DEF IInv, TypeOK
  <2> QED
    BY <2>1 DEF Counted, SplitLimitReached, Accepted, Rejected, DropSegment
<1> HIDE DEF n
<1>3. /\ Alone(t) /\ NoneWrites /\ pc'[t] \notin {"post", "confirm"}
      /\ InBatch(t) \in Holders
      /\ n \in 1 .. Len(Holding[InBatch(t)])
      /\ First(InBatch(t), n) = Segment(t)
      /\ Holding'[InBatch(t)] = After(InBatch(t), n)
      /\ \A h \in Holders \ {InQueue, InBatch(t)} : Holding'[h] = Holding[h]
      /\ Holding'[InQueue] = queue' /\ Holding[InQueue] = queue
  BY <1>0, <1>1, SegmentGoes DEF n
<1>4. Holding' = [Holding EXCEPT ![InBatch(t)] = After(InBatch(t), n)]
  BY <1>1, <1>3, OneHolder
<1>5. n > 0 /\ n \in 0 .. Len(Holding[InBatch(t)])
  BY <1>3
<1>6. \E f \in {"delivered", "lost"} :
        Leave(InBatch(t), n, f) /\ (f = "delivered" => \E u \in Threads : pc[u] = "post")
  BY <1>1, <1>3, <1>4, <1>5 DEF Leave
<1>7. \/ LogStays /\ ToSet(First(InBatch(t), n)) \cap Wire = {}
      \/ enabled /\ Acknowledges(First(InBatch(t), n))
  <2>1. CASE pc[t] = "deliver"
    <3>1. wal' = wal
      BY <2>1 DEF SplitLimitReached, Accepted, Rejected
    <3>2. OnTheWire' = OnTheWire
      BY <1>3, <2>1, WireAlone
    <3>3. \A u \in Threads : InBatch(t) = InBatch(u) => pc[u] # "post"
      BY <2>1, HoldersAre
    <3>4. ToSet(First(InBatch(t), n)) \cap Wire = {}
      BY <1>3, <1>5, <3>3, NotOnTheWire
    <3> QED
      BY <1>1, <3>1, <3>2, <3>4 DEF LogStays, Wire
  <2>2. CASE pc[t] = "post"
    <3>1. wal' = WalAcknowledged(t)
      BY <2>2 DEF SplitLimitReached, Accepted, Rejected
    <3>2. CASE enabled
      BY <1>3, <2>2, <3>1, <3>2, WireAcknowledged
    <3>3. CASE ~enabled
      BY <1>1, <3>1, <3>3 DEF WalAcknowledged, LogStays, Wire
    <3> QED
      BY <3>2, <3>3
  <2> QED
    BY <1>1, <2>1, <2>2
<1>8. Settles(InBatch(t), n)
  BY <1>2, <1>3, <1>5, <1>6, <1>7, HoldersAre DEF Settles
<1> QED
  BY <1>3, <1>8 DEF Moved

\* A request whose retries are exhausted leaves its batch to the log, or to the queue.
LEMMA FailedMoves ==
  ASSUME IInv, Conservation, NEW t \in Threads, Failed(t)
  PROVE  Moved
<1> USE DEF flags, counters, log, memory, history, control
<1> DEFINE n == SegmentLen(t)
<1>0. TypeOK /\ job[t].ends # <<>> /\ pc[t] = "post"
  BY DEF Failed, IInv, JobsWellFormed, WellFormed
<1>1. job' = Resolved(t, "transient") /\ UNCHANGED <<taken, enabled, wal, delivered, submitted>>
  BY DEF Failed
<1>2. CASE ~enabled
  BY <1>0, <1>1, <1>2, RequeueMoves DEF Failed
<1>3. CASE enabled
  <2>1. /\ fate' = SetFate(ToSet(Segment(t)), "stored") /\ Move(t, AfterSegment(t))
        /\ UNCHANGED <<queue, lost>>
    BY <1>3 DEF Failed
  <2> HIDE DEF n
  <2>2. /\ Alone(t) /\ NoneWrites /\ pc'[t] \notin {"post", "confirm"}
        /\ InBatch(t) \in Holders
        /\ n \in 1 .. Len(Holding[InBatch(t)])
        /\ First(InBatch(t), n) = Segment(t)
        /\ Holding'[InBatch(t)] = After(InBatch(t), n)
        /\ \A h \in Holders \ {InQueue, InBatch(t)} : Holding'[h] = Holding[h]
        /\ Holding'[InQueue] = queue' /\ Holding[InQueue] = queue
    BY <1>0, <1>1, <2>1, SegmentGoes DEF n
  <2>3. Holding' = [Holding EXCEPT ![InBatch(t)] = After(InBatch(t), n)]
    BY <2>1, <2>2, OneHolder
  <2>4. n > 0 /\ n \in 0 .. Len(Holding[InBatch(t)])
    BY <2>2
  <2>5. Leave(InBatch(t), n, "stored")
    BY <1>1, <2>1, <2>2, <2>3, <2>4 DEF Leave
  <2>6. OnTheWire = ToSet(Segment(t)) /\ OnTheWire' = {}
    BY <1>0, <2>2, WireAlone
  <2>7. Retains(InBatch(t), n)
    BY <1>1, <1>3, <2>1, <2>2, <2>4, <2>5, <2>6, HoldersAre DEF Retains, Wire, Counted
  <2> QED
    BY <2>2, <2>7 DEF Moved
<1> QED
  BY <1>2, <1>3

\* What _deliver and _send_batch do moves events in one of these ways.
LEMMA DeliverMoves ==
  ASSUME IInv, Conservation, NEW t \in Threads, Deliver(t)
  PROVE  Moved
<1> USE DEF flags, counters, log, memory, history, control
<1>0. TypeOK
  BY DEF IInv
<1>1. CASE SplitLimitReached(t) \/ Accepted(t) \/ Rejected(t)
  BY <1>1, SettledMoves
<1>2. CASE Failed(t)
  BY <1>2, FailedMoves
<1>3. CASE SendRefused(t)
  <2>1. /\ pc[t] = "deliver" /\ job[t].budget > 0 /\ RequeueAtHead(t)
        /\ job' = Spent(Resolved(t, "transient"), t)
        /\ UNCHANGED <<taken, enabled, wal, delivered, submitted>>
    BY <1>3 DEF SendRefused, BudgetLeft
  <2>2. job[t].ends # <<>>
    BY <2>1 DEF IInv, JobsWellFormed, WellFormed
  <2> QED
    BY <2>1, <2>2, RequeueMoves
<1>4. CASE SendStarts(t)
  <2>1. /\ pc[t] = "deliver" /\ job[t].budget > 0 /\ LockFree /\ job' = Spent(job, t)
        /\ wal' = (IF enabled THEN Append(wal, Segment(t)) ELSE wal)
        /\ Move(t, "post") /\ UNCHANGED <<queue, enabled, taken, fate, submitted, delivered, lost>>
    BY <1>4 DEF SendStarts, BudgetLeft
  <2>2. job[t].ends # <<>>
    BY <2>1 DEF IInv, JobsWellFormed, WellFormed
  <2>3. /\ \A u \in Threads \ {t} : job'[u] = job[u]
        /\ job'[t].batch = job[t].batch /\ job'[t].done = job[t].done
        /\ job'[t].ends = job[t].ends
    BY <1>0, <2>1, SpentTypes DEF TypeOK
  <2>4. /\ pc'[t] = "post"
        /\ \A u \in Threads \ {t} : \A p \in {"post", "confirm"} : pc'[u] = p <=> pc[u] = p
    BY <1>0, <2>1, MovesAlone
  <2>5. Alone(t)
    BY <2>1, <2>3, <2>4 DEF Alone
  <2>6. NoneWrites
    BY <2>1, <2>4 DEF NoneWrites, Threads
  <2>7. \A h \in Holders : Holding'[h] = Holding[h]
    BY <2>1, <2>3, <2>4, <2>5, OthersKeepTheirs, HoldersAre
  <2>8. Holding' = Holding
    <3>1. Holding = [h \in DOMAIN Holding |-> Holding[h]] /\ DOMAIN Holding = Holders
      BY HoldingTypes
    <3> QED
      BY <2>7, <3>1, HoldersAre, HoldingIsNext, SameHolding
  <2>9. Segment(t)' = Segment(t)
    BY <2>3 DEF Segment
  <2>10. OnTheWire = {} /\ OnTheWire' = ToSet(Segment(t))
    BY <2>1, <2>4, <2>5, <2>9, WireAlone
  <2>11. CASE enabled
    <3>1. /\ InBatch(t) \in Holders
          /\ SegmentLen(t) \in 1 .. Len(Holding[InBatch(t)])
          /\ First(InBatch(t), SegmentLen(t)) = Segment(t)
      BY <2>2, SegmentFirst, HoldersAre, HoldingIs DEF First
    <3>2. wal' = Append(wal, First(InBatch(t), SegmentLen(t)))
          /\ Wire' = ToSet(First(InBatch(t), SegmentLen(t)))
      BY <2>1, <2>10, <2>11, <3>1 DEF Wire
    <3>3. Posts
      BY <2>1, <2>6, <2>8, <2>10, <3>1, <3>2 DEF Posts, Wire, Counted
    <3> QED
      BY <3>3 DEF Moved
  <2>12. CASE ~enabled
    BY <2>1, <2>6, <2>8, <2>12 DEF Idles, Moved, LogStays, Wire, Counted
  <2> QED
    BY <2>11, <2>12
<1>5. CASE BatchRejected(t)
  <2> DEFINE mid == job[t].done + SegmentLen(t) \div 2
  <2>1. /\ pc[t] = "post" /\ Move(t, "deliver") /\ wal' = WalAcknowledged(t)
        /\ job' = [job EXCEPT ![t] = [job[t] EXCEPT !.ends = <<mid>> \o job[t].ends]]
        /\ UNCHANGED <<queue, enabled, taken, fate, submitted, delivered, lost>>
    BY <1>5 DEF BatchRejected
  <2>2. job[t].ends # <<>> /\ job[t] \in Jobs
    BY <2>1 DEF IInv, JobsWellFormed, WellFormed, TypeOK
  <2>3. /\ \A u \in Threads \ {t} : job'[u] = job[u]
        /\ job'[t].batch = job[t].batch /\ job'[t].done = job[t].done
    BY <1>0, <2>1, <2>2 DEF TypeOK, Jobs
  <2>4. /\ pc'[t] = "deliver"
        /\ \A u \in Threads \ {t} : \A p \in {"post", "confirm"} : pc'[u] = p <=> pc[u] = p
    BY <1>0, <2>1, MovesAlone
  <2>5. Alone(t)
    BY <2>1, <2>3, <2>4 DEF Alone
  <2>6. NoneWrites
    BY <2>1, <2>4 DEF NoneWrites, Threads
  <2>7. \A h \in Holders : Holding'[h] = Holding[h]
    BY <2>1, <2>3, <2>4, <2>5, OthersKeepTheirs, HoldersAre
  <2>8. Holding' = Holding
    <3>1. Holding = [h \in DOMAIN Holding |-> Holding[h]] /\ DOMAIN Holding = Holders
      BY HoldingTypes
    <3> QED
      BY <2>7, <3>1, HoldersAre, HoldingIsNext, SameHolding
  <2>9. CASE enabled
    <3>1. Acknowledges(Segment(t)) /\ Segment(t) \in Seq(Event)
      BY <1>0, <2>1, <2>2, <2>4, <2>5, <2>9, WireAcknowledged, HeadSegment DEF IInv
    <3>2. Splits
      BY <2>1, <2>6, <2>8, <2>9, <3>1 DEF Splits, Counted
    <3> QED
      BY <3>2 DEF Moved
  <2>10. CASE ~enabled
    BY <2>1, <2>6, <2>8, <2>10 DEF WalAcknowledged, Idles, Moved, LogStays, Wire, Counted
  <2> QED
    BY <2>9, <2>10
<1>6. CASE Finish(t)
  <2>1. /\ pc[t] = "finish" /\ job' = [job EXCEPT ![t] = NoJob]
        /\ UNCHANGED <<queue, taken, enabled, wal, fate, submitted, delivered, lost>>
    BY <1>6 DEF Finish
  <2>2. PICK place \in {"check", "take", "drain", "loop"} : MoveAndNotify(t, place)
    BY <1>6 DEF Finish
  <2>3. /\ pc'[t] = place
        /\ \A u \in Threads \ {t} : \A p \in {"post", "confirm"} : pc'[u] = p <=> pc[u] = p
    BY <1>0, <2>2, MovesAlone
  <2>4. /\ \A u \in Threads \ {t} : job'[u] = job[u]
        /\ job'[t] = NoJob
    BY <1>0, <2>1 DEF TypeOK
  <2>5. Alone(t)
    BY <2>1, <2>3, <2>4 DEF Alone
  <2>6. NoneWrites
    BY <2>1, <2>3 DEF NoneWrites, Threads
  <2>7. LogStays
    BY <2>1, <2>3, <2>5, WireAlone DEF LogStays, Wire
  <2>8. Holding'[InBatch(t)] = Holding[InBatch(t)]
    <3>1. job[t].ends = <<>> /\ job[t].done = Len(job[t].batch)
      BY <2>1 DEF IInv, JobsWellFormed, WellFormed
    <3>2. Unresolved(t) \in Seq(Event) /\ Len(Unresolved(t)) = 0
      BY <3>1, HoldingTypes DEF IInv, TypeOK, Jobs
    <3>3. Unresolved(t) = <<>>
      BY <3>2
    <3>4. Unresolved(t)' = SubSeq(<<>>, 0 + 1, Len(<<>>))
      BY <2>4 DEF Unresolved, NoJob
    <3>5. SubSeq(<<>>, 0 + 1, Len(<<>>)) = <<>>
      OBVIOUS
    <3> QED
      BY <3>3, <3>4, <3>5, HoldingIs, HoldingIsNext
  <2>9. \A h \in Holders : Holding'[h] = Holding[h]
    BY <2>1, <2>3, <2>5, <2>8, OthersKeepTheirs, HoldersAre
  <2>10. Holding' = Holding
    <3>1. Holding = [h \in DOMAIN Holding |-> Holding[h]] /\ DOMAIN Holding = Holders
      BY HoldingTypes
    <3> QED
      BY <2>9, <3>1, HoldersAre, HoldingIsNext, SameHolding
  <2> QED
    BY <2>1, <2>6, <2>7, <2>10 DEF Idles, Moved, Counted
<1> QED
  BY <1>1, <1>2, <1>3, <1>4, <1>5, <1>6 DEF Deliver

\* A shutdown takes the queue in hand.
LEMMA UnqueueMoves ==
  ASSUME IInv, NEW c \in Callers, ShutdownUnqueues(c)
  PROVE  Passes
<1> USE DEF flags, counters, log, memory, history, control
<1>0. TypeOK /\ c \in Threads /\ queue \in Seq(Event) /\ Len(queue) \in Nat
      /\ taken \in [Callers -> Seq(Event)]
  BY DEF IInv, Threads, TypeOK
<1>1. /\ pc[c] = "unqueue" /\ queue' = <<>> /\ taken' = [taken EXCEPT ![c] = queue]
      /\ UNCHANGED <<job, enabled, wal, fate, submitted, delivered, lost>>
  BY DEF ShutdownUnqueues
<1>2. PICK place \in {"idle", "persist"} : Move(c, place)
  BY DEF ShutdownUnqueues, ShutdownReturns
<1>3. /\ pc'[c] = place
      /\ \A u \in Threads \ {c} : \A p \in {"post", "confirm"} : pc'[u] = p <=> pc[u] = p
  BY <1>0, <1>2, MovesAlone
<1>4. Alone(c)
  BY <1>0, <1>1, <1>3 DEF Alone
<1>5. LogStays /\ NoneWrites
  <2>1. OnTheWire' = OnTheWire
    BY <1>0, <1>1, <1>3, <1>4, WireAlone
  <2>2. NoneWrites
    BY <1>0, <1>1, <1>3, <1>4 DEF NoneWrites, Threads
  <2> QED
    BY <1>1, <2>1, <2>2 DEF LogStays, Wire
<1>6. Holding[InHands(c)] = <<>> /\ Holding'[InHands(c)] = queue
  <2>1. taken[c] = <<>>
    BY <1>1 DEF IInv, NothingStranded
  <2>2. Unwritten(c) = <<>> /\ Unwritten(c)' = queue
    BY <1>0, <1>1, <1>3, <2>1 DEF Unwritten
  <2> QED
    BY <2>2, HoldingIs, HoldingIsNext
<1>7. Holding[InQueue] = queue /\ Holding'[InQueue] = <<>>
  BY <1>1, HoldingIs, HoldingIsNext
<1>8. InQueue \in Holders /\ InHands(c) \in Holders /\ InQueue # InHands(c)
  BY HoldersAre
<1>9. \A h \in Holders \ {InQueue, InHands(c)} : Holding'[h] = Holding[h]
  BY <1>0, <1>1, <1>4, OthersKeepTheirs
<1>10. /\ First(InQueue, Len(queue)) \o Holding[InHands(c)] = queue
       /\ After(InQueue, Len(queue)) = <<>>
  <2>1. \A s \in Seq(Event) : /\ SubSeq(s, 1, Len(s)) \o <<>> = s
                              /\ SubSeq(s, Len(s) + 1, Len(s)) = <<>>
    OBVIOUS
  <2> QED
    BY <1>0, <1>6, <1>7, <2>1 DEF First, After
<1>11. Holding' = [Holding EXCEPT
                     ![InQueue] = After(InQueue, Len(queue)),
                     ![InHands(c)] = First(InQueue, Len(queue)) \o Holding[InHands(c)]]
  BY <1>6, <1>7, <1>8, <1>9, <1>10, TwoHolders
<1>12. Len(queue) \in 0 .. Len(queue)
  BY <1>0
<1>13. Dequeues(InHands(c))
  BY <1>6, <1>8, <1>11, <1>12 DEF Dequeues, PassesOn
<1> QED
  BY <1>1, <1>5, <1>8, <1>13 DEF Passes, Counted

\* What a shutdown has in hand is held.
LEMMA InHandsHeld ==
  ASSUME IInv, Conservation, NEW c \in Callers
  PROVE  \A e \in ToSet(Unwritten(c)) : fate[e] = "held"
<1>1. InHands(c) \in DOMAIN Holding /\ Holding[InHands(c)] = Unwritten(c)
  BY HoldingIs, HoldersAre
<1>2. ToSet(Unwritten(c)) \subseteq HeldEvents
  BY <1>1 DEF HeldEvents, EventsIn
<1> QED
  BY <1>2 DEF Conservation

\* What it gives up or writes is no longer in its hands.
LEMMA HandsMove ==
  ASSUME IInv, NEW c \in Callers, NEW n \in 0 .. Len(Unwritten(c)),
         UNCHANGED <<queue, job, enabled, wal>>, pc[c] \in {"persist", "confirm"},
         NEW place \in {"idle", "persist", "confirm"}, Move(c, place),
         \A d \in Callers \ {c} : taken'[d] = taken[d],
         Unwritten(c)' = SubSeq(Unwritten(c), n + 1, Len(Unwritten(c)))
  PROVE  /\ Holding' = [Holding EXCEPT ![InHands(c)] = After(InHands(c), n)]
         /\ Holding[InHands(c)] = Unwritten(c) /\ InHands(c) \in Holders
         /\ LogStays /\ pc'[c] = place
         /\ \A d \in Callers \ {c} : pc'[d] = "confirm" <=> pc[d] = "confirm"
<1>0. TypeOK /\ c \in Threads /\ Callers \subseteq Threads
  BY DEF IInv, Threads
<1>1. /\ pc'[c] = place
      /\ \A u \in Threads \ {c} : \A p \in {"post", "confirm"} : pc'[u] = p <=> pc[u] = p
  BY <1>0, MovesAlone
<1>2. Alone(c)
  BY <1>1 DEF Alone
<1>3. LogStays
  <2>1. OnTheWire' = OnTheWire
    BY <1>0, <1>1, <1>2, WireAlone
  <2> QED
    BY <2>1 DEF LogStays, Wire
<1>4. /\ InHands(c) \in Holders /\ Holding[InHands(c)] = Unwritten(c)
      /\ Holding'[InHands(c)] = After(InHands(c), n)
  BY HoldersAre, HoldingIs, HoldingIsNext DEF After
<1>5. \A h \in Holders \ {InHands(c)} : Holding'[h] = Holding[h]
  BY <1>0, <1>2, OthersKeepTheirs
<1>6. Holding' = [Holding EXCEPT ![InHands(c)] = After(InHands(c), n)]
  BY <1>4, <1>5, OneHolder
<1> QED
  BY <1>0, <1>1, <1>3, <1>4, <1>6

\* ShutdownLosesRest gives up what is in hand.
LEMMA LosesRestMoves ==
  ASSUME IInv, Conservation, NEW c \in Callers, ShutdownLosesRest(c)
  PROVE  Moved
<1> USE DEF flags, counters, log, memory, history, control
<1> DEFINE n == Len(taken[c])
<1>0. TypeOK /\ taken \in [Callers -> Seq(Event)] /\ taken[c] # <<>> /\ n \in Nat /\ n > 0
      /\ delivered \in Nat /\ lost \in Nat
  <2>1. TypeOK /\ taken \in [Callers -> Seq(Event)] /\ delivered \in Nat /\ lost \in Nat
    BY DEF IInv, TypeOK
  <2>2. taken[c] # <<>>
    BY DEF IInv, NothingStranded, ShutdownLosesRest
  <2> QED
    BY <2>1, <2>2
<1>1. /\ pc[c] \in {"persist"} /\ lost' = lost + n /\ Move(c, "idle")
      /\ fate' = SetFate({e \in ToSet(taken[c]) : fate[e] = "held"}, "lost")
      /\ taken' = [taken EXCEPT ![c] = <<>>]
      /\ UNCHANGED <<queue, job, enabled, wal, submitted, delivered>>
  BY DEF ShutdownLosesRest, LosesTaken, ShutdownReturns
<1>2. Unwritten(c) = taken[c]
  BY <1>1 DEF Unwritten
<1> HIDE DEF n
<1>3. \A s \in Seq(Event) : /\ SubSeq(s, 1, Len(s)) = s
                            /\ SubSeq(s, Len(s) + 1, Len(s)) = <<>>
  OBVIOUS
<1>4. /\ Unwritten(c)' = SubSeq(Unwritten(c), n + 1, Len(Unwritten(c)))
      /\ n \in 0 .. Len(Unwritten(c))
  <2>1. pc'[c] = "idle" /\ taken'[c] = <<>>
    BY <1>0, <1>1, MovesAlone DEF Threads
  <2>2. Unwritten(c)' = <<>>
    BY <2>1 DEF Unwritten
  <2> QED
    BY <1>0, <1>2, <1>3, <2>2 DEF n
<1>5. /\ Holding' = [Holding EXCEPT ![InHands(c)] = After(InHands(c), n)]
      /\ Holding[InHands(c)] = Unwritten(c) /\ InHands(c) \in Holders
      /\ LogStays /\ pc'[c] = "idle"
      /\ \A d \in Callers \ {c} : pc'[d] = "confirm" <=> pc[d] = "confirm"
  <2>1. \A d \in Callers \ {c} : taken'[d] = taken[d]
    BY <1>0, <1>1
  <2> QED
    BY <1>1, <1>4, <2>1, HandsMove
<1>6. First(InHands(c), n) = taken[c]
  BY <1>0, <1>2, <1>3, <1>5 DEF First, n
<1>7. {e \in ToSet(taken[c]) : fate[e] = "held"} = ToSet(First(InHands(c), n))
  BY <1>2, <1>6, InHandsHeld
<1>8. n \in 1 .. Len(Holding[InHands(c)]) /\ n \in 0 .. Len(Holding[InHands(c)])
  BY <1>0, <1>4, <1>5
<1>9. Leave(InHands(c), n, "lost")
  BY <1>1, <1>5, <1>7, <1>8 DEF Leave
<1>10. ToSet(First(InHands(c), n)) \cap Wire = {}
  BY <1>5, <1>8, NotOnTheWire, HoldersAre
<1>11. NoneWrites
  BY <1>0, <1>1, <1>5 DEF NoneWrites
<1>12. Counted' = Counted + n
  BY <1>0, <1>1 DEF Counted
<1>13. Settles(InHands(c), n)
  BY <1>0, <1>5, <1>9, <1>10, <1>11, <1>12, HoldersAre DEF Settles
<1> QED
  BY <1>5, <1>8, <1>13 DEF Moved

\* ShutdownPersists writes the first of it.
LEMMA PersistsMoves ==
  ASSUME IInv, Conservation, NEW c \in Callers, ShutdownPersists(c)
  PROVE  Moved
<1> USE DEF flags, counters, log, memory, history, control
<1>0. TypeOK /\ taken \in [Callers -> Seq(Event)] /\ taken[c] # <<>>
  <2>1. TypeOK /\ taken \in [Callers -> Seq(Event)]
    BY DEF IInv, TypeOK
  <2>2. taken[c] # <<>>
    BY DEF IInv, NothingStranded, ShutdownPersists
  <2> QED
    BY <2>1, <2>2
<1>1. /\ pc[c] = "persist" /\ Move(c, "confirm")
      /\ wal' = Append(wal, <<Head(taken[c])>>)
      /\ fate' = SetFate({Head(taken[c])}, "stored")
      /\ UNCHANGED <<queue, enabled, job, taken, submitted, delivered, lost>>
  BY DEF ShutdownPersists
<1>2. c \in Threads
  BY DEF Threads
<1>3. /\ pc'[c] = "confirm"
      /\ \A u \in Threads \ {c} : \A p \in {"post", "confirm"} : pc'[u] = p <=> pc[u] = p
  BY <1>0, <1>1, <1>2, MovesAlone
<1>4. Alone(c)
  BY <1>1, <1>3 DEF Alone
<1>5. Wire' = Wire
  BY <1>1, <1>2, <1>3, <1>4, WireAlone DEF Wire
<1>6. \A s \in Seq(Event) : s # <<>> =>
        /\ SubSeq(s, 1, 1) = <<Head(s)>> /\ SubSeq(s, 2, Len(s)) = Tail(s)
        /\ 1 \in 1 .. Len(s)
  <2>1. SUFFICES ASSUME NEW s \in Seq(Event), s # <<>>
                 PROVE  /\ SubSeq(s, 1, 1) = <<Head(s)>> /\ SubSeq(s, 2, Len(s)) = Tail(s)
                        /\ 1 \in 1 .. Len(s)
    OBVIOUS
  <2>2. Len(s) \in Nat /\ Len(s) > 0 /\ Head(s) = s[1] /\ s[1] \in Event
    BY <2>1
  <2>3. 1 \in 1 .. Len(s) /\ 1 \in 0 .. Len(s)
    BY <2>2
  <2>4. SubSeq(s, 1, 1) = <<Head(s)>>
    <3>1. SubSeq(s, 1, 1) \in Seq(Event) /\ Len(SubSeq(s, 1, 1)) = 1 /\ SubSeq(s, 1, 1)[1] = s[1]
      BY <2>3
    <3>2. \A v, w \in Seq(Event) : Len(v) = 1 /\ Len(w) = 1 /\ v[1] = w[1] => v = w
      OBVIOUS
    <3>3. <<s[1]>> \in Seq(Event) /\ Len(<<s[1]>>) = 1 /\ <<s[1]>>[1] = s[1]
      BY <2>2
    <3> QED
      BY <2>2, <3>1, <3>2, <3>3
  <2>5. SubSeq(s, 2, Len(s)) = Tail(s)
    BY <2>1
  <2> QED
    BY <2>3, <2>4, <2>5
<1>7. /\ InHands(c) \in Holders /\ Holding[InHands(c)] = taken[c]
      /\ Holding'[InHands(c)] = Tail(taken[c])
  BY <1>1, <1>3, HoldersAre, HoldingIs, HoldingIsNext DEF Unwritten
<1>8. /\ First(InHands(c), 1) = <<Head(taken[c])>> /\ 1 \in 0 .. Len(Holding[InHands(c)])
      /\ Holding'[InHands(c)] = After(InHands(c), 1)
  <2>1. taken[c] \in Seq(Event) /\ 1 + 1 = 2
    BY <1>0
  <2>2. 1 \in 1 .. Len(taken[c]) /\ Len(taken[c]) \in Nat
    BY <1>0, <1>6, <2>1
  <2>3. 1 \in 0 .. Len(taken[c])
    BY <2>2
  <2> QED
    BY <1>0, <1>6, <1>7, <2>1, <2>3 DEF First, After
<1>9. \A h \in Holders \ {InHands(c)} : Holding'[h] = Holding[h]
  BY <1>1, <1>2, <1>4, OthersKeepTheirs
<1>10. Holding' = [Holding EXCEPT ![InHands(c)] = After(InHands(c), 1)]
  BY <1>7, <1>8, <1>9, OneHolder
<1>11. ToSet(<<Head(taken[c])>>) = {Head(taken[c])}
  BY DEF ToSet
<1>12. Leave(InHands(c), 1, "stored")
  BY <1>1, <1>7, <1>8, <1>10, <1>11 DEF Leave
<1>13. Head(taken[c]) \notin Wire
  <2>1. ToSet(First(InHands(c), 1)) \cap Wire = {}
    BY <1>7, <1>8, NotOnTheWire, HoldersAre
  <2> QED
    BY <1>8, <1>11, <2>1
<1>14. \A d \in Callers \ {c} : pc'[d] = "confirm" => pc[d] = "confirm"
  BY <1>3 DEF Threads
<1>15. Persists(c)
  BY <1>1, <1>3, <1>5, <1>8, <1>12, <1>13, <1>14 DEF Persists, Counted
<1> QED
  BY <1>15 DEF Moved

\* ShutdownConfirms moves nothing, or gives up the rest.
LEMMA ConfirmsMoves ==
  ASSUME CustodyInv, NEW c \in Callers, ShutdownConfirms(c)
  PROVE  Moved
<1> USE DEF flags, counters, log, memory, history, control
<1>0. /\ TypeOK /\ IInv /\ Conservation /\ taken \in [Callers -> Seq(Event)] /\ taken[c] # <<>>
      /\ pc[c] = "confirm" /\ c \in Threads /\ delivered \in Nat /\ lost \in Nat
      /\ UNCHANGED <<queue, job, enabled, wal, submitted, delivered>>
  <2>1. TypeOK /\ IInv /\ Conservation /\ taken \in [Callers -> Seq(Event)] /\ c \in Threads
        /\ delivered \in Nat /\ lost \in Nat
    BY DEF CustodyInv, IInv, TypeOK, Threads
  <2>2. pc[c] = "confirm" /\ UNCHANGED <<queue, job, enabled, wal, submitted, delivered>>
    BY DEF ShutdownConfirms
  <2>3. taken[c] # <<>>
    BY <2>1, <2>2 DEF IInv, NothingStranded
  <2> QED
    BY <2>1, <2>2, <2>3
<1> DEFINE rest == Tail(taken[c])
<1>1. /\ Unwritten(c) = rest /\ rest \in Seq(Event) /\ Len(rest) \in Nat
      /\ Len(taken[c]) = Len(rest) + 1
      /\ ToSet(taken[c]) = {Head(taken[c])} \cup ToSet(rest)
  <2>1. \A s \in Seq(Event) : s # <<>> =>
          /\ Tail(s) \in Seq(Event) /\ Len(Tail(s)) \in Nat /\ Len(s) = Len(Tail(s)) + 1
          /\ ToSet(s) = {Head(s)} \cup ToSet(Tail(s))
    <3>1. SUFFICES ASSUME NEW s \in Seq(Event), s # <<>>
                   PROVE  /\ Tail(s) \in Seq(Event) /\ Len(Tail(s)) \in Nat
                          /\ Len(s) = Len(Tail(s)) + 1
                          /\ ToSet(s) = {Head(s)} \cup ToSet(Tail(s))
      OBVIOUS
    <3>2. /\ Tail(s) \in Seq(Event) /\ Len(Tail(s)) \in Nat /\ Len(s) = Len(Tail(s)) + 1
          /\ DOMAIN s = 1 .. Len(s) /\ DOMAIN Tail(s) = 1 .. Len(Tail(s)) /\ Head(s) = s[1]
          /\ \A i \in 1 .. Len(Tail(s)) : Tail(s)[i] = s[i + 1]
      BY <3>1
    <3>3. \A i \in 1 .. Len(s) : i = 1 \/ (i - 1 \in 1 .. Len(Tail(s)) /\ s[i] = s[(i - 1) + 1])
      BY <3>2
    <3>4. 1 \in 1 .. Len(s) /\ \A i \in 1 .. Len(Tail(s)) : i + 1 \in 1 .. Len(s)
      BY <3>2
    <3>5. ASSUME NEW x \in ToSet(s) PROVE x \in {Head(s)} \cup ToSet(Tail(s))
      <4>1. PICK i \in 1 .. Len(s) : x = s[i]
        BY <3>2, <3>5 DEF ToSet
      <4>2. CASE i = 1
        BY <3>2, <4>1, <4>2
      <4>3. CASE i # 1
        BY <3>2, <3>3, <4>1, <4>3 DEF ToSet
      <4> QED
        BY <4>2, <4>3
    <3>6. ASSUME NEW x \in {Head(s)} \cup ToSet(Tail(s)) PROVE x \in ToSet(s)
      BY <3>2, <3>4, <3>6 DEF ToSet
    <3> QED
      BY <3>2, <3>5, <3>6
  <2> QED
    BY <1>0, <2>1 DEF Unwritten
<1> HIDE DEF rest
<1>2. CASE \E i \in DOMAIN wal : wal[i] = <<Head(taken[c])>>
  <2>1. /\ taken' = [taken EXCEPT ![c] = Tail(@)] /\ UNCHANGED <<lost, fate>>
        /\ Move(c, "idle") \/ Move(c, "persist")
    BY <1>2 DEF ShutdownConfirms, ShutdownReturns
  <2>2. PICK place \in {"idle", "persist"} : Move(c, place)
    BY <2>1
  <2>3. /\ taken'[c] = rest /\ \A d \in Callers \ {c} : taken'[d] = taken[d]
    BY <1>0, <2>1 DEF rest
  <2>4. Unwritten(c)' = SubSeq(Unwritten(c), 0 + 1, Len(Unwritten(c)))
        /\ 0 \in 0 .. Len(Unwritten(c))
    <3>1. pc'[c] = place
      BY <1>0, <2>2, MovesAlone
    <3>2. Unwritten(c)' = rest
      BY <2>3, <3>1 DEF Unwritten
    <3>3. \A s \in Seq(Event) : SubSeq(s, 0 + 1, Len(s)) = s
      OBVIOUS
    <3> QED
      BY <1>1, <3>2, <3>3
  <2>5. /\ Holding' = [Holding EXCEPT ![InHands(c)] = After(InHands(c), 0)]
        /\ Holding[InHands(c)] = Unwritten(c) /\ InHands(c) \in Holders
        /\ LogStays /\ pc'[c] = place
        /\ \A d \in Callers \ {c} : pc'[d] = "confirm" <=> pc[d] = "confirm"
    BY <1>0, <2>2, <2>3, <2>4, HandsMove
  <2>6. Holding' = Holding
    <3>1. After(InHands(c), 0) = Holding[InHands(c)]
      <4>1. \A s \in Seq(Event) : SubSeq(s, 0 + 1, Len(s)) = s
        OBVIOUS
      <4> QED
        BY <1>1, <2>5, <4>1 DEF After
    <3> QED
      BY <1>0, <2>5, <3>1, HoldingTypes
  <2>7. NoneWrites
    BY <2>3, <2>5 DEF NoneWrites
  <2> QED
    BY <1>0, <2>1, <2>5, <2>6, <2>7 DEF Idles, Moved, Counted
<1>3. CASE \A i \in DOMAIN wal : wal[i] # <<Head(taken[c])>>
  <2> DEFINE n == Len(Unwritten(c))
  <2>1. /\ lost' = lost + Len(taken[c]) /\ Move(c, "idle")
        /\ fate' = SetFate({e \in ToSet(taken[c]) : fate[e] = "held"}, "lost")
        /\ taken' = [taken EXCEPT ![c] = <<>>]
    BY <1>3 DEF ShutdownConfirms, LosesTaken, ShutdownReturns
  <2>2. taken'[c] = <<>> /\ \A d \in Callers \ {c} : taken'[d] = taken[d]
    BY <1>0, <2>1
  <2>3. n \in 0 .. Len(Unwritten(c)) /\ n \in Nat
    BY <1>1
  <2>4. \A s \in Seq(Event) : /\ SubSeq(s, 1, Len(s)) = s
                              /\ SubSeq(s, Len(s) + 1, Len(s)) = <<>>
    OBVIOUS
  <2>5. Unwritten(c)' = SubSeq(Unwritten(c), n + 1, Len(Unwritten(c)))
    <3>1. pc'[c] = "idle"
      BY <1>0, <2>1, MovesAlone
    <3>2. Unwritten(c)' = <<>>
      BY <2>2, <3>1 DEF Unwritten
    <3> QED
      BY <1>1, <2>4, <3>2
  <2> HIDE DEF n
  <2>6. /\ Holding' = [Holding EXCEPT ![InHands(c)] = After(InHands(c), n)]
        /\ Holding[InHands(c)] = Unwritten(c) /\ InHands(c) \in Holders
        /\ LogStays /\ pc'[c] = "idle"
        /\ \A d \in Callers \ {c} : pc'[d] = "confirm" <=> pc[d] = "confirm"
    BY <1>0, <2>1, <2>2, <2>3, <2>5, HandsMove
  <2>7. First(InHands(c), n) = Unwritten(c)
    BY <1>1, <2>4, <2>6 DEF First, n
  <2>8. {e \in ToSet(taken[c]) : fate[e] = "held"} = ToSet(First(InHands(c), n))
    <3>1. fate[Head(taken[c])] # "held"
      BY <1>0 DEF CustodyInv, Written
    <3> QED
      BY <1>0, <1>1, <2>7, <3>1, InHandsHeld
  <2>9. Leave(InHands(c), n, "lost")
    BY <1>0, <2>1, <2>3, <2>6, <2>8 DEF Leave
  <2>10. ToSet(First(InHands(c), n)) \cap Wire = {}
    BY <1>0, <2>3, <2>6, NotOnTheWire, HoldersAre
  <2>11. NoneWrites
    BY <2>2, <2>6 DEF NoneWrites
  <2>12. Counted' = Counted + n + 1
    BY <1>0, <1>1, <2>1, <2>3 DEF Counted, n
  <2>13. Recounts(c)
    BY <1>0, <1>3, <2>6, <2>7, <2>9, <2>10, <2>11, <2>12 DEF Recounts, n
  <2> QED
    BY <2>13 DEF Moved
<1> QED
  BY <1>2, <1>3

\* Every step moves events in one of these ways.
LEMMA EveryStepMoves == CustodyInv /\ [Next]_vars => Moved
<1>1. SUFFICES ASSUME CustodyInv, [Next]_vars PROVE Moved
  OBVIOUS
<1>2. IInv /\ Conservation
  BY <1>1 DEF CustodyInv
<1>3. CASE \E c \in Callers : Add(c)
  BY <1>2, <1>3, AddMoves
<1>4. ASSUME NEW c \in Callers,
             \/ FlushCalled(c) \/ ShutdownBegins(c) \/ EnsureWorker(c) \/ FlushStep(c)
             \/ DeadlinePasses(c)
      PROVE  Moved
  BY <1>2, <1>4, CallerMoves
<1>5. ASSUME NEW c \in Callers, ShutdownStep(c) PROVE Moved
  <2>1. CASE ShutdownJoins(c) \/ ShutdownMarksFinite(c)
    BY <1>2, <2>1, CallerMoves
  <2>2. CASE ShutdownUnqueues(c)
    BY <1>2, <2>2, UnqueueMoves DEF Moved
  <2>3. CASE ShutdownLosesRest(c)
    BY <1>2, <2>3, LosesRestMoves
  <2>4. CASE ShutdownPersists(c)
    BY <1>2, <2>4, PersistsMoves
  <2>5. CASE ShutdownConfirms(c)
    BY <1>1, <2>5, ConfirmsMoves
  <2> QED
    BY <1>5, <2>1, <2>2, <2>3, <2>4, <2>5 DEF ShutdownStep
<1>6. ASSUME NEW t \in Threads, Replay(t) PROVE Moved
  BY <1>2, <1>6, ReplayMoves
<1>7. ASSUME NEW t \in Threads, Deliver(t) PROVE Moved
  BY <1>2, <1>7, DeliverMoves
<1>8. CASE WorkerStep \/ Tick \/ UNCHANGED vars
  BY <1>2, <1>8, WorkerMoves
<1> QED
  BY <1>1, <1>3, <1>4, <1>5, <1>6, <1>7, <1>8 DEF Next

-----------------------------------------------------------------------------
(* Whatever moves, each event stays in one place.                          *)

\* What passes leaves the queue or a batch for another holder.
LEMMA PassesAre ==
  ASSUME IInv, Passes
  PROVE  \E g \in Carriers, h \in Holders : g # h /\ \E n \in 0 .. Len(Holding[g]) :
           Holding' = [Holding EXCEPT ![g] = After(g, n), ![h] = First(g, n) \o Holding[h]]
<1>1. InQueue \in Carriers /\ InQueue \in Holders /\ Holding[InQueue] = queue
  BY HoldersAre, HoldingIs DEF Carriers
<1>2. CASE \E h \in Holders : Dequeues(h)
  BY <1>1, <1>2 DEF Dequeues, PassesOn
<1>3. CASE \E t \in Threads : PutsBack(t)
  <2>1. PICK t \in Threads : PutsBack(t)
    BY <1>3
  <2>2. /\ InBatch(t) \in Carriers /\ InBatch(t) # InQueue
        /\ Holding[InBatch(t)] = Unresolved(t) /\ Unresolved(t) \in Seq(Event)
    BY HoldersAre, HoldingIs, HoldingTypes DEF Carriers
  <2>3. SegmentLen(t) \in 0 .. Len(Holding[InBatch(t)])
    BY <2>1, <2>2, SegmentFirst DEF PutsBack
  <2> QED
    BY <1>1, <2>1, <2>2, <2>3 DEF PutsBack, PassesOn
<1> QED
  BY <1>2, <1>3 DEF Passes

\* What CustodyInv says of the holders, of the log and of the fates.
LEMMA CustodyFacts ==
  ASSUME CustodyInv
  PROVE  /\ Holding \in [Holders -> Seq(Event)] /\ Once(Holding)
         /\ EventsIn(Holding) = {e \in Event : fate[e] = "held"}
         /\ wal \in Seq(Seq(Event)) /\ Once(wal)
         /\ EventsIn(wal) \ EventsIn(Holding) = {e \in Event : fate[e] = "stored"}
         /\ EventsIn(wal) \cap EventsIn(Holding) = Wire
         /\ fate \in [Event -> Fates] /\ submitted \in Nat
         /\ \A e \in Event : fate[e] = "new" <=> e > submitted
<1>1. IInv /\ Conservation /\ NewEvents /\ TypeOK
  BY DEF CustodyInv, IInv
<1>2. wal \in Seq(Seq(Event)) /\ fate \in [Event -> Fates] /\ submitted \in 0 .. MaxEvents
  BY <1>1 DEF TypeOK
<1>3. submitted \in Nat
  BY <1>2, ManagerAssumption
<1>4. EventsIn(wal) = WalEvents /\ EventsIn(Holding) = HeldEvents
  BY DEF EventsIn, WalEvents, HeldEvents
<1> QED
  BY <1>1, <1>2, <1>3, <1>4, HoldingTypes DEF Conservation, NewEvents, Wire

\* The converse, after a step.
LEMMA Conserved ==
  ASSUME Once(Holding'), EventsIn(Holding') = {e \in Event : fate'[e] = "held"},
         Once(wal'), EventsIn(wal') \ EventsIn(Holding') = {e \in Event : fate'[e] = "stored"},
         EventsIn(wal') \cap EventsIn(Holding') = Wire'
  PROVE  Conservation'
<1>1. HeldEvents' = EventsIn(Holding') /\ WalEvents' = EventsIn(wal')
  BY DEF HeldEvents, WalEvents, EventsIn
<1>2. Once(Holding)' = Once(Holding') /\ Once(wal)' = Once(wal')
  BY DEF Once
<1> QED
  BY <1>1, <1>2 DEF Conservation, Wire

\* The first events of a holder, which all are held, get a fate.
LEMMA LeaveFacts ==
  ASSUME CustodyInv, NEW g, NEW n, NEW f \in Fates \ {"new", "held"}, Leave(g, n, f)
  PROVE  /\ Once(Holding')
         /\ EventsIn(Holding') = EventsIn(Holding) \ ToSet(First(g, n))
         /\ ToSet(First(g, n)) \subseteq EventsIn(Holding)
         /\ \A e \in Event : fate'[e] = IF e \in ToSet(First(g, n)) THEN f ELSE fate[e]
         /\ EventsIn(Holding') = {e \in Event : fate'[e] = "held"}
         /\ NewEvents'
         /\ IsFiniteSet(ToSet(First(g, n))) /\ Cardinality(ToSet(First(g, n))) = n
<1>1. /\ g \in Holders /\ n \in 0 .. Len(Holding[g])
      /\ Holding' = [Holding EXCEPT ![g] = SubSeq(Holding[g], n + 1, Len(Holding[g]))]
      /\ fate' = SetFate(ToSet(First(g, n)), f) /\ UNCHANGED submitted
      /\ First(g, n) = SubSeq(Holding[g], 1, n)
  BY DEF Leave, First, After
<1>2. Holding \in [Holders -> Seq(Event)] /\ Once(Holding)
  BY CustodyFacts
<1>3. /\ Once(Holding')
      /\ EventsIn(Holding') = EventsIn(Holding) \ ToSet(First(g, n))
      /\ ToSet(First(g, n)) \subseteq EventsIn(Holding)
  <2>1. PICK F \in [Holders -> Seq(Event)] : F = Holding
    BY <1>2, Zenon
  <2>2. Once(F) /\ g \in Holders /\ n \in 0 .. Len(F[g]) /\ Holding' = Dropped(F, g, n)
    BY <1>1, <1>2, <2>1, Zenon DEF Dropped
  <2>3. /\ Once(Dropped(F, g, n))
        /\ EventsIn(Dropped(F, g, n)) = EventsIn(F) \ ToSet(SubSeq(F[g], 1, n))
        /\ ToSet(SubSeq(F[g], 1, n)) \subseteq EventsIn(F)
    BY <2>2, OnceDrop
  <2> QED
    BY <1>1, <2>1, <2>2, <2>3, Zenon
<1>4. \A e \in Event : fate'[e] = IF e \in ToSet(First(g, n)) THEN f ELSE fate[e]
  BY <1>1 DEF SetFate
<1>5. EventsIn(Holding') = {e \in Event : fate'[e] = "held"}
  BY <1>3, <1>4, CustodyFacts
<1>6. NewEvents'
  <2>1. \A e \in ToSet(First(g, n)) : fate[e] # "new"
    BY <1>3, CustodyFacts
  <2> QED
    BY <1>1, <1>4, <2>1, CustodyFacts DEF NewEvents
<1>7. IsInjective(Holding[g]) /\ Holding[g] \in Seq(Event)
  BY <1>1, <1>2 DEF Once, IsInjective
<1> QED
  BY <1>1, <1>3, <1>4, <1>5, <1>6, <1>7, OncePrefix, Zenon

\* A record that is acknowledged leaves the log.
LEMMA AcknowledgedFacts ==
  ASSUME CustodyInv, NEW i \in DOMAIN wal, wal' = RemoveAt(wal, i)
  PROVE  /\ Once(wal') /\ EventsIn(wal') = EventsIn(wal) \ ToSet(wal[i])
         /\ ToSet(wal[i]) \subseteq EventsIn(wal)
         /\ \A k \in DOMAIN wal' : \E l \in DOMAIN wal : wal'[k] = wal[l]
<1>1. wal \in Seq(Seq(Event)) /\ Once(wal)
  BY CustodyFacts
<1>2. ToSet(wal[i]) \subseteq EventsIn(wal)
  BY DEF EventsIn
<1>3. PICK s \in Seq(Seq(Event)) : s = wal
  BY <1>1, Zenon
<1>4. /\ Once(RemoveAt(s, i)) /\ EventsIn(RemoveAt(s, i)) = EventsIn(s) \ ToSet(s[i])
      /\ \A k \in DOMAIN RemoveAt(s, i) : \E l \in DOMAIN s : RemoveAt(s, i)[k] = s[l]
  <2>1. Once(s) /\ i \in DOMAIN s
    BY <1>1, <1>3, Zenon
  <2> QED
    BY <2>1, OnceRemove
<1> QED
  BY <1>2, <1>3, <1>4, Zenon

\* The batch that a record is written for is in none yet.
LEMMA PostedFacts ==
  ASSUME CustodyInv, NEW g \in Holders, NEW n \in 0 .. Len(Holding[g]),
         ToSet(First(g, n)) \cap Wire = {}, wal' = Append(wal, First(g, n))
  PROVE  /\ Once(wal') /\ EventsIn(wal') = EventsIn(wal) \cup ToSet(First(g, n))
         /\ ToSet(First(g, n)) \subseteq EventsIn(Holding)
         /\ \A k \in DOMAIN wal' :
              wal'[k] = First(g, n) \/ \E l \in DOMAIN wal : wal'[k] = wal[l]
<1>1. /\ Holding \in [Holders -> Seq(Event)] /\ Once(Holding)
      /\ wal \in Seq(Seq(Event)) /\ Once(wal)
  BY CustodyFacts
<1>2. First(g, n) = SubSeq(Holding[g], 1, n)
  BY DEF First
<1>3. IsInjective(Holding[g]) /\ Holding[g] \in Seq(Event)
  BY <1>1 DEF Once, IsInjective
<1>4. IsInjective(First(g, n)) /\ First(g, n) \in Seq(Event)
  BY <1>2, <1>3, OncePrefix, PartsOf
<1>5. ToSet(First(g, n)) \subseteq EventsIn(Holding)
  <2>1. DOMAIN Holding = Holders
    BY <1>1
  <2>2. ToSet(First(g, n)) \subseteq ToSet(Holding[g])
    <3>0. PICK s \in Seq(Event) : s = Holding[g]
      BY <1>3, Zenon
    <3>1. /\ ToSet(SubSeq(Holding[g], 1, n)) = {Holding[g][i] : i \in 1 .. n}
          /\ ToSet(Holding[g]) = {Holding[g][i] : i \in 1 .. Len(Holding[g])}
      <4>1. /\ ToSet(SubSeq(s, 1, n)) = {s[i] : i \in 1 .. n}
            /\ ToSet(s) = {s[i] : i \in 1 .. Len(s)}
        BY <3>0, PartsHold
      <4> QED
        BY <3>0, <4>1, Zenon
    <3>2. 1 .. n \subseteq 1 .. Len(Holding[g])
      BY <1>3
    <3> QED
      BY <1>2, <3>1, <3>2
  <2> QED
    BY <2>1, <2>2 DEF EventsIn
<1>6. ToSet(First(g, n)) \cap EventsIn(wal) = {}
  BY <1>5, CustodyFacts
<1>7. Once(wal') /\ EventsIn(wal') = EventsIn(wal) \cup ToSet(First(g, n))
  BY <1>1, <1>4, <1>6, OnceAppend, Zenon
<1>8. \A k \in DOMAIN wal' :
        wal'[k] = First(g, n) \/ \E l \in DOMAIN wal : wal'[k] = wal[l]
  BY <1>1
<1> QED
  BY <1>5, <1>7, <1>8

\* Steps that change no fate.
LEMMA MovesConserve ==
  ASSUME CustodyInv, Idles \/ Passes \/ Splits \/ Posts
  PROVE  Conservation' /\ NewEvents'
<1>1. UNCHANGED <<fate, submitted>>
  BY DEF Idles, Passes, Splits, Posts
<1>2. NewEvents'
  BY <1>1 DEF CustodyInv, NewEvents
<1>3. CASE Idles
  <2>1. Holding' = Holding /\ wal' = wal /\ Wire' = Wire
    BY <1>3 DEF Idles, LogStays
  <2>2. Conservation'
    BY <1>1, <2>1, CustodyFacts, Conserved
  <2> QED
    BY <1>2, <2>2
<1>4. CASE Passes
  <2>1. PICK g, h \in Holders : g # h /\ \E n \in 0 .. Len(Holding[g]) :
          Holding' = [Holding EXCEPT ![g] = After(g, n), ![h] = First(g, n) \o Holding[h]]
    <3>1. Carriers \subseteq Holders
      BY HoldersAre DEF Carriers
    <3> QED
      BY <1>4, <3>1, PassesAre DEF CustodyInv
  <2>2. PICK n \in 0 .. Len(Holding[g]) :
          Holding' = [Holding EXCEPT ![g] = SubSeq(Holding[g], n + 1, Len(Holding[g])),
                                     ![h] = SubSeq(Holding[g], 1, n) \o Holding[h]]
    BY <2>1 DEF First, After
  <2>3. Once(Holding') /\ EventsIn(Holding') = EventsIn(Holding)
    <3>1. Holding \in [Holders -> Seq(Event)] /\ Once(Holding) /\ g # h
      BY <2>1, CustodyFacts
    <3>2. PICK F \in [Holders -> Seq(Event)] : F = Holding
      BY <3>1, Zenon
    <3>3. Once(F) /\ n \in 0 .. Len(F[g]) /\ Holding' = Passed(F, g, h, n)
      BY <2>2, <3>1, <3>2, Zenon DEF Passed
    <3>4. Once(Passed(F, g, h, n)) /\ EventsIn(Passed(F, g, h, n)) = EventsIn(F)
      BY <3>1, <3>3, OncePass
    <3> QED
      BY <3>2, <3>3, <3>4, Zenon
  <2>4. wal' = wal /\ Wire' = Wire
    BY <1>4 DEF Passes, LogStays
  <2>5. Conservation'
    BY <1>1, <2>3, <2>4, CustodyFacts, Conserved
  <2> QED
    BY <1>2, <2>5
<1>5. CASE Splits
  <2>1. PICK r \in Seq(Event) : Acknowledges(r)
    BY <1>5 DEF Splits
  <2>2. PICK i \in DOMAIN wal : wal[i] = r /\ wal' = RemoveAt(wal, i)
    BY <2>1 DEF Acknowledges
  <2>3. Once(wal') /\ EventsIn(wal') = EventsIn(wal) \ ToSet(r)
    BY <2>2, AcknowledgedFacts
  <2>4. Holding' = Holding /\ Wire = ToSet(r) /\ Wire' = {}
    BY <1>5, <2>1 DEF Splits, Acknowledges
  <2>5. Conservation'
    <3>1. EventsIn(wal') \ EventsIn(Holding') = EventsIn(wal) \ EventsIn(Holding)
      BY <2>3, <2>4, CustodyFacts
    <3>2. EventsIn(wal') \cap EventsIn(Holding') = {}
      BY <2>3, <2>4, CustodyFacts
    <3> QED
      BY <1>1, <2>3, <2>4, <3>1, <3>2, CustodyFacts, Conserved
  <2> QED
    BY <1>2, <2>5
<1>6. CASE Posts
  <2>0. PICK g \in Holders : \E n \in 1 .. Len(Holding[g]) :
          wal' = Append(wal, First(g, n)) /\ Wire' = ToSet(First(g, n))
    BY <1>6 DEF Posts
  <2>1. PICK n \in 1 .. Len(Holding[g]) :
          wal' = Append(wal, First(g, n)) /\ Wire' = ToSet(First(g, n))
    BY <2>0
  <2>2. Holding' = Holding /\ Wire = {} /\ n \in 0 .. Len(Holding[g])
    BY <1>6, <2>1 DEF Posts
  <2>3. /\ Once(wal') /\ EventsIn(wal') = EventsIn(wal) \cup ToSet(First(g, n))
        /\ ToSet(First(g, n)) \subseteq EventsIn(Holding)
    BY <2>1, <2>2, PostedFacts
  <2>4. Conservation'
    <3>1. EventsIn(wal') \ EventsIn(Holding') = EventsIn(wal) \ EventsIn(Holding)
      BY <2>2, <2>3
    <3>2. EventsIn(wal') \cap EventsIn(Holding') = Wire'
      BY <2>1, <2>2, <2>3, CustodyFacts
    <3> QED
      BY <1>1, <2>2, <2>3, <3>1, <3>2, CustodyFacts, Conserved
  <2> QED
    BY <1>2, <2>4
<1> QED
  BY <1>3, <1>4, <1>5, <1>6

\* Steps that bring an event.
LEMMA ComingConserves ==
  ASSUME CustodyInv, Refuses \/ Accepts
  PROVE  /\ Conservation' /\ NewEvents' /\ fate[submitted'] = "new" /\ submitted' \in Event
         /\ \E f \in Fates \ {"new"} : fate' = SetFate({submitted'}, f)
<1>1. submitted' = submitted + 1 /\ submitted' \in Event /\ wal' = wal /\ Wire' = Wire
  BY DEF Refuses, Accepts, Comes, LogStays
<1>2. PICK f \in {"refused", "lost", "held"} :
        fate' = SetFate({submitted'}, f) /\ (f = "held" <=> Accepts)
  <2>1. CASE Accepts
    BY <2>1 DEF Accepts
  <2>2. CASE ~Accepts
    BY <2>2 DEF Refuses
  <2> QED
    BY <2>1, <2>2
<1>3. fate[submitted'] = "new"
  <2>1. submitted' > submitted
    BY <1>1, CustodyFacts
  <2> QED
    BY <1>1, <2>1, CustodyFacts
<1>4. \A e \in Event : fate'[e] = IF e = submitted' THEN f ELSE fate[e]
  BY <1>2 DEF SetFate
<1>5. NewEvents'
  <2>1. \A e \in Event : e > submitted' <=> (e > submitted /\ e # submitted')
    BY <1>1, CustodyFacts, ManagerAssumption DEF Event
  <2> QED
    BY <1>1, <1>3, <1>4, <2>1, CustodyFacts DEF NewEvents
<1>6. submitted' \notin EventsIn(Holding) /\ submitted' \notin EventsIn(wal)
  BY <1>3, CustodyFacts
<1>7. Once(Holding') /\ EventsIn(Holding') = {e \in Event : fate'[e] = "held"}
  <2>1. CASE Accepts
    <3>1. Holding' = [Holding EXCEPT ![InQueue] = Append(Holding[InQueue], submitted')]
      BY <2>1, HoldingIs DEF Accepts
    <3>2. Once(Holding') /\ EventsIn(Holding') = EventsIn(Holding) \cup {submitted'}
      <4>1. Holding \in [Holders -> Seq(Event)] /\ Once(Holding) /\ InQueue \in Holders
        BY CustodyFacts, HoldersAre
      <4>2. PICK F \in [Holders -> Seq(Event)] : F = Holding
        BY <4>1, Zenon
      <4>3. PICK e \in Event : e = submitted'
        BY <1>1, Zenon
      <4>4. Once(F) /\ e \notin EventsIn(F) /\ Holding' = Joined(F, InQueue, e)
        BY <1>6, <3>1, <4>1, <4>2, <4>3, Zenon DEF Joined
      <4>5. /\ Once(Joined(F, InQueue, e))
            /\ EventsIn(Joined(F, InQueue, e)) = EventsIn(F) \cup {e}
        BY <4>1, <4>4, OnceAdd
      <4> QED
        BY <4>2, <4>3, <4>4, <4>5, Zenon
    <3> QED
      BY <1>1, <1>2, <1>4, <2>1, <3>2, CustodyFacts
  <2>2. CASE ~Accepts
    <3>1. Holding' = Holding
      BY <2>2 DEF Refuses
    <3> QED
      BY <1>2, <1>3, <1>4, <2>2, <3>1, CustodyFacts
  <2> QED
    BY <2>1, <2>2
<1>8. \A e \in Event : fate'[e] = "stored" <=> fate[e] = "stored"
  BY <1>2, <1>3, <1>4
<1>9. /\ EventsIn(wal) \ EventsIn(Holding') = {e \in Event : fate'[e] = "stored"}
      /\ EventsIn(wal) \cap EventsIn(Holding') = Wire'
  <2>1. EventsIn(wal) \subseteq Event
    <3>1. wal \in Seq(Seq(Event))
      BY CustodyFacts
    <3> QED
      BY <3>1 DEF EventsIn, ToSet
  <2>2. \A e \in EventsIn(wal) : e \in EventsIn(Holding') <=> e \in EventsIn(Holding)
    BY <1>4, <1>6, <1>7, <2>1, CustodyFacts
  <2> QED
    BY <1>1, <1>8, <2>2, CustodyFacts
<1>10. Conservation'
  BY <1>1, <1>7, <1>9, CustodyFacts, Conserved
<1>11. f \in Fates \ {"new"}
  BY DEF Fates
<1> QED
  BY <1>1, <1>2, <1>3, <1>5, <1>10, <1>11

\* Steps that settle events from memory.
LEMMA SettlingConserves ==
  ASSUME CustodyInv, NEW g, NEW n, NEW f \in {"delivered", "lost"}, Leave(g, n, f),
         \/ LogStays /\ ToSet(First(g, n)) \cap Wire = {}
         \/ enabled /\ Acknowledges(First(g, n))
  PROVE  Conservation' /\ NewEvents'
<1> DEFINE E == ToSet(First(g, n))
           M == EventsIn(Holding)
           L == EventsIn(wal)
<1>0. f \in Fates \ {"new", "held"} /\ f # "stored"
  BY DEF Fates
<1>1. /\ Once(Holding') /\ EventsIn(Holding') = M \ E /\ E \subseteq M
      /\ EventsIn(Holding') = {e \in Event : fate'[e] = "held"}
      /\ \A e \in Event : fate'[e] = IF e \in E THEN f ELSE fate[e]
      /\ NewEvents'
  BY <1>0, LeaveFacts
<1>2. /\ Once(wal) /\ L \cap M = Wire /\ L \ M = {e \in Event : fate[e] = "stored"}
      /\ M = {e \in Event : fate[e] = "held"}
  BY CustodyFacts
<1>3. /\ Once(wal') /\ EventsIn(wal') \ (M \ E) = L \ M /\ EventsIn(wal') \cap (M \ E) = Wire'
  <2>1. CASE LogStays /\ E \cap Wire = {}
    <3>1. EventsIn(wal') = L /\ Wire' = Wire /\ Once(wal')
      BY <1>2, <2>1 DEF LogStays
    <3> HIDE DEF E, M, L
    <3> QED
      BY <1>1, <1>2, <2>1, <3>1
  <2>2. CASE Acknowledges(First(g, n))
    <3>1. PICK i \in DOMAIN wal : wal[i] = First(g, n) /\ wal' = RemoveAt(wal, i)
      BY <2>2 DEF Acknowledges
    <3>2. Once(wal') /\ EventsIn(wal') = L \ E /\ E \subseteq L
      BY <3>1, AcknowledgedFacts
    <3>3. Wire = E /\ Wire' = {}
      BY <2>2 DEF Acknowledges
    <3> HIDE DEF E, M, L
    <3> QED
      BY <1>1, <1>2, <3>2, <3>3
  <2> QED
    BY <2>1, <2>2
<1> HIDE DEF E, M, L
<1>4. {e \in Event : fate'[e] = "stored"} = L \ M
  BY <1>0, <1>1, <1>2
<1>5. Conservation'
  BY <1>1, <1>3, <1>4, Conserved
<1> QED
  BY <1>1, <1>5

\* Steps that leave events to the log.
LEMMA StoringConserves ==
  ASSUME CustodyInv, NEW g \in Holders, NEW n \in 1 .. Len(Holding[g]),
         Leave(g, n, "stored"),
         \/ Wire = ToSet(First(g, n)) /\ Wire' = {} /\ wal' = wal
         \/ /\ wal' = Append(wal, First(g, n))
            /\ Wire' = Wire /\ ToSet(First(g, n)) \cap Wire = {}
  PROVE  Conservation' /\ NewEvents'
<1> DEFINE E == ToSet(First(g, n))
           M == EventsIn(Holding)
           L == EventsIn(wal)
<1>0. "stored" \in Fates \ {"new", "held"}
  BY DEF Fates
<1>1. /\ Once(Holding') /\ EventsIn(Holding') = M \ E /\ E \subseteq M
      /\ EventsIn(Holding') = {e \in Event : fate'[e] = "held"}
      /\ \A e \in Event : fate'[e] = IF e \in E THEN "stored" ELSE fate[e]
      /\ NewEvents'
  BY <1>0, LeaveFacts
<1>2. /\ Once(wal) /\ L \cap M = Wire /\ L \ M = {e \in Event : fate[e] = "stored"}
      /\ M = {e \in Event : fate[e] = "held"}
  BY CustodyFacts
<1>3. /\ Once(wal') /\ EventsIn(wal') \ (M \ E) = (L \ M) \cup E
      /\ EventsIn(wal') \cap (M \ E) = Wire'
  <2>1. CASE Wire = E /\ Wire' = {} /\ wal' = wal
    <3>1. EventsIn(wal') = L /\ Once(wal')
      BY <1>2, <2>1
    <3> HIDE DEF E, M, L
    <3> QED
      BY <1>1, <1>2, <2>1, <3>1
  <2>2. CASE wal' = Append(wal, First(g, n)) /\ Wire' = Wire /\ E \cap Wire = {}
    <3>0. n \in 0 .. Len(Holding[g])
      BY DEF Leave
    <3>1. Once(wal') /\ EventsIn(wal') = L \cup E
      BY <2>2, <3>0, PostedFacts
    <3> HIDE DEF E, M, L
    <3> QED
      BY <1>1, <1>2, <2>2, <3>1
  <2> QED
    BY <2>1, <2>2
<1> HIDE DEF E, M, L
<1>4. {e \in Event : fate'[e] = "stored"} = (L \ M) \cup E
  BY <1>1, <1>2
<1>5. Conservation'
  BY <1>1, <1>3, <1>4, Conserved
<1> QED
  BY <1>1, <1>5

\* recover() settles a record of events that are in no memory.
LEMMA ReplayConserves ==
  ASSUME CustodyInv, Replays
  PROVE  /\ Conservation' /\ NewEvents'
         /\ \A e \in ToSet(wal[1]) : e \in Event /\ fate[e] = "stored"
<1> DEFINE E == ToSet(wal[1])
           M == EventsIn(Holding)
           L == EventsIn(wal)
<1>1. /\ Holding' = Holding /\ submitted' = submitted /\ Wire = {} /\ Wire' = {}
      /\ 1 \in DOMAIN wal /\ wal' = RemoveAt(wal, 1)
  BY DEF Replays
<1>2. PICK f \in {"replayed", "rejected"} : fate' = SetFate(E, f)
  BY DEF Replays
<1>3. /\ Once(Holding) /\ L \cap M = Wire /\ L \ M = {e \in Event : fate[e] = "stored"}
      /\ M = {e \in Event : fate[e] = "held"}
      /\ \A e \in Event : fate[e] = "new" <=> e > submitted
  BY CustodyFacts
<1>4. Once(wal') /\ EventsIn(wal') = L \ E /\ E \subseteq L
  BY <1>1, AcknowledgedFacts
<1>5. \A e \in Event : fate'[e] = IF e \in E THEN f ELSE fate[e]
  BY <1>2 DEF SetFate
<1>6. EventsIn(Holding') = M /\ Once(Holding')
  BY <1>1, <1>3
<1> HIDE DEF E, M, L
<1>7. E \subseteq {e \in Event : fate[e] = "stored"}
  BY <1>1, <1>3, <1>4
<1>8. /\ M = {e \in Event : fate'[e] = "held"}
      /\ EventsIn(wal') \ M = {e \in Event : fate'[e] = "stored"}
      /\ EventsIn(wal') \cap M = Wire'
  BY <1>1, <1>3, <1>4, <1>5, <1>7
<1>9. Conservation'
  BY <1>4, <1>6, <1>8, Conserved
<1>10. NewEvents'
  BY <1>1, <1>3, <1>5, <1>7 DEF NewEvents
<1> QED
  BY <1>7, <1>9, <1>10 DEF E

\* Conservation is kept.
LEMMA ConservationStep == CustodyInv /\ [Next]_vars => Conservation' /\ NewEvents'
<1>1. SUFFICES ASSUME CustodyInv, Moved PROVE Conservation' /\ NewEvents'
  BY EveryStepMoves
<1>2. CASE Idles \/ Passes \/ Splits \/ Posts
  BY <1>1, <1>2, MovesConserve
<1>3. CASE Refuses \/ Accepts
  BY <1>1, <1>3, ComingConserves
<1>4. CASE Replays
  BY <1>1, <1>4, ReplayConserves
<1>5. ASSUME NEW g \in Holders, NEW n \in 1 .. Len(Holding[g]), Settles(g, n)
      PROVE  Conservation' /\ NewEvents'
  BY <1>1, <1>5, SettlingConserves DEF Settles
<1>6. ASSUME NEW g \in Holders, NEW n \in 1 .. Len(Holding[g]), Retains(g, n)
      PROVE  Conservation' /\ NewEvents'
  BY <1>1, <1>6, StoringConserves DEF Retains
<1>7. ASSUME NEW c \in Callers, Persists(c)
      PROVE  Conservation' /\ NewEvents'
  <2>1. InHands(c) \in Holders /\ 1 \in 0 .. Len(Holding[InHands(c)])
        /\ Leave(InHands(c), 1, "stored") /\ wal' = Append(wal, First(InHands(c), 1))
        /\ Wire' = Wire
    BY <1>7, HoldersAre DEF Persists, Leave
  <2>2. Holding[InHands(c)] \in Seq(Event)
    BY <1>1, <2>1, CustodyFacts
  <2>3. 1 \in 1 .. Len(Holding[InHands(c)])
    BY <2>1, <2>2
  <2>4. ToSet(First(InHands(c), 1)) \cap Wire = {}
    BY <1>7 DEF Persists, ToSet
  <2> QED
    BY <1>1, <2>1, <2>3, <2>4, StoringConserves
<1>8. ASSUME NEW c \in Callers, Recounts(c)
      PROVE  Conservation' /\ NewEvents'
  <2>1. /\ Leave(InHands(c), Len(Unwritten(c)), "lost") /\ LogStays
        /\ ToSet(Unwritten(c)) \cap Wire = {}
    BY <1>8 DEF Recounts
  <2>2. First(InHands(c), Len(Unwritten(c))) = Unwritten(c)
    <3>1. Holding[InHands(c)] = Unwritten(c) /\ Unwritten(c) \in Seq(Event)
      BY <1>1, HoldingIs, HoldingTypes DEF CustodyInv
    <3>2. \A s \in Seq(Event) : SubSeq(s, 1, Len(s)) = s
      OBVIOUS
    <3> QED
      BY <3>1, <3>2 DEF First
  <2> QED
    BY <1>1, <2>1, <2>2, SettlingConserves
<1> QED
  BY <1>1, <1>2, <1>3, <1>4, <1>5, <1>6, <1>7, <1>8 DEF Moved

\* What is neither to come nor held never is again.
LEMMA NeverHeldAgain ==
  ASSUME CustodyInv, Moved
  PROVE  \A e \in Event : fate[e] \notin {"new", "held", "parent"}
                         => fate'[e] \notin {"new", "held", "parent"}
<1>1. CASE Idles \/ Passes \/ Splits \/ Posts
  BY <1>1 DEF Idles, Passes, Splits, Posts
<1>2. CASE Refuses \/ Accepts
  <2>1. fate[submitted'] = "new" /\ \E f \in Fates \ {"new"} : fate' = SetFate({submitted'}, f)
    BY <1>2, ComingConserves
  <2> QED
    BY <2>1 DEF SetFate
<1>3. CASE Replays
  BY <1>3 DEF Replays, SetFate
<1>4. ASSUME NEW g, NEW n, NEW f \in {"delivered", "lost", "stored"}, Leave(g, n, f)
      PROVE  \A e \in Event : fate[e] \notin {"new", "held", "parent"}
                         => fate'[e] \notin {"new", "held", "parent"}
  BY <1>4 DEF Leave, SetFate
<1>5. CASE \E g \in Holders : \E n \in 1 .. Len(Holding[g]) : Settles(g, n) \/ Retains(g, n)
  <2>1. \E g, n : \E f \in {"delivered", "lost", "stored"} : Leave(g, n, f)
    BY <1>5 DEF Settles, Retains
  <2> QED
    BY <1>4, <2>1
<1>6. CASE \E c \in Callers : Persists(c) \/ Recounts(c)
  <2>1. \E g, n : \E f \in {"delivered", "lost", "stored"} : Leave(g, n, f)
    BY <1>6 DEF Persists, Recounts
  <2> QED
    BY <1>4, <2>1
<1> QED
  BY <1>1, <1>2, <1>3, <1>5, <1>6 DEF Moved

\* A record is written of events in memory only.
LEMMA RecordsOfMemory ==
  ASSUME CustodyInv, Moved, NEW k \in DOMAIN wal'
  PROVE  \/ \E l \in DOMAIN wal : wal'[k] = wal[l]
         \/ \A e \in ToSet(wal'[k]) : fate[e] = "held"
<1>0. \A e \in EventsIn(Holding) : fate[e] = "held"
  BY CustodyFacts
<1>1. ASSUME NEW i \in DOMAIN wal, wal' = RemoveAt(wal, i)
      PROVE  \E l \in DOMAIN wal : wal'[k] = wal[l]
  BY <1>1, AcknowledgedFacts
<1>2. ASSUME NEW g \in Holders, NEW n \in 0 .. Len(Holding[g]),
             ToSet(First(g, n)) \cap Wire = {}, wal' = Append(wal, First(g, n))
      PROVE  \/ \E l \in DOMAIN wal : wal'[k] = wal[l]
             \/ \A e \in ToSet(wal'[k]) : fate[e] = "held"
  <2>1. /\ ToSet(First(g, n)) \subseteq EventsIn(Holding)
        /\ wal'[k] = First(g, n) \/ \E l \in DOMAIN wal : wal'[k] = wal[l]
    BY <1>2, PostedFacts
  <2> QED
    BY <1>0, <2>1
<1>3. CASE wal' = wal
  BY <1>3
<1>4. CASE Splits
  <2>1. PICK r \in Seq(Event) : Acknowledges(r)
    BY <1>4 DEF Splits
  <2> QED
    BY <1>1, <2>1 DEF Acknowledges
<1>5. CASE Posts
  <2>1. PICK g \in Holders : \E n \in 1 .. Len(Holding[g]) : wal' = Append(wal, First(g, n))
    BY <1>5 DEF Posts
  <2>2. PICK n \in 1 .. Len(Holding[g]) : wal' = Append(wal, First(g, n))
    BY <2>1
  <2>3. n \in 0 .. Len(Holding[g]) /\ Wire = {}
    BY <1>5 DEF Posts
  <2> QED
    BY <1>2, <2>2, <2>3
<1>6. CASE Replays
  BY <1>1, <1>6 DEF Replays
<1>7. ASSUME NEW g \in Holders, NEW n, Settles(g, n), ~LogStays
      PROVE  \E l \in DOMAIN wal : wal'[k] = wal[l]
  BY <1>1, <1>7 DEF Settles, Acknowledges
<1>8. ASSUME NEW c \in Callers, Persists(c)
      PROVE  \/ \E l \in DOMAIN wal : wal'[k] = wal[l]
             \/ \A e \in ToSet(wal'[k]) : fate[e] = "held"
  <2>1. /\ InHands(c) \in Holders /\ 1 \in 0 .. Len(Holding[InHands(c)])
        /\ wal' = Append(wal, First(InHands(c), 1))
    BY <1>8 DEF Persists, Leave
  <2>2. ToSet(First(InHands(c), 1)) \cap Wire = {}
    BY <1>8 DEF Persists, ToSet
  <2> QED
    BY <1>2, <2>1, <2>2
<1> QED
  BY <1>3, <1>4, <1>5, <1>6, <1>7, <1>8
  DEF Moved, Idles, Refuses, Accepts, Passes, Comes, LogStays, Retains, Recounts

\* What a shutdown has written stays so.
LEMMA WrittenStep == CustodyInv /\ [Next]_vars => Written'
<1>1. SUFFICES ASSUME CustodyInv, [Next]_vars, NEW c \in Callers, pc'[c] = "confirm"
               PROVE  /\ fate'[Head(taken'[c])] \notin {"new", "held", "parent"}
                      /\ \A i \in DOMAIN wal' : Head(taken'[c]) \in ToSet(wal'[i])
                           => wal'[i] = <<Head(taken'[c])>>
  BY DEF Written
<1>2. Moved
  BY <1>1, EveryStepMoves
<1>3. \A s \in Seq(Event) : s # <<>> => Head(s) \in Event
  OBVIOUS
<1>4. \A d \in Callers : pc[d] \in {"persist", "confirm"} => Head(taken[d]) \in Event
  <2>1. taken \in [Callers -> Seq(Event)]
        /\ \A d \in Callers : pc[d] \in {"persist", "confirm"} => taken[d] # <<>>
    BY <1>1 DEF CustodyInv, IInv, TypeOK, NothingStranded
  <2> QED
    BY <1>3, <2>1
<1>5. CASE pc[c] = "confirm" /\ taken'[c] = taken[c]
  <2> DEFINE x == Head(taken[c])
  <2>1. /\ x \in Event /\ fate[x] \notin {"new", "held", "parent"}
        /\ \A i \in DOMAIN wal : x \in ToSet(wal[i]) => wal[i] = <<x>>
    BY <1>1, <1>4, <1>5 DEF CustodyInv, Written
  <2> HIDE DEF x
  <2>2. fate'[x] \notin {"new", "held", "parent"}
    BY <1>1, <1>2, <2>1, NeverHeldAgain
  <2>3. ASSUME NEW i \in DOMAIN wal', x \in ToSet(wal'[i]) PROVE wal'[i] = <<x>>
    BY <1>1, <1>2, <2>1, <2>3, RecordsOfMemory
  <2> QED
    BY <1>5, <2>2, <2>3 DEF x
<1>6. CASE Persists(c)
  <2> DEFINE x == Head(taken[c])
             r == <<Head(taken[c])>>
  <2>1. /\ InHands(c) \in Holders /\ 1 \in 0 .. Len(Holding[InHands(c)])
        /\ First(InHands(c), 1) = r /\ wal' = Append(wal, r)
        /\ Wire' = Wire /\ x \notin Wire /\ taken' = taken
        /\ fate' = SetFate(ToSet(r), "stored")
    BY <1>6 DEF Persists, Leave
  <2>2. ToSet(r) = {x}
    BY DEF ToSet
  <2> HIDE DEF x, r
  <2>3. {x} \subseteq EventsIn(Holding)
        /\ \A k \in DOMAIN wal' : wal'[k] = r \/ \E l \in DOMAIN wal : wal'[k] = wal[l]
    <3>1. ToSet(First(InHands(c), 1)) \cap Wire = {}
      BY <2>1, <2>2
    <3>2. wal' = Append(wal, First(InHands(c), 1))
      BY <2>1
    <3>3. /\ ToSet(First(InHands(c), 1)) \subseteq EventsIn(Holding)
          /\ \A k \in DOMAIN wal' : wal'[k] = First(InHands(c), 1)
                                      \/ \E l \in DOMAIN wal : wal'[k] = wal[l]
      BY <1>1, <2>1, <3>1, <3>2, PostedFacts
    <3> QED
      BY <2>1, <2>2, <3>3
  <2>4. x \in EventsIn(Holding) /\ x \in Event /\ fate'[x] = "stored"
    <3>1. x \in Event
      BY <1>1, <2>3, CustodyFacts
    <3> QED
      BY <2>1, <2>2, <2>3, <3>1 DEF SetFate
  <2>5. x \notin EventsIn(wal)
    BY <1>1, <2>1, <2>4, CustodyFacts
  <2>6. \A l \in DOMAIN wal : x \notin ToSet(wal[l])
    BY <2>5 DEF EventsIn
  <2>7. \A i \in DOMAIN wal' : x \in ToSet(wal'[i]) => wal'[i] = r
    BY <2>3, <2>6
  <2> QED
    BY <2>1, <2>4, <2>7 DEF x, r
<1>7. NoneWrites \/ \E d \in Callers : Persists(d)
  BY <1>2 DEF Moved, Idles, Refuses, Accepts, Passes, Comes, Settles, Retains, Splits, Posts,
                  Replays, Recounts
<1>8. (pc[c] = "confirm" /\ taken'[c] = taken[c]) \/ Persists(c)
  <2>1. CASE NoneWrites
    BY <1>1, <2>1 DEF NoneWrites
  <2>2. CASE \E d \in Callers : Persists(d)
    BY <1>1, <2>2 DEF Persists
  <2> QED
    BY <1>7, <2>1, <2>2
<1> QED
  BY <1>5, <1>6, <1>8

\* A manager with nothing in hand: a new one, or that of a child.
Blank ==
  /\ TypeOK /\ NewEvents /\ ~finite
  /\ queue = <<>> /\ inflight = 0 /\ wal = <<>>
  /\ \A t \in Threads : job[t] = NoJob /\ call[t] = NoCall /\ pc[t] \in {"off", "idle"}
  /\ \A c \in Callers : taken[c] = <<>> /\ pc[c] = "idle"
  /\ \A e \in Event : fate[e] \notin {"held", "stored"}

LEMMA BeginsBlank == Init => Blank
<1>1. SUFFICES ASSUME Init PROVE Blank
  OBVIOUS
<1>2. TypeOK
  BY <1>1, IInvInit DEF IInv
<1>3. NewEvents
  BY <1>1 DEF Init, NewEvents, Event
<1> QED
  BY <1>1, <1>2, <1>3, ManagerAssumption DEF Init, Blank, Threads

Forks == \E c \in Callers : Fork(c)

\* The child of a fork has nothing of its parent's.
LEMMA ChildIsBlank == TypeOK /\ NewEvents /\ NothingStranded /\ Forks => Blank'
<1>1. SUFFICES ASSUME TypeOK, NewEvents, NothingStranded, NEW c \in Callers, Fork(c)
               PROVE  Blank'
  BY DEF Forks
<1>2. /\ queue' = <<>> /\ inflight' = 0 /\ tickDue' = FALSE
      /\ enabled' = FALSE /\ wal' = <<>> /\ todo' = 0
      /\ job' = [t \in Threads |-> NoJob] /\ call' = [t \in Threads |-> NoCall]
      /\ taken' = [d \in Callers |-> <<>>]
      /\ pc' = [t \in Threads |-> IF t = Worker THEN "off" ELSE "idle"]
      /\ fate' = [e \in Event |-> IF fate[e] \in {"held", "stored"} THEN "parent" ELSE fate[e]]
      /\ UNCHANGED <<closed, finite, delivered, lost, submitted>> /\ ~finite
  BY <1>1 DEF Fork, QueueCleared, LogDisabled, InflightReset, Parents, counters, NothingStranded
<1>3. NoJob \in Jobs /\ NoCall \in CallStates
  BY ManagerAssumption DEF NoJob, Jobs, NoCall, CallStates
<1>4. TypeOK'
  <2>1. fate' \in [Event -> Fates]
    BY <1>1, <1>2 DEF TypeOK, Fates
  <2>2. <<>> \in Seq(Event) /\ <<>> \in Seq(Seq(Event)) /\ 0 \in Nat /\ 0 \in Int
    OBVIOUS
  <2>3. /\ pc' \in [Threads -> Places] /\ job' \in [Threads -> Jobs]
        /\ call' \in [Threads -> CallStates] /\ taken' \in [Callers -> Seq(Event)]
    BY <1>2, <1>3, <2>2 DEF Places
  <2> QED
    BY <1>1, <1>2, <2>1, <2>2, <2>3 DEF TypeOK
<1>5. NewEvents'
  BY <1>1, <1>2 DEF NewEvents
<1> QED
  BY <1>2, <1>4, <1>5, ManagerAssumption DEF Blank, Threads

\* Where nothing is in hand everything is in order.
LEMMA BlankCustody == Blank => CustodyInv
<1>1. SUFFICES ASSUME Blank PROVE CustodyInv
  OBVIOUS
<1>3. /\ queue = <<>> /\ wal = <<>>
      /\ \A t \in Threads : job[t] = NoJob /\ pc[t] \in {"off", "idle"}
      /\ \A c \in Callers : taken[c] = <<>>
      /\ \A e \in Event : fate[e] \notin {"held", "stored"}
  BY <1>1 DEF Blank
<1>2. IInv
  <2>1. JobsWellFormed
    BY <1>3 DEF JobsWellFormed, WellFormed, NoJob, Dispatching
  <2>2. OneDelivery /\ WriteAhead
    BY <1>3 DEF OneDelivery, WriteAhead
  <2>3. NothingStranded
    BY <1>1, <1>3 DEF Blank, NothingStranded, Threads
  <2> QED
    BY <1>1, <2>1, <2>2, <2>3 DEF Blank, IInv
<1>4. \A h \in Holders : Holding[h] = <<>>
  <2>1. SubSeq(<<>>, 0 + 1, Len(<<>>)) = <<>>
    OBVIOUS
  <2>2. \A t \in Threads : Unresolved(t) = <<>>
    BY <1>3, <2>1 DEF Unresolved, NoJob
  <2>3. \A c \in Callers : Unwritten(c) = <<>>
    BY <1>3 DEF Unwritten, Threads
  <2> QED
    BY <1>3, <2>2, <2>3, HoldersAre, HoldingIs
<1>5. HeldEvents = {} /\ Once(Holding)
  BY <1>4, HoldingIs DEF HeldEvents, EventsIn, Once, ToSet
<1>6. WalEvents = {} /\ Once(wal)
  BY <1>3 DEF WalEvents, Once
<1>7. OnTheWire = {}
  BY <1>3 DEF OnTheWire
<1>8. Conservation
  BY <1>3, <1>5, <1>6, <1>7 DEF Conservation
<1>9. Written
  BY <1>3 DEF Written, Threads
<1> QED
  BY <1>1, <1>2, <1>8, <1>9 DEF Blank, CustodyInv

\* So does CustodyInv in every step.
LEMMA CustodyStep == CustodyInv /\ [Next]_vars => CustodyInv'
  BY TypeStep, JobsStep, OneDeliveryStep, WriteAheadStep, NothingStrandedStep,
     ConservationStep, WrittenStep DEF CustodyInv, IInv

\* A fork leads to a blank manager.
LEMMA ForkStep == CustodyInv /\ Forks => Blank'
  BY ChildIsBlank DEF CustodyInv, IInv

\* Every state the manager reaches satisfies it, whether its process forks or not.
LEMMA CustodyInvariant == SpecFork => []CustodyInv
<1>1. Init => CustodyInv
  BY BeginsBlank, BlankCustody
<1>2. CustodyInv /\ [Next]_vars => CustodyInv'
  BY CustodyStep
<1>3. CustodyInv /\ Forks => CustodyInv'
  <2>1. Blank' => CustodyInv'
    BY BlankCustody, PTL
  <2> QED
    BY <2>1, ForkStep
<1>4. CustodyInv /\ [Next \/ \E c \in Callers : Fork(c)]_vars => CustodyInv'
  BY <1>2, <1>3 DEF Forks
<1> QED
  BY <1>1, <1>4, PTL DEF SpecFork

\* A process that does not fork is one that may.
LEMMA MayFork == Spec => SpecFork
<1>1. [Next]_vars => [Next \/ \E c \in Callers : Fork(c)]_vars
  OBVIOUS
<1> QED
  BY <1>1, PTL DEF Spec, SpecFork

\* Whatever fails, and however threads interleave, an event that add() accepted is
\* in exactly one place until it is answered for: the queue, the unresolved part of
\* one thread's batch, the hands of one shutdown, or one record of the log, which
\* memory shares only for the batch being posted (batch.py:17, 141-154, 316, 350-444).
THEOREM EventsConserved == SpecFork => []Conservation
<1>1. CustodyInv => Conservation
  BY DEF CustodyInv
<1> QED
  BY <1>1, CustodyInvariant, PTL

\* What BatchManagerProofs shows of one process holds of a child as well: its
\* types, one delivery at a time, and nothing stranded by a shutdown, although jobs and
\* calls were copied in the middle of what the parent was doing (batch.py:243-256).
\* Of the log, that the parent's is written ahead of the wire, and that the child, which
\* keeps none, writes to none (persistence.py:165-183).
THEOREM ForksKeepInvariants ==
  SpecFork => [](TypeOK /\ OneDelivery /\ WriteAhead /\ NothingStranded)
<1>1. CustodyInv => TypeOK /\ OneDelivery /\ WriteAhead /\ NothingStranded
  BY DEF CustodyInv, IInv
<1> QED
  BY <1>1, CustodyInvariant, PTL

-----------------------------------------------------------------------------
(* BatchManager keeps the promise of EventLedger.                          *)

\* The ledger counts as the manager does.
LEMMA SameCount == \A E : Ledger!Cardinality(E) = Cardinality(E)
  BY Zenon DEF Ledger!Cardinality, Cardinality

\* The custody of an event, by what has become of it.
CustodyOf(f) ==
  CASE f = "new" -> "outside"
    [] f = "held" -> "memory"
    [] f = "stored" -> "log"
    [] f = "parent" -> "parent"
    [] f \in {"refused", "delivered", "lost", "replayed", "rejected"} -> "settled"

CustodyByFate == \A e \in Event : Custody(e) = CustodyOf(fate[e])

\* It is where EventLedger sees it.
LEMMA CustodyIs == CustodyInv => CustodyByFate
<1>1. SUFFICES ASSUME CustodyInv, NEW e \in Event PROVE Custody(e) = CustodyOf(fate[e])
  BY DEF CustodyByFate
<1>2. /\ e > submitted <=> fate[e] = "new"
      /\ e \in EventsIn(Holding) <=> fate[e] = "held"
      /\ e \in EventsIn(wal) /\ e \notin EventsIn(Holding) <=> fate[e] = "stored"
      /\ fate[e] \in Fates
  BY <1>1, CustodyFacts
<1>3. EventsIn(wal) = WalEvents /\ EventsIn(Holding) = HeldEvents
  BY DEF EventsIn, WalEvents, HeldEvents
<1> QED
  BY <1>2, <1>3 DEF Custody, CustodyOf, Fates

\* The same after a step.
LEMMA CustodyIsNext == CustodyInv' => CustodyByFate'
  BY CustodyIs, PTL

\* Events that share a custody and get a fate are moved by the ledger.
LEMMA LedgerMoves ==
  ASSUME CustodyInv, CustodyInv', NEW E \in SUBSET Event, E # {}, NEW f \in Fates,
         fate' = SetFate(E, f), NEW from, \A e \in E : CustodyOf(fate[e]) = from
  PROVE  Ledger!Moves(E, from, CustodyOf(f))
<1>1. \A e \in Event : Custody(e) = CustodyOf(fate[e]) /\ Custody(e)' = CustodyOf(fate'[e])
  BY CustodyIs, CustodyIsNext DEF CustodyByFate, CustodyOf
<1>2. \A e \in Event : fate'[e] = IF e \in E THEN f ELSE fate[e]
  BY DEF SetFate
<1>3. \A e \in Event : Custody(e)' = IF e \in E THEN CustodyOf(f) ELSE Custody(e)
  BY <1>1, <1>2
<1> HIDE DEF CustodyOf, Custody
<1> QED
  BY <1>1, <1>3 DEF Ledger!Moves

\* The ledger sees no more than the fates and the totals.
LEMMA LedgerStays ==
  ASSUME CustodyInv, CustodyInv', UNCHANGED <<fate, Counted>>
  PROVE  UNCHANGED Ledger!ledgerVars
<1>1. \A e \in Event : Custody(e)' = Custody(e)
  BY CustodyIs, CustodyIsNext DEF CustodyByFate, CustodyOf
<1> HIDE DEF Custody
<1> QED
  BY <1>1 DEF Ledger!ledgerVars, Counted

\* The first events of a holder move in the ledger as they do in the manager.
LEMMA LedgerLeave ==
  ASSUME CustodyInv, CustodyInv', NEW g, NEW n, NEW f \in {"delivered", "lost", "stored"},
         Leave(g, n, f), n > 0
  PROVE  \E E \in SUBSET Event :
           Ledger!Moves(E, "memory", CustodyOf(f)) /\ Cardinality(E) = n
<1> DEFINE E == ToSet(First(g, n))
<1>1. f \in Fates \ {"new", "held"} /\ f \in Fates
  BY DEF Fates
<1>2. /\ E \subseteq EventsIn(Holding) /\ IsFiniteSet(E) /\ Cardinality(E) = n
  BY <1>1, LeaveFacts
<1>3. E \in SUBSET Event /\ \A e \in E : CustodyOf(fate[e]) = "memory"
  BY <1>2, CustodyFacts DEF CustodyOf
<1>4. E # {}
  BY <1>2, FS_EmptySet
<1>5. fate' = SetFate(E, f)
  BY DEF Leave
<1> HIDE DEF E
<1>6. Ledger!Moves(E, "memory", CustodyOf(f))
  BY <1>1, <1>3, <1>4, <1>5, LedgerMoves
<1> QED
  BY <1>2, <1>3, <1>6

\* Every way of moving events is an action of the ledger, or none.
LEMMA LedgerStep ==
  ASSUME CustodyInv, CustodyInv', Moved
  PROVE  [Ledger!Next]_(Ledger!ledgerVars)
<1> DEFINE Seen == [Ledger!Next]_(Ledger!ledgerVars)
<1>1. CASE Idles \/ Passes \/ Splits \/ Posts
  BY <1>1, LedgerStays DEF Idles, Passes, Splits, Posts
<1>2. CASE Refuses \/ Accepts
  <2>1. fate[submitted'] = "new" /\ submitted' \in Event
    BY <1>2, ComingConserves
  <2>2. PICK e \in Event : e = submitted'
    BY <2>1
  <2>3. {e} \in SUBSET Event /\ {e} # {} /\ \A x \in {e} : CustodyOf(fate[x]) = "outside"
    BY <2>1, <2>2 DEF CustodyOf
  <2>4. CASE Refuses
    <3>1. PICK f \in {"refused", "lost"} : fate' = SetFate({e}, f)
      BY <2>2, <2>4 DEF Refuses
    <3>2. f \in Fates /\ CustodyOf(f) = "settled"
      BY DEF Fates, CustodyOf
    <3>3. Ledger!Moves({e}, "outside", "settled")
      BY <2>3, <3>1, <3>2, LedgerMoves
    <3>4. Ledger!Refuse(e)
      BY <2>4, <3>3 DEF Ledger!Refuse, Ledger!Refused, Refuses, Counted
    <3> QED
      BY <3>4 DEF Ledger!Next
  <2>5. CASE Accepts
    <3>1. fate' = SetFate({e}, "held")
      BY <2>2, <2>5 DEF Accepts
    <3>2. "held" \in Fates /\ CustodyOf("held") = "memory"
      BY DEF Fates, CustodyOf
    <3>3. Ledger!Moves({e}, "outside", "memory")
      BY <2>3, <3>1, <3>2, LedgerMoves
    <3>4. Ledger!Accept(e)
      BY <2>5, <3>3 DEF Ledger!Accept, Ledger!Accepted, Accepts, Counted
    <3> QED
      BY <3>4 DEF Ledger!Next
  <2> QED
    BY <1>2, <2>4, <2>5
<1>3. CASE Replays
  <2> DEFINE E == ToSet(wal[1])
  <2>1. \A e \in E : e \in Event /\ fate[e] = "stored"
    BY <1>3, ReplayConserves
  <2>2. PICK f \in {"replayed", "rejected"} : fate' = SetFate(E, f)
    BY <1>3 DEF Replays
  <2>3. UNCHANGED Counted
    BY <1>3 DEF Replays
  <2> HIDE DEF E
  <2>4. CASE E = {}
    <3>1. fate' = fate
      BY <2>2, <2>4, CustodyFacts DEF SetFate
    <3> QED
      BY <2>3, <3>1, LedgerStays
  <2>5. CASE E # {}
    <3>1. f \in Fates /\ CustodyOf(f) = "settled" /\ CustodyOf("stored") = "log"
      BY DEF Fates, CustodyOf
    <3>2. E \in SUBSET Event /\ \A e \in E : CustodyOf(fate[e]) = "log"
      BY <2>1, <3>1
    <3>3. Ledger!Moves(E, "log", "settled")
      BY <2>2, <2>5, <3>1, <3>2, LedgerMoves
    <3>4. Ledger!Replay(E)
      BY <2>3, <3>3 DEF Ledger!Replay, Ledger!Replayed, Counted
    <3> QED
      BY <3>2, <3>4 DEF Ledger!Next
  <2> QED
    BY <2>4, <2>5
<1>4. ASSUME NEW g \in Holders, NEW n \in 1 .. Len(Holding[g]), Settles(g, n)
      PROVE  Seen
  <2>1. PICK f \in {"delivered", "lost"} : Leave(g, n, f)
    BY <1>4 DEF Settles
  <2>2. n > 0 /\ Counted' = Counted + n
    BY <1>4 DEF Settles
  <2>3. PICK E \in SUBSET Event :
          Ledger!Moves(E, "memory", CustodyOf(f)) /\ Cardinality(E) = n
    BY <2>1, <2>2, LedgerLeave
  <2>4. Ledger!Settle(E)
    <3>1. CustodyOf(f) = "settled"
      BY DEF CustodyOf
    <3>2. delivered' + lost' = delivered + lost + Cardinality(E)
      BY <2>2, <2>3 DEF Counted
    <3> QED
      BY <2>3, <3>1, <3>2, SameCount DEF Ledger!Settle, Ledger!Settled
  <2> QED
    BY <2>4 DEF Ledger!Next
<1>5. ASSUME NEW g, NEW n, n > 0, Leave(g, n, "stored"), UNCHANGED Counted
      PROVE  Seen
  <2>1. PICK E \in SUBSET Event :
          Ledger!Moves(E, "memory", CustodyOf("stored")) /\ Cardinality(E) = n
    BY <1>5, LedgerLeave
  <2>2. Ledger!Retain(E)
    BY <1>5, <2>1 DEF Ledger!Retain, Ledger!Retained, Counted, CustodyOf
  <2> QED
    BY <2>2 DEF Ledger!Next
<1>6. ASSUME NEW c \in Callers, Recounts(c)
      PROVE  Seen
  <2> DEFINE n == Len(Unwritten(c))
             x == Head(taken[c])
  <2>1. /\ pc[c] = "confirm" /\ \A i \in DOMAIN wal : wal[i] # <<x>>
        /\ Leave(InHands(c), n, "lost") /\ Counted' = Counted + n + 1
    BY <1>6 DEF Recounts
  <2>2. x \in Event
    <3>1. taken[c] \in Seq(Event) /\ taken[c] # <<>>
      BY <2>1 DEF CustodyInv, IInv, TypeOK, NothingStranded
    <3> QED
      BY <3>1
  <2>3. n \in Nat
    <3>1. Unwritten(c) \in Seq(Event)
      BY HoldingTypes DEF CustodyInv
    <3> QED
      BY <3>1
  <2>4. Custody(x) = "settled"
    <3>1. /\ fate[x] \notin {"new", "held", "parent"}
          /\ \A i \in DOMAIN wal : x \in ToSet(wal[i]) => wal[i] = <<x>>
      BY <2>1 DEF CustodyInv, Written
    <3>2. x \notin EventsIn(wal)
      BY <2>1, <3>1 DEF EventsIn
    <3>3. fate[x] # "stored" /\ fate[x] \in Fates
      BY <2>2, <3>2, CustodyFacts
    <3> QED
      BY <2>2, <3>1, <3>3, CustodyIs DEF CustodyByFate, CustodyOf, Fates
  <2> HIDE DEF n, x
  <2>5. \E e \in Event : [y \in Event |-> Custody(y)][e] = "settled"
    BY <2>2, <2>4
  <2>6. CASE n = 0
    <3>1. First(InHands(c), 0) = <<>>
      BY DEF First
    <3>2. fate' = SetFate({}, "lost")
      <4>1. ToSet(<<>>) = {}
        BY DEF ToSet
      <4> QED
        BY <2>1, <2>6, <3>1, <4>1 DEF Leave
    <3>3. fate' = fate
      BY <3>2, CustodyFacts DEF SetFate
    <3>4. \A e \in Event : Custody(e)' = Custody(e)
      BY <3>3, CustodyIs, CustodyIsNext DEF CustodyByFate, CustodyOf
    <3>5. delivered' + lost' = delivered + lost + Cardinality({}) + 1
      <4>1. delivered + lost \in Int
        BY DEF CustodyInv, IInv, TypeOK
      <4> QED
        BY <2>1, <2>6, <4>1, FS_EmptySet DEF Counted
    <3>6. Ledger!Recount({})
      <4>1. [e \in Event |-> Custody(e)]' = [e \in Event |-> Custody(e)]
        BY <3>4
      <4>2. PICK w : w = [e \in Event |-> Custody(e)]
        OBVIOUS
      <4> HIDE DEF Custody
      <4> QED
        BY <2>5, <3>5, <4>1, <4>2, SameCount, Zenon DEF Ledger!Recount, Ledger!Settled
    <3> QED
      BY <3>6 DEF Ledger!Next
  <2>7. CASE n # 0
    <3>1. PICK E \in SUBSET Event :
            Ledger!Moves(E, "memory", CustodyOf("lost")) /\ Cardinality(E) = n
      BY <2>1, <2>3, <2>7, LedgerLeave
    <3>2. Ledger!Recount(E)
      <4>1. CustodyOf("lost") = "settled"
        BY DEF CustodyOf
      <4>2. delivered' + lost' = delivered + lost + Cardinality(E) + 1
        BY <2>1, <3>1 DEF Counted
      <4> QED
        BY <2>5, <3>1, <4>1, <4>2, SameCount, Zenon DEF Ledger!Recount, Ledger!Settled
    <3> QED
      BY <3>2 DEF Ledger!Next
  <2> QED
    BY <2>6, <2>7
<1>7. CASE \E g \in Holders : \E n \in 1 .. Len(Holding[g]) : Settles(g, n) \/ Retains(g, n)
  BY <1>4, <1>5, <1>7 DEF Retains
<1>8. CASE \E c \in Callers : Persists(c) \/ Recounts(c)
  BY <1>5, <1>6, <1>8 DEF Persists
<1> QED
  BY <1>1, <1>2, <1>3, <1>7, <1>8 DEF Moved

\* A fork is the ledger's: the child owes nothing of what its parent owed.
LEMMA LedgerFork == CustodyInv /\ CustodyInv' /\ Forks => Ledger!Fork
<1>1. SUFFICES ASSUME CustodyInv, CustodyInv', Forks PROVE Ledger!Fork
  OBVIOUS
<1>2. /\ \A e \in Event : fate'[e] = IF fate[e] \in {"held", "stored"} THEN "parent" ELSE fate[e]
      /\ UNCHANGED <<delivered, lost>>
  BY <1>1 DEF Forks, Fork, Parents, counters
<1>3. \A e \in Event : Custody(e) = CustodyOf(fate[e]) /\ Custody(e)' = CustodyOf(fate'[e])
  BY <1>1, CustodyIs, CustodyIsNext DEF CustodyByFate, CustodyOf
<1>4. \A e \in Event : fate[e] \in Fates
  BY <1>1, CustodyFacts
<1>5. \A e \in Event :
        Custody(e)' = IF Custody(e) \in {"memory", "log"} THEN "parent" ELSE Custody(e)
  BY <1>2, <1>3, <1>4 DEF CustodyOf, Fates
<1> HIDE DEF Custody
<1> QED
  BY <1>2, <1>5 DEF Ledger!Fork, Ledger!Parted

\* BatchManager implements EventLedger, in the child of a fork as in its parent: an
\* accepted event is in one custody until it is settled once and for all, goes from
\* memory to the log but never back, and the public totals grow by exactly what is
\* settled out of memory, but for the one event that ShutdownConfirms counts again
\* (batch.py:118-129, 243-256, 405-410).
THEOREM ManagerKeepsLedger == SpecFork => KeepsLedger
<1>1. Init => Ledger!Init
  <2>1. SUFFICES ASSUME Init PROVE Ledger!Init
    OBVIOUS
  <2>2. CustodyInv /\ fate = [e \in Event |-> "new"] /\ delivered + lost = 0
    BY <2>1, BeginsBlank, BlankCustody DEF Init
  <2>3. \A e \in Event : Custody(e) = "outside"
    BY <2>2, CustodyIs DEF CustodyByFate, CustodyOf
  <2> HIDE DEF Custody
  <2> QED
    BY <2>2, <2>3 DEF Ledger!Init, Ledger!CustodyInit
<1>2. CustodyInv /\ CustodyInv' /\ [Next]_vars => [Ledger!Next]_(Ledger!ledgerVars)
  BY EveryStepMoves, LedgerStep
<1>3. CustodyInv /\ CustodyInv' /\ [Next \/ \E c \in Callers : Fork(c)]_vars
        => [Ledger!Next]_(Ledger!ledgerVars)
  BY <1>2, LedgerFork DEF Forks, Ledger!Next
<1> QED
  BY <1>1, <1>3, CustodyInvariant, PTL DEF SpecFork, KeepsLedger, Ledger!Spec

-----------------------------------------------------------------------------
(* inflight counts what is being dispatched.                               *)

\* How a step changes the batches: not at all, or one is popped, or finished.
BatchesStay == inflight' = inflight /\ \A t \in Threads : job'[t].batch = job[t].batch
OthersKeep(t) == \A u \in Threads \ {t} : job'[u].batch = job[u].batch
BatchPopped(t) ==
  /\ job[t].batch = <<>> /\ OthersKeep(t)
  /\ job'[t].batch \in Seq(Event) /\ Len(job'[t].batch) <= FlushSize
  /\ inflight' = inflight + Len(job'[t].batch)
BatchFinished(t) ==
  /\ job'[t].batch = <<>> /\ OthersKeep(t)
  /\ inflight' = inflight - Len(job[t].batch)

\* _pop takes no more than flush_size events, for a thread that has none.
LEMMA PopsBatch ==
  ASSUME IInv, NEW t \in Threads, pc[t] \notin Dispatching, queue # <<>>,
         Pop(t, AtMostFlushSize)
  PROVE  BatchPopped(t)
<1> DEFINE n == AtMostFlushSize
<1>1. TypeOK /\ queue \in Seq(Event) /\ FlushSize \in Nat
  BY ManagerAssumption DEF IInv, TypeOK
<1>2. n \in 1 .. Len(queue) /\ n <= FlushSize
  <2>1. n \in 1 .. Len(queue)
    BY <1>1, PopTypes
  <2>2. n <= FlushSize
    BY <1>1 DEF AtMostFlushSize
  <2> QED
    BY <2>1, <2>2
<1> HIDE DEF n
<1>3. SubSeq(queue, 1, n) \in Seq(Event) /\ Len(SubSeq(queue, 1, n)) = n
  <2>1. n \in 0 .. Len(queue)
    BY <1>2
  <2> QED
    BY <1>1, <2>1, PartsOf
<1>4. /\ job'[t].batch = SubSeq(queue, 1, n) /\ inflight' = inflight + n
      /\ \A u \in Threads \ {t} : job'[u] = job[u]
  BY <1>1 DEF Pop, TypeOK, n
<1>5. job[t].batch = <<>>
  BY DEF IInv, JobsWellFormed, WellFormed
<1> QED
  BY <1>2, <1>3, <1>4, <1>5 DEF BatchPopped, OthersKeep

\* A segment that has its outcome leaves the batch as it is.
LEMMA ResolvedKeepsBatch ==
  ASSUME IInv, NEW t \in Threads, NEW o \in {"ok", "rejected", "transient"},
         job[t].ends # <<>>,
         job' = Resolved(t, o) \/ (job[t].budget > 0 /\ job' = Spent(Resolved(t, o), t))
  PROVE  \A u \in Threads : job'[u].batch = job[u].batch
<1>1. TypeOK /\ JobsWellFormed
  BY DEF IInv
<1>2. Resolved(t, o) \in [Threads -> Jobs]
  BY <1>1, ResolvedTypes
<1>3. \A u \in Threads : Resolved(t, o)[u].batch = job[u].batch
  BY <1>1 DEF Resolved, TypeOK, Jobs
<1>4. \A u \in Threads : job'[u].batch = Resolved(t, o)[u].batch
  BY <1>1, <1>2, SpentTypes
<1> QED
  BY <1>3, <1>4

\* There are no other steps.
LEMMA BatchSteps ==
  ASSUME IInv, [Next]_vars
  PROVE  BatchesStay \/ \E t \in Threads : BatchPopped(t) \/ BatchFinished(t)
<1> USE DEF flags, counters, log, memory, history, control
<1>0. TypeOK /\ JobsWellFormed /\ Worker \in Threads /\ Callers \subseteq Threads
  BY DEF IInv, Threads
<1>1. CASE UNCHANGED <<job, inflight>>
  BY <1>1 DEF BatchesStay
<1>2. ASSUME NEW c \in Callers, FlushTakes(c) PROVE BatchPopped(c)
  BY <1>0, <1>2, PopsBatch DEF FlushTakes, Dispatching
<1>3. ASSUME WorkerTakes PROVE BatchPopped(Worker)
  BY <1>0, <1>3, PopsBatch DEF WorkerTakes, Dispatching
<1>4. ASSUME NEW t \in Threads, Finish(t) PROVE BatchFinished(t)
  <2>1. /\ job' = [job EXCEPT ![t] = NoJob] /\ inflight' = inflight - Len(job[t].batch)
    BY <1>4 DEF Finish
  <2> QED
    BY <1>0, <2>1 DEF BatchFinished, OthersKeep, NoJob, TypeOK
<1>5. ASSUME NEW t \in Threads, SendStarts(t) PROVE BatchesStay
  <2>1. job' = Spent(job, t) /\ job[t].budget > 0 /\ inflight' = inflight
    BY <1>5 DEF SendStarts, BudgetLeft
  <2>2. job'[t].batch = job[t].batch /\ \A u \in Threads \ {t} : job'[u] = job[u]
    BY <1>0, <2>1, SpentTypes DEF TypeOK
  <2> QED
    BY <2>1, <2>2 DEF BatchesStay
<1>6. ASSUME NEW t \in Threads, BatchRejected(t) PROVE BatchesStay
  <2> DEFINE e == <<job[t].done + SegmentLen(t) \div 2>> \o job[t].ends
  <2>1. job' = [job EXCEPT ![t] = [job[t] EXCEPT !.ends = e]] /\ inflight' = inflight
    BY <1>6 DEF BatchRejected
  <2> HIDE DEF e
  <2> QED
    BY <1>0, <2>1 DEF BatchesStay, TypeOK, Jobs
<1>7. ASSUME NEW t \in Threads,
             \/ SplitLimitReached(t) \/ SendRefused(t) \/ Accepted(t) \/ Rejected(t)
             \/ Failed(t)
      PROVE  BatchesStay
  <2>1. /\ pc[t] \in {"deliver", "post"} /\ inflight' = inflight
        /\ \E o \in {"ok", "rejected", "transient"} :
             job' = Resolved(t, o) \/ (job[t].budget > 0 /\ job' = Spent(Resolved(t, o), t))
    BY <1>7
    DEF SplitLimitReached, SendRefused, Accepted, Rejected, Failed, DropSegment, BudgetLeft
  <2>2. job[t].ends # <<>>
    BY <1>0, <2>1 DEF JobsWellFormed, WellFormed
  <2> QED
    BY <2>1, <2>2, ResolvedKeepsBatch DEF BatchesStay
<1>8. ASSUME NEW t \in Threads, ReplayFails(t) PROVE BatchesStay
  <2>1. /\ pc[t] \in {"recover", "replay"} /\ inflight' = inflight
        /\ job' = job \/ (job' = Resolved(t, "transient") /\ job[t].batch # <<>>)
    BY <1>8 DEF ReplayFails, RecoverFails
  <2>2. CASE job' = job
    BY <2>1, <2>2 DEF BatchesStay
  <2>3. CASE job' = Resolved(t, "transient") /\ job[t].batch # <<>>
    <3>1. job[t].done = 0 /\ Len(job[t].batch) # 0
      BY <1>0, <2>1, <2>3 DEF JobsWellFormed, WellFormed, TypeOK, Jobs
    <3>2. job[t].ends # <<>>
      BY <1>0, <3>1 DEF JobsWellFormed, WellFormed
    <3> QED
      BY <2>1, <2>3, <3>2, ResolvedKeepsBatch DEF BatchesStay
  <2> QED
    BY <2>1, <2>2, <2>3
<1>9. ASSUME NEW c \in Callers,
             \/ Add(c) \/ FlushCalled(c) \/ ShutdownBegins(c) \/ EnsureWorker(c)
             \/ FlushStarts(c) \/ FlushDone(c) \/ InflightDrained(c) \/ WaitTimesOut(c)
             \/ InflightWaits(c) \/ ShutdownStep(c) \/ DeadlinePasses(c)
      PROVE  UNCHANGED <<job, inflight>>
  BY <1>9
  DEF Add, AddRefused, AddOverflows, AddAccepted, FlushCalled, ShutdownBegins, EnsureWorker,
      FlushStarts, FlushDone, InflightDrained, WaitTimesOut, InflightWaits, ShutdownStep,
      ShutdownJoins, ShutdownMarksFinite, ShutdownUnqueues, ShutdownLosesRest,
      ShutdownPersists, ShutdownConfirms, DeadlinePasses
<1>10. ASSUME NEW t \in Threads, ReplayStarts(t) \/ ReplayAnswered(t) \/ ReplayDone(t)
       PROVE  UNCHANGED <<job, inflight>>
  BY <1>10 DEF ReplayStarts, ReplayAnswered, ReplayDone, RecoverSucceeds
<1>11. ASSUME \/ WorkerSkipsTick \/ WorkerWaits \/ WorkerStops \/ WorkerBacksOff
              \/ WorkerExits \/ Tick \/ UNCHANGED vars
       PROVE  UNCHANGED <<job, inflight>>
  BY <1>11
  DEF WorkerSkipsTick, WorkerWaits, WorkerStops, WorkerBacksOff, WorkerExits, Tick, vars
<1>12. CASE \E c \in Callers : \/ Add(c) \/ FlushCalled(c) \/ ShutdownBegins(c)
                               \/ EnsureWorker(c) \/ FlushStep(c) \/ ShutdownStep(c)
                               \/ DeadlinePasses(c)
  BY <1>0, <1>1, <1>2, <1>9, <1>12 DEF FlushStep
<1>13. CASE \E t \in Threads : Replay(t) \/ Deliver(t)
  BY <1>1, <1>4, <1>5, <1>6, <1>7, <1>8, <1>10, <1>13 DEF Replay, Deliver
<1>14. CASE WorkerStep \/ Tick \/ UNCHANGED vars
  BY <1>0, <1>1, <1>3, <1>11, <1>14 DEF WorkerStep
<1> QED
  BY <1>12, <1>13, <1>14 DEF Next

\* No batch is larger than flush_size.
BatchesBounded == \A t \in Threads : Len(job[t].batch) <= FlushSize

\* The places of the batches being dispatched.
InDispatch == UNION {{t} \X DOMAIN job[t].batch : t \in Threads}

\* Threads are few, and each has a bounded batch.
LEMMA DispatchFinite ==
  ASSUME IInv, BatchesBounded
  PROVE  IsFiniteSet(InDispatch)
<1>1. IsFiniteSet(Threads)
  BY ManagerAssumption, FS_AddElement DEF Threads
<1>2. FlushSize \in Int /\ 1 \in Int
  BY ManagerAssumption
<1>3. IsFiniteSet(1 .. FlushSize)
  BY <1>2, FS_Interval
<1>4. IsFiniteSet(Threads \X (1 .. FlushSize))
  BY <1>1, <1>3, FS_Product
<1>5. \A t \in Threads : DOMAIN job[t].batch \subseteq 1 .. FlushSize
  <2>1. ASSUME NEW t \in Threads PROVE DOMAIN job[t].batch \subseteq 1 .. FlushSize
    <3>1. job[t].batch \in Seq(Event) /\ Len(job[t].batch) <= FlushSize
      BY DEF IInv, TypeOK, Jobs, BatchesBounded
    <3> QED
      BY <1>2, <3>1
  <2> QED
    BY <2>1
<1>6. InDispatch \in SUBSET (Threads \X (1 .. FlushSize))
  BY <1>5 DEF InDispatch
<1> QED
  BY <1>4, <1>6, FS_Subset

\* A thread's share of them.
LEMMA ShareCounts ==
  ASSUME IInv, NEW t, NEW b \in Seq(Event)
  PROVE  IsFiniteSet({t} \X DOMAIN b) /\ Cardinality({t} \X DOMAIN b) = Len(b)
<1>1. IsFiniteSet({t}) /\ Cardinality({t}) = 1
  BY FS_Singleton
<1>2. Len(b) \in Nat /\ DOMAIN b = 1 .. Len(b) /\ 1 \in Int /\ Len(b) \in Int
  OBVIOUS
<1>3. IsFiniteSet(1 .. Len(b))
      /\ Cardinality(1 .. Len(b)) = IF 1 > Len(b) THEN 0 ELSE Len(b) - 1 + 1
  BY <1>2, FS_Interval
<1>4. Cardinality(1 .. Len(b)) = Len(b)
  BY <1>2, <1>3
<1>5. IsFiniteSet({t} \X (1 .. Len(b)))
      /\ Cardinality({t} \X (1 .. Len(b))) = Cardinality({t}) * Cardinality(1 .. Len(b))
  BY <1>1, <1>3, FS_Product
<1> QED
  BY <1>1, <1>2, <1>4, <1>5

\* One more batch.
LEMMA SharesAdd ==
  ASSUME NEW T, NEW D, NEW E, NEW t \in T,
         \A u \in T \ {t} : E[u] = D[u], D[t] = {}
  PROVE  /\ UNION {{u} \X E[u] : u \in T} = (UNION {{u} \X D[u] : u \in T}) \cup ({t} \X E[t])
         /\ (UNION {{u} \X D[u] : u \in T}) \cap ({t} \X E[t]) = {}
<1> DEFINE A == UNION {{u} \X E[u] : u \in T}
           B == UNION {{u} \X D[u] : u \in T}
           C == {t} \X E[t]
<1>1. \A p : p \in A <=> \E u \in T : \E i \in E[u] : p = <<u, i>>
  OBVIOUS
<1>2. \A p : p \in B <=> \E u \in T : \E i \in D[u] : p = <<u, i>>
  OBVIOUS
<1>3. \A p : p \in C <=> \E i \in E[t] : p = <<t, i>>
  OBVIOUS
<1> HIDE DEF A, B, C
<1>4. ASSUME NEW p \in A PROVE p \in B \cup C
  BY <1>1, <1>2, <1>3
<1>5. ASSUME NEW p \in B \cup C PROVE p \in A
  <2>1. CASE p \in B
    <3>1. PICK u \in T : \E i \in D[u] : p = <<u, i>>
      BY <1>2, <2>1
    <3> QED
      BY <1>1, <3>1
  <2> QED
    BY <1>1, <1>3, <1>5, <2>1
<1>6. ASSUME NEW p \in B \cap C PROVE FALSE
  BY <1>2, <1>3
<1>7. A = B \cup C
  BY <1>4, <1>5
<1>8. B \cap C = {}
  BY <1>6
<1> QED
  BY <1>7, <1>8 DEF A, B, C

\* inflight follows.
InflightInv == IInv /\ BatchesBounded /\ InflightExact

LEMMA InflightStep == InflightInv /\ [Next]_vars => BatchesBounded' /\ InflightExact'
<1>1. SUFFICES ASSUME InflightInv, [Next]_vars PROVE BatchesBounded' /\ InflightExact'
  OBVIOUS
<1>2. IInv /\ IInv' /\ BatchesBounded /\ inflight = Cardinality(InDispatch) /\ inflight \in Int
  <2>1. IInv /\ BatchesBounded /\ inflight = Cardinality(InDispatch)
    BY <1>1 DEF InflightInv, InflightExact, InDispatch
  <2>2. IInv'
    BY <1>1, <2>1, TypeStep, JobsStep, OneDeliveryStep, WriteAheadStep, NothingStrandedStep
    DEF IInv
  <2> QED
    BY <2>1, <2>2 DEF IInv, TypeOK
<1>3. IsFiniteSet(InDispatch)
  BY <1>2, DispatchFinite
<1> DEFINE D == [t \in Threads |-> DOMAIN job[t].batch]
           E == [t \in Threads |-> DOMAIN job'[t].batch]
<1>4. /\ InDispatch = UNION {{u} \X D[u] : u \in Threads}
      /\ InDispatch' = UNION {{u} \X E[u] : u \in Threads}
  BY DEF InDispatch
<1>5. /\ \A t \in Threads : D[t] = DOMAIN job[t].batch /\ E[t] = DOMAIN job'[t].batch
      /\ D = [t \in Threads |-> D[t]] /\ E = [t \in Threads |-> E[t]]
  OBVIOUS
<1>6. \A t \in Threads : job[t].batch \in Seq(Event) /\ job'[t].batch \in Seq(Event)
  BY <1>2 DEF IInv, TypeOK, Jobs
<1>7. DOMAIN <<>> = {} /\ Len(<<>>) = 0 /\ FlushSize \in Nat
  BY ManagerAssumption
<1> HIDE DEF D, E
<1>8. CASE BatchesStay
  <2>1. D = E
    BY <1>5, <1>8 DEF BatchesStay
  <2> QED
    BY <1>2, <1>4, <1>8, <2>1 DEF BatchesStay, BatchesBounded, InflightExact, InDispatch
<1>9. ASSUME NEW t \in Threads, BatchPopped(t) PROVE BatchesBounded' /\ InflightExact'
  <2>1. /\ \A u \in Threads \ {t} : E[u] = D[u] /\ job'[u].batch = job[u].batch
        /\ D[t] = {} /\ E[t] = DOMAIN job'[t].batch
    BY <1>5, <1>7, <1>9 DEF BatchPopped, OthersKeep
  <2>2. InDispatch' = InDispatch \cup ({t} \X E[t]) /\ InDispatch \cap ({t} \X E[t]) = {}
    BY <1>4, <2>1, SharesAdd
  <2>3. /\ IsFiniteSet({t} \X E[t])
        /\ Cardinality({t} \X E[t]) = Len(job'[t].batch)
    BY <1>2, <1>6, <2>1, ShareCounts
  <2>4. /\ Cardinality(InDispatch \cup ({t} \X E[t]))
             = Cardinality(InDispatch) + Cardinality({t} \X E[t])
                 - Cardinality(InDispatch \cap ({t} \X E[t]))
    BY <1>3, <2>3, FS_Union
  <2>5. inflight' = Cardinality(InDispatch')
    <3>1. Len(job'[t].batch) \in Int /\ inflight' = inflight + Len(job'[t].batch)
      BY <1>6, <1>9 DEF BatchPopped
    <3>2. Cardinality(InDispatch') = inflight + Len(job'[t].batch) - 0
      BY <1>2, <2>2, <2>3, <2>4, FS_EmptySet
    <3> QED
      BY <1>2, <3>1, <3>2
  <2>6. BatchesBounded'
    BY <1>2, <1>9, <2>1 DEF BatchPopped, BatchesBounded
  <2> QED
    BY <2>5, <2>6 DEF InflightExact, InDispatch
<1>10. ASSUME NEW t \in Threads, BatchFinished(t) PROVE BatchesBounded' /\ InflightExact'
  <2>1. /\ \A u \in Threads \ {t} : D[u] = E[u] /\ job'[u].batch = job[u].batch
        /\ E[t] = {} /\ D[t] = DOMAIN job[t].batch /\ Len(job'[t].batch) = 0
    BY <1>5, <1>7, <1>10 DEF BatchFinished, OthersKeep
  <2>2. BatchesBounded'
    BY <1>2, <1>7, <2>1 DEF BatchesBounded
  <2>3. InDispatch = InDispatch' \cup ({t} \X D[t]) /\ InDispatch' \cap ({t} \X D[t]) = {}
    BY <1>4, <2>1, SharesAdd
  <2>4. /\ IsFiniteSet({t} \X D[t])
        /\ Cardinality({t} \X D[t]) = Len(job[t].batch)
    BY <1>2, <1>6, <2>1, ShareCounts
  <2>5. IsFiniteSet(InDispatch')
    <3>1. InDispatch' \in SUBSET InDispatch
      BY <2>3
    <3> QED
      BY <1>3, <3>1, FS_Subset
  <2>6. /\ Cardinality(InDispatch' \cup ({t} \X D[t]))
             = Cardinality(InDispatch') + Cardinality({t} \X D[t])
                 - Cardinality(InDispatch' \cap ({t} \X D[t]))
    BY <2>4, <2>5, FS_Union
  <2>7. inflight' = Cardinality(InDispatch')
    <3>1. Len(job[t].batch) \in Int /\ inflight' = inflight - Len(job[t].batch)
      BY <1>6, <1>10 DEF BatchFinished
    <3>2. Cardinality(InDispatch') \in Int
      BY <2>5, FS_CardinalityType
    <3>3. inflight = Cardinality(InDispatch') + Len(job[t].batch) - 0
      BY <1>2, <2>3, <2>4, <2>6, FS_EmptySet
    <3> QED
      BY <1>2, <3>1, <3>2, <3>3
  <2> QED
    BY <2>2, <2>7 DEF InflightExact, InDispatch
<1> QED
  BY <1>1, <1>2, <1>8, <1>9, <1>10, BatchSteps

LEMMA BlankInflight == Blank => InflightInv
<1>1. SUFFICES ASSUME Blank PROVE InflightInv
  OBVIOUS
<1>2. IInv /\ inflight = 0 /\ \A t \in Threads : job[t].batch = <<>>
  BY <1>1, BlankCustody DEF Blank, NoJob, CustodyInv
<1>3. Len(<<>>) = 0 /\ DOMAIN <<>> = {} /\ FlushSize \in Nat
  BY ManagerAssumption
<1>4. BatchesBounded
  BY <1>2, <1>3 DEF BatchesBounded
<1>5. UNION {{t} \X DOMAIN job[t].batch : t \in Threads} = {}
  BY <1>2, <1>3
<1> QED
  BY <1>2, <1>4, <1>5, FS_EmptySet DEF InflightInv, InflightExact

\* Every state the manager reaches satisfies it.
LEMMA InflightInvariant == SpecFork => []InflightInv
<1>1. Init => InflightInv
  BY BeginsBlank, BlankInflight
<1>2. InflightInv /\ [Next]_vars => InflightInv'
  BY InflightStep, TypeStep, JobsStep, OneDeliveryStep, WriteAheadStep, NothingStrandedStep
  DEF InflightInv, IInv
<1>3. Blank' => InflightInv'
  BY BlankInflight, PTL
<1>4. CustodyInv /\ InflightInv /\ [Next \/ \E c \in Callers : Fork(c)]_vars => InflightInv'
  BY <1>2, <1>3, ForkStep DEF Forks
<1> QED
  BY <1>1, <1>4, CustodyInvariant, PTL DEF SpecFork

\* _inflight, which flush() and shutdown() wait on, is exactly the sum of the lengths of
\* the batches that have been popped and not finished.  A batch counts whole until its
\* last part has an outcome, however it is split, fails or is put back
\* (batch.py:316, 365).
THEOREM InflightCounts == SpecFork => []InflightExact
<1>1. InflightInv => InflightExact
  BY DEF InflightInv
<1> QED
  BY <1>1, InflightInvariant, PTL

-----------------------------------------------------------------------------
(* The queue grows only by what was popped.                                *)

\* The events that are queued or being dispatched.
CarriedBy(F) == UNION {ToSet(F[h]) : h \in Carriers}
Carried == CarriedBy(Holding)
Unsent == UNION {ToSet(Unresolved(t)) : t \in Threads}
Room == MaxQueueSize + FlushSize * Cardinality(Callers)

\* Each of them is counted once.
LEMMA CarriedCounts ==
  ASSUME IInv, Once(Holding)
  PROVE  /\ IsFiniteSet(Carried) /\ IsFiniteSet(Unsent)
         /\ Cardinality(Carried) = Len(queue) + Cardinality(Unsent)
<1>0. /\ queue \in Seq(Event) /\ Holding \in [Holders -> Seq(Event)]
      /\ \A t \in Threads : Unresolved(t) \in Seq(Event)
  BY HoldingTypes DEF IInv, TypeOK
<1>1. Carried = ToSet(queue) \cup Unsent
  BY HoldingIs DEF Carried, CarriedBy, Carriers, Unsent
<1>2. ToSet(queue) \cap Unsent = {}
  <2>1. SUFFICES ASSUME NEW i \in DOMAIN queue, NEW t \in Threads,
                        NEW k \in DOMAIN Unresolved(t), queue[i] = Unresolved(t)[k]
                 PROVE  FALSE
    BY DEF Unsent, ToSet
  <2>2. Holding[InQueue] = queue /\ Holding[InBatch(t)] = Unresolved(t)
        /\ InQueue \in DOMAIN Holding /\ InBatch(t) \in DOMAIN Holding /\ InQueue # InBatch(t)
    BY HoldingIs, HoldersAre
  <2> QED
    BY <2>1, <2>2 DEF Once
<1>3. IsFiniteSet(ToSet(queue)) /\ Cardinality(ToSet(queue)) = Len(queue)
  <2>1. PICK s \in Seq(Event) : s = queue
    BY <1>0, Zenon
  <2>2. IsInjective(s)
    <3>1. Holding[InQueue] = s /\ InQueue \in DOMAIN Holding
      BY <2>1, HoldingIs, HoldersAre
    <3> QED
      BY <3>1 DEF Once, IsInjective
  <2>3. Len(s) \in 0 .. Len(s) /\ SubSeq(s, 1, Len(s)) = s
    OBVIOUS
  <2>4. IsFiniteSet(ToSet(SubSeq(s, 1, Len(s)))) /\ Cardinality(ToSet(SubSeq(s, 1, Len(s)))) = Len(s)
    BY <2>2, <2>3, OncePrefix
  <2> QED
    BY <2>1, <2>3, <2>4
<1>4. IsFiniteSet(Unsent)
  <2>1. Unsent \in SUBSET Event
    BY <1>0 DEF Unsent, ToSet
  <2>2. 1 \in Int /\ MaxEvents \in Int
    BY ManagerAssumption
  <2>3. IsFiniteSet(Event)
    BY <2>2, FS_Interval DEF Event
  <2> QED
    BY <2>1, <2>3, FS_Subset
<1>5. /\ IsFiniteSet(ToSet(queue) \cup Unsent)
      /\ Cardinality(ToSet(queue) \cup Unsent)
           = Cardinality(ToSet(queue)) + Cardinality(Unsent) - Cardinality(ToSet(queue) \cap Unsent)
  BY <1>3, <1>4, FS_Union
<1>6. Cardinality(Unsent) \in Nat /\ Cardinality({}) = 0 /\ Len(queue) \in Nat
  BY <1>0, <1>4, FS_CardinalityType, FS_EmptySet
<1>7. Cardinality(Carried) = Len(queue) + Cardinality(Unsent) - 0
  BY <1>1, <1>2, <1>3, <1>5, <1>6
<1> HIDE DEF Carried, Unsent
<1> QED
  BY <1>1, <1>4, <1>5, <1>6, <1>7

\* The invariant.
QueueInv == CustodyInv /\ BatchesBounded /\ QueueBounded

\* It says how many events are queued or being dispatched.
LEMMA RoomFor ==
  CustodyInv => IsFiniteSet(Carried) /\ (QueueBounded <=> Cardinality(Carried) <= Room)
  BY CarriedCounts DEF CustodyInv, Conservation, QueueBounded, Unsent, Room

LEMMA RoomForNext ==
  CustodyInv' => IsFiniteSet(Carried)' /\ (QueueBounded <=> Cardinality(Carried) <= Room)'
  BY RoomFor, PTL

\* No step but add() brings an event to the queue that was not being dispatched.
LEMMA CarriedStays ==
  ASSUME CustodyInv, Moved, ~Accepts
  PROVE  Carried' \subseteq Carried
<1>0. Holding \in [Holders -> Seq(Event)] /\ Carriers \subseteq Holders
  BY CustodyFacts, HoldersAre DEF Carriers
<1>1. Carried' = CarriedBy(Holding')
  BY DEF Carried, CarriedBy, Carriers, InQueue, InBatch
<1>2. CASE UNCHANGED Holding
  BY <1>1, <1>2 DEF Carried
<1>3. ASSUME NEW g, NEW n, NEW f, Leave(g, n, f) PROVE Carried' \subseteq Carried
  <2>1. /\ g \in Holders /\ n \in 0 .. Len(Holding[g])
        /\ Holding' = [Holding EXCEPT ![g] = SubSeq(Holding[g], n + 1, Len(Holding[g]))]
    BY <1>3 DEF Leave, After
  <2>2. ToSet(SubSeq(Holding[g], n + 1, Len(Holding[g]))) \subseteq ToSet(Holding[g])
    <3>1. Holding[g] \in Seq(Event)
      BY <1>0, <2>1
    <3>2. PICK s \in Seq(Event) : s = Holding[g]
      BY <3>1, Zenon
    <3>3. n \in 0 .. Len(s)
      BY <2>1, <3>2
    <3>4. /\ ToSet(SubSeq(s, n + 1, Len(s))) = {s[i] : i \in (n + 1) .. Len(s)}
          /\ ToSet(s) = {s[i] : i \in 1 .. Len(s)}
      BY <3>3, PartsHold
    <3>5. (n + 1) .. Len(s) \subseteq 1 .. Len(s)
      BY <3>3
    <3> QED
      BY <3>2, <3>4, <3>5
  <2>3. \A h \in Holders : ToSet(Holding'[h]) \subseteq ToSet(Holding[h])
    BY <1>0, <2>1, <2>2
  <2> QED
    BY <1>0, <1>1, <2>3 DEF Carried, CarriedBy
<1>4. CASE Passes
  <2>1. PICK g \in Carriers, h \in Holders : g # h /\ \E n \in 0 .. Len(Holding[g]) :
          Holding' = [Holding EXCEPT ![g] = After(g, n), ![h] = First(g, n) \o Holding[h]]
    BY <1>4, PassesAre DEF CustodyInv
  <2>2. PICK n \in 0 .. Len(Holding[g]) :
          Holding' = [Holding EXCEPT ![g] = SubSeq(Holding[g], n + 1, Len(Holding[g])),
                                     ![h] = SubSeq(Holding[g], 1, n) \o Holding[h]]
    BY <2>1 DEF First, After
  <2>3. /\ ToSet(SubSeq(Holding[g], n + 1, Len(Holding[g]))) \subseteq ToSet(Holding[g])
        /\ ToSet(SubSeq(Holding[g], 1, n) \o Holding[h]) \subseteq ToSet(Holding[g]) \cup ToSet(Holding[h])
    <3>1. Holding[g] \in Seq(Event) /\ Holding[h] \in Seq(Event)
      BY <1>0
    <3>2. PICK s \in Seq(Event) : s = Holding[g]
      BY <3>1, Zenon
    <3>3. PICK u \in Seq(Event) : u = Holding[h]
      BY <3>1, Zenon
    <3>4. n \in 0 .. Len(s)
      BY <3>2
    <3>5. /\ ToSet(SubSeq(s, n + 1, Len(s))) = {s[i] : i \in (n + 1) .. Len(s)}
          /\ ToSet(SubSeq(s, 1, n)) = {s[i] : i \in 1 .. n}
          /\ ToSet(s) = {s[i] : i \in 1 .. Len(s)}
      BY <3>4, PartsHold
    <3>6. (n + 1) .. Len(s) \subseteq 1 .. Len(s) /\ 1 .. n \subseteq 1 .. Len(s)
      BY <3>4
    <3>7. SubSeq(s, 1, n) \in Seq(Event)
      BY <3>4, PartsOf
    <3>8. ToSet(SubSeq(s, 1, n) \o u) \subseteq ToSet(SubSeq(s, 1, n)) \cup ToSet(u)
      <4>1. PICK v \in Seq(Event) : v = SubSeq(s, 1, n)
        BY <3>7, Zenon
      <4>2. ToSet(v \o u) \subseteq ToSet(v) \cup ToSet(u)
        BY DEF ToSet
      <4> QED
        BY <4>1, <4>2
    <3>9. /\ ToSet(SubSeq(s, n + 1, Len(s))) \subseteq ToSet(s)
          /\ ToSet(SubSeq(s, 1, n)) \subseteq ToSet(s)
      BY <3>5, <3>6
    <3> QED
      BY <3>2, <3>3, <3>8, <3>9
  <2>4. \A k \in Holders : ToSet(Holding'[k]) \subseteq ToSet(Holding[k]) \cup ToSet(Holding[g])
    BY <1>0, <2>1, <2>2, <2>3
  <2> QED
    BY <1>0, <1>1, <2>1, <2>4 DEF Carried, CarriedBy
<1>5. Idles \/ Refuses \/ Splits \/ Posts \/ Replays => UNCHANGED Holding
  BY DEF Idles, Refuses, Splits, Posts, Replays
<1>6. (\E g \in Holders : \E n \in 1 .. Len(Holding[g]) : Settles(g, n) \/ Retains(g, n))
      \/ (\E c \in Callers : Persists(c) \/ Recounts(c))
      => \E g, n, f : Leave(g, n, f)
  BY DEF Settles, Retains, Persists, Recounts
<1> QED
  BY <1>2, <1>3, <1>4, <1>5, <1>6 DEF Moved

\* What all threads but one have popped.
LEMMA UnsentBounded ==
  ASSUME IInv, BatchesBounded, NEW c \in Callers, job[c].batch = <<>>
  PROVE  IsFiniteSet(Unsent) /\ Cardinality(Unsent) <= FlushSize * Cardinality(Callers)
<1> DEFINE Others == Threads \ {c}
           Slots == Others \X (1 .. FlushSize)
           Used == {p \in Slots : p[2] \in DOMAIN Unresolved(p[1])}
           EventAt == [p \in Used |-> Unresolved(p[1])[p[2]]]
<1>1. /\ \A t \in Threads : /\ Unresolved(t) \in Seq(Event)
                            /\ DOMAIN Unresolved(t) \subseteq 1 .. FlushSize
      /\ DOMAIN Unresolved(c) = {}
  <2>1. ASSUME NEW t \in Threads
        PROVE  /\ Unresolved(t) \in Seq(Event) /\ Len(Unresolved(t)) <= Len(job[t].batch)
               /\ Len(job[t].batch) <= FlushSize /\ Len(job[t].batch) \in Nat
    <3>1. Unresolved(t) \in Seq(Event)
          /\ Len(Unresolved(t)) = Len(job[t].batch) - job[t].done
      BY HoldingTypes
    <3>2. job[t].done \in Nat /\ job[t].batch \in Seq(Event)
      BY DEF IInv, TypeOK, Jobs
    <3> QED
      BY <3>1, <3>2 DEF BatchesBounded
  <2>2. FlushSize \in Nat
    BY ManagerAssumption
  <2>3. ASSUME NEW t \in Threads PROVE DOMAIN Unresolved(t) \subseteq 1 .. FlushSize
    <3>1. PICK s \in Seq(Event) : s = Unresolved(t)
      BY <2>1
    <3>2. Len(s) <= FlushSize
      BY <2>1, <2>2, <3>1
    <3> QED
      BY <2>2, <3>1, <3>2
  <2>4. DOMAIN Unresolved(c) = {}
    <3>1. c \in Threads /\ Len(<<>>) = 0
      BY DEF Threads
    <3>2. PICK s \in Seq(Event) : s = Unresolved(c)
      BY <2>1, <3>1
    <3>3. Len(s) <= 0
      BY <2>1, <3>1, <3>2
    <3> QED
      BY <3>2, <3>3
  <2> QED
    BY <2>1, <2>3, <2>4
<1>2. /\ IsFiniteSet(Slots)
      /\ Cardinality(Slots) = Cardinality(Callers) * FlushSize
  <2>1. IsFiniteSet(Callers) /\ Worker \notin Callers /\ FlushSize \in Nat
    BY ManagerAssumption
  <2>2. IsFiniteSet(Threads) /\ Cardinality(Threads) = Cardinality(Callers) + 1
    BY <2>1, FS_AddElement DEF Threads
  <2>3. c \in Threads /\ Cardinality(Callers) \in Nat
    BY <2>1, FS_CardinalityType DEF Threads
  <2>4. IsFiniteSet(Others) /\ Cardinality(Others) = Cardinality(Threads) - 1
    BY <2>2, <2>3, FS_RemoveElement
  <2>5. Cardinality(Others) = Cardinality(Callers)
    BY <2>2, <2>3, <2>4
  <2>6. IsFiniteSet(1 .. FlushSize) /\ Cardinality(1 .. FlushSize) = FlushSize
    <3>1. 1 \in Int /\ FlushSize \in Int
      BY <2>1
    <3>2. IsFiniteSet(1 .. FlushSize)
          /\ Cardinality(1 .. FlushSize) = IF 1 > FlushSize THEN 0 ELSE FlushSize - 1 + 1
      BY <3>1, FS_Interval
    <3> QED
      BY <2>1, <3>2
  <2> HIDE DEF Others
  <2>7. /\ IsFiniteSet(Others \X (1 .. FlushSize))
        /\ Cardinality(Others \X (1 .. FlushSize)) = Cardinality(Others) * Cardinality(1 .. FlushSize)
    BY <2>4, <2>6, FS_Product
  <2> QED
    BY <2>5, <2>6, <2>7
<1>3. IsFiniteSet(Used) /\ Cardinality(Used) <= Cardinality(Slots)
  <2>1. Used \in SUBSET Slots
    OBVIOUS
  <2> HIDE DEF Used, Slots
  <2> QED
    BY <1>2, <2>1, FS_Subset
<1>4. EventAt \in Surjection(Used, Unsent)
  <2>1. ASSUME NEW p \in Used PROVE EventAt[p] \in Unsent
    BY <2>1 DEF Unsent, ToSet
  <2>2. ASSUME NEW e \in Unsent PROVE \E p \in Used : EventAt[p] = e
    <3>1. PICK t \in Threads : e \in ToSet(Unresolved(t))
      BY <2>2 DEF Unsent
    <3>2. PICK i \in DOMAIN Unresolved(t) : e = Unresolved(t)[i]
      BY <3>1 DEF ToSet
    <3>3. t \in Others /\ i \in 1 .. FlushSize
      BY <1>1, <3>2
    <3>4. <<t, i>> \in Used
      BY <3>2, <3>3
    <3> QED
      BY <3>2, <3>4
  <2> QED
    BY <2>1, <2>2 DEF Surjection
<1>5. IsFiniteSet(Unsent) /\ Cardinality(Unsent) <= Cardinality(Used)
  <2> HIDE DEF Used, EventAt
  <2> QED
    BY <1>3, <1>4, FS_Surjection DEF ExistsSurjection
<1>6. /\ Cardinality(Unsent) \in Nat /\ Cardinality(Used) \in Nat
      /\ FlushSize \in Nat /\ Cardinality(Callers) \in Nat
  BY <1>3, <1>5, ManagerAssumption, FS_CardinalityType
<1> HIDE DEF Used, Slots
<1>7. Cardinality(Unsent) <= Cardinality(Callers) * FlushSize
  <2>1. Cardinality(Callers) * FlushSize \in Nat
    BY <1>6
  <2> QED
    BY <1>2, <1>3, <1>5, <1>6, <2>1
<1> QED
  BY <1>5, <1>6, <1>7

LEMMA QueueStep == QueueInv /\ CustodyInv' /\ [Next]_vars => QueueBounded'
<1>1. SUFFICES ASSUME QueueInv, CustodyInv', [Next]_vars PROVE QueueBounded'
  OBVIOUS
<1>2. CustodyInv /\ BatchesBounded /\ QueueBounded /\ IInv /\ IInv' /\ Moved
  BY <1>1, EveryStepMoves DEF QueueInv, CustodyInv
<1>3. /\ IsFiniteSet(Carried) /\ Cardinality(Carried) <= Room
      /\ IsFiniteSet(Carried') /\ (QueueBounded' <=> Cardinality(Carried') <= Room)
  <2>1. IsFiniteSet(Carried)' = IsFiniteSet(Carried') /\ Cardinality(Carried)' = Cardinality(Carried')
        /\ Room' = Room
    BY DEF Room
  <2> QED
    BY <1>1, <1>2, <2>1, RoomFor, RoomForNext
<1>4. FlushSize * Cardinality(Callers) \in Nat /\ MaxQueueSize \in Nat
  <2>1. FlushSize \in Nat /\ MaxQueueSize \in Nat /\ Cardinality(Callers) \in Nat
    BY ManagerAssumption, FS_CardinalityType
  <2> QED
    BY <2>1
<1>5. CASE ~Accepts
  <2>1. Carried' \in SUBSET Carried
    BY <1>2, <1>5, CarriedStays
  <2>2. Cardinality(Carried') <= Cardinality(Carried)
    BY <1>3, <2>1, FS_Subset
  <2>3. Cardinality(Carried) \in Nat /\ Cardinality(Carried') \in Nat /\ Room \in Nat
    BY <1>3, <1>4, FS_CardinalityType DEF Room
  <2> QED
    BY <1>3, <2>2, <2>3
<1>6. CASE Accepts
  <2>1. PICK c \in Callers : job[c].batch = <<>>
    BY <1>6 DEF Accepts
  <2>2. IsFiniteSet(Unsent) /\ Cardinality(Unsent) <= FlushSize * Cardinality(Callers)
    BY <1>2, <2>1, UnsentBounded
  <2>3. Holding' = [Holding EXCEPT ![InQueue] = Append(queue, submitted')]
    BY <1>6 DEF Accepts
  <2>4. queue' = Append(queue, submitted') /\ \A t \in Threads : Unresolved(t)' = Unresolved(t)
    BY <1>2, <2>3, HoldingTypes, HoldersAre, HoldingIs, HoldingIsNext
  <2>5. Unsent' = Unsent
    BY <2>4 DEF Unsent
  <2>6. Len(queue) < MaxQueueSize /\ Len(queue) \in Nat /\ Len(queue') = Len(queue) + 1
    BY <1>2, <1>4, <1>6, <2>4 DEF Accepts, QueueFull, IInv, TypeOK
  <2>7. Cardinality(Unsent) \in Nat
    BY <2>2, FS_CardinalityType
  <2>8. Len(queue') + Cardinality(Unsent') <= Room
    BY <1>4, <2>2, <2>5, <2>6, <2>7 DEF Room
  <2> QED
    BY <2>8 DEF QueueBounded, Unsent, Room
<1> QED
  BY <1>5, <1>6

LEMMA BlankQueue == Blank => QueueInv
<1>1. SUFFICES ASSUME Blank PROVE QueueInv
  OBVIOUS
<1>2. CustodyInv /\ Carried = {}
  <2>1. CustodyInv
    BY <1>1, BlankCustody
  <2>2. EventsIn(Holding) = {}
    BY <1>1, <2>1, CustodyFacts DEF Blank
  <2>3. Carried \subseteq EventsIn(Holding)
    BY HoldersAre, HoldingIs DEF Carried, CarriedBy, Carriers, EventsIn
  <2> QED
    BY <2>1, <2>2, <2>3
<1>3. 0 <= Room
  <2>1. FlushSize \in Nat /\ MaxQueueSize \in Nat /\ Cardinality(Callers) \in Nat
    BY ManagerAssumption, FS_CardinalityType
  <2> QED
    BY <2>1 DEF Room
<1>4. QueueBounded
  BY <1>2, <1>3, RoomFor, FS_EmptySet
<1>5. BatchesBounded
  BY <1>1, BlankInflight DEF InflightInv
<1> QED
  BY <1>2, <1>4, <1>5 DEF QueueInv

\* Requeued batches let the queue outgrow max_queue_size, but only by what was popped
\* from it: flush_size events for every dispatching thread (batch.py:487-494).
THEOREM QueueStaysBounded == SpecFork => []QueueBounded
<1>1. Init => QueueInv
  BY BeginsBlank, BlankQueue
<1>2. QueueInv /\ BatchesBounded' /\ [Next]_vars => QueueInv'
  BY CustodyStep, QueueStep DEF QueueInv
<1>3. InflightInv => BatchesBounded
  BY DEF InflightInv
<1>4. QueueInv => QueueBounded
  BY DEF QueueInv
<1>5. Blank' => QueueInv'
  BY BlankQueue, PTL
<1>6. QueueInv /\ Forks => QueueInv'
  BY <1>5, ForkStep DEF QueueInv
<1>7. QueueInv /\ BatchesBounded' /\ [Next \/ \E c \in Callers : Fork(c)]_vars => QueueInv'
  BY <1>2, <1>6 DEF Forks
<1> QED
  BY <1>1, <1>3, <1>4, <1>7, InflightInvariant, PTL DEF SpecFork

-----------------------------------------------------------------------------
(* A flush that returns True tells the truth.                              *)

\* A thread that is past recover() with its batch, and whether it failed to deliver
\* some of it.
Late == {"deliver", "post", "finish"}
Failing(c) == pc[c] \in Late /\ job[c].out # "ok"

\* What a flush that has seen no failure dispatched itself is delivered, or still to be
\* sent; and what it owed when it began had been accepted.
MineDelivered ==
  \A c \in Callers : call[c].ok /\ ~Failing(c) =>
    \A e \in call[c].mine : fate[e] = "delivered" \/ e \in ToSet(Unresolved(c))
OwedKnown ==
  \A c \in Callers : \A e \in call[c].owed : fate[e] \notin {"new", "refused", "parent"}

FlushInv == CustodyInv /\ InflightExact /\ MineDelivered /\ OwedKnown

\* How a step changes a caller's flush: not at all, or it starts or ends, ...
SameOwed(c) == call'[c].owed = call[c].owed
SameCall(c) == call'[c].ok = call[c].ok /\ call'[c].mine = call[c].mine
Restarts(c) == call'[c].mine = {} /\ call'[c].owed \subseteq Outstanding
SameBatch(c) ==
  /\ job'[c].batch = job[c].batch /\ job'[c].done = job[c].done /\ job'[c].out = job[c].out
  /\ pc[c] \in Late => pc'[c] \in Late
Idle(c) == SameBatch(c) /\ ((SameCall(c) /\ SameOwed(c)) \/ Restarts(c))

\* ... a batch is popped for it, one of its segments is delivered or fails, the batch ends.
Takes(c) ==
  /\ pc[c] \notin Late /\ job'[c].batch \in Seq(Event) /\ job'[c].done = 0
  /\ call'[c].ok = call[c].ok /\ call'[c].mine = call[c].mine \cup ToSet(job'[c].batch)
  /\ job[c].batch = <<>> /\ SameOwed(c)
Delivers(c) ==
  /\ SameCall(c) /\ SameOwed(c) /\ pc[c] \in Late /\ job[c].ends # <<>>
  /\ pc'[c] \in Late /\ (job'[c].out = "ok" => job[c].out = "ok")
  /\ job'[c].batch = job[c].batch /\ job'[c].done = Head(job[c].ends)
  /\ \A e \in ToSet(Segment(c)) : fate'[e] = "delivered"
Fails(c) == SameOwed(c) /\ pc'[c] \in Late /\ job'[c].out # "ok"
Ends(c) ==
  /\ pc[c] = "finish" /\ call'[c].mine = call[c].mine /\ SameOwed(c)
  /\ call'[c].ok => call[c].ok /\ job[c].out = "ok"

Flushes(c) == Idle(c) \/ Takes(c) \/ Delivers(c) \/ Fails(c) \/ Ends(c)

\* A thread that moves on leaves the flush of any other caller alone.
LEMMA OthersIdle ==
  ASSUME TypeOK, NEW t \in Threads, NEW place, NEW c \in Callers, c # t,
         Move(t, place) \/ MoveAndNotify(t, place),
         job'[c] = job[c], call'[c] = call[c]
  PROVE  Idle(c)
<1>1. c \in Threads
  BY DEF Threads
<1>2. pc'[c] = pc[c] \/ (pc[c] \notin Dispatching /\ pc'[c] \notin Dispatching)
  BY <1>1, MoveDisturbsNobody
<1> QED
  BY <1>2 DEF Idle, SameBatch, SameCall, SameOwed, Dispatching, Late

\* So does one that moves without a batch; its own flush at most starts or ends.
LEMMA MovesIdle ==
  ASSUME TypeOK, NEW t \in Threads, NEW place, pc[t] \notin Late, UNCHANGED job,
         Move(t, place) \/ MoveAndNotify(t, place),
         \/ UNCHANGED call
         \/ \E k : /\ call' = [call EXCEPT ![t] = k]
                   /\ k.mine = {} /\ k.owed \subseteq Outstanding,
         NEW c \in Callers
  PROVE  Idle(c)
<1>0. call \in [Threads -> CallStates] /\ c \in Threads
  BY DEF TypeOK, Threads
<1>1. CASE c # t
  BY <1>0, <1>1, OthersIdle
<1>2. CASE c = t
  BY <1>0, <1>2 DEF Idle, SameBatch, SameCall, SameOwed, Restarts
<1> QED
  BY <1>1, <1>2

\* A segment has its outcome.
LEMMA ResolvedOut ==
  ASSUME IInv, NEW t \in Threads, NEW o \in {"ok", "rejected", "transient"},
         job[t].ends # <<>>,
         job' = Resolved(t, o) \/ (job[t].budget > 0 /\ job' = Spent(Resolved(t, o), t))
  PROVE  /\ \A u \in Threads \ {t} : job'[u] = job[u]
         /\ job'[t].batch = job[t].batch /\ job'[t].done = Head(job[t].ends)
         /\ job'[t].out = Worse(job[t].out, o)
<1>1. TypeOK /\ JobsWellFormed
  BY DEF IInv
<1>2. Resolved(t, o) \in [Threads -> Jobs]
  BY <1>1, ResolvedTypes
<1>3. /\ \A u \in Threads \ {t} : Resolved(t, o)[u] = job[u]
      /\ Resolved(t, o)[t].batch = job[t].batch
      /\ Resolved(t, o)[t].done = Head(job[t].ends)
      /\ Resolved(t, o)[t].out = Worse(job[t].out, o)
  BY <1>1 DEF Resolved, TypeOK, Jobs
<1>4. CASE job' = Resolved(t, o)
  BY <1>3, <1>4
<1>5. CASE job[t].budget > 0 /\ job' = Spent(Resolved(t, o), t)
  <2>1. /\ \A u \in Threads \ {t} : job'[u] = Resolved(t, o)[u]
        /\ job'[t].batch = Resolved(t, o)[t].batch /\ job'[t].done = Resolved(t, o)[t].done
    BY <1>1, <1>2, <1>5, SpentTypes
  <2>2. job'[t].out = Resolved(t, o)[t].out
    <3> DEFINE R == Resolved(t, o)
    <3> HIDE DEF R
    <3>1. R \in [Threads -> Jobs] /\ job' = [R EXCEPT ![t].budget = job[t].budget - 1]
      BY <1>2, <1>5 DEF Spent, R
    <3>2. job'[t].out = R[t].out
      BY <3>1 DEF Jobs
    <3> QED
      BY <3>2 DEF R
  <2> QED
    BY <1>3, <2>1, <2>2
<1> QED
  BY <1>4, <1>5

\* A segment that is not delivered fails its batch.
LEMMA FailsFlush ==
  ASSUME IInv, NEW t \in Threads, NEW o \in {"rejected", "transient"},
         job[t].ends # <<>>, UNCHANGED call,
         job' = Resolved(t, o) \/ (job[t].budget > 0 /\ job' = Spent(Resolved(t, o), t)),
         Move(t, AfterSegment(t)) \/ MoveAndNotify(t, AfterSegment(t)),
         NEW c \in Callers
  PROVE  Flushes(c)
<1>0. TypeOK /\ c \in Threads
  BY DEF IInv, Threads
<1>1. /\ \A u \in Threads \ {t} : job'[u] = job[u]
      /\ job'[t].out = Worse(job[t].out, o)
  BY ResolvedOut
<1>2. CASE c # t
  BY <1>0, <1>1, <1>2, OthersIdle DEF Flushes
<1>3. CASE c = t
  <2>1. job'[t].out # "ok"
    BY <1>1 DEF Worse
  <2>2. pc'[t] \in Late
    BY <1>0, MoveDisturbsNobody, AfterSegmentPlace DEF Late
  <2> QED
    BY <1>3, <2>1, <2>2 DEF Flushes, Fails, SameOwed
<1> QED
  BY <1>2, <1>3

\* Every step is one of them, for every caller.
LEMMA FlushMoves ==
  ASSUME IInv, [Next]_vars, NEW c \in Callers
  PROVE  Flushes(c)
<1> USE DEF flags, counters, log, memory, history, control
<1>0. TypeOK /\ JobsWellFormed /\ Worker \in Threads /\ Callers \subseteq Threads /\ c \in Threads
      /\ c # Worker
  BY ManagerAssumption DEF IInv, Threads
<1>a. NoCall.mine = {} /\ NoCall.owed = {}
  BY DEF NoCall
<1>1. ASSUME UNCHANGED <<job, call>>, pc'[c] = pc[c] PROVE Flushes(c)
  BY <1>1 DEF Flushes, Idle, SameBatch, SameCall, SameOwed
<1>2. ASSUME NEW t \in Threads, NEW r, pc[t] \notin Late, UNCHANGED job, FlushReturns(t, r)
      PROVE  Flushes(c)
  <2>1. \E place : Move(t, place)
    BY <1>2 DEF FlushReturns
  <2>2. \/ UNCHANGED call
        \/ \E k : call' = [call EXCEPT ![t] = k] /\ k.mine = {} /\ k.owed \subseteq Outstanding
    BY <1>2, <1>a DEF FlushReturns, NoCall
  <2> QED
    BY <1>0, <1>2, <2>1, <2>2, MovesIdle DEF Flushes
<1>3. ASSUME NEW d \in Callers, pc[d] \notin Late, UNCHANGED job, ShutdownReturns(d)
      PROVE  Flushes(c)
  BY <1>0, <1>3, <1>a, MovesIdle DEF Flushes, ShutdownReturns
<1>4. ASSUME NEW d \in Callers, Add(d) \/ FlushCalled(d) \/ ShutdownBegins(d)
      PROVE  Flushes(c)
  <2>1. CASE AddRefused(d) \/ AddOverflows(d)
    BY <1>1, <2>1 DEF AddRefused, AddOverflows
  <2>2. CASE AddAccepted(d) \/ FlushCalled(d) \/ ShutdownBegins(d)
    <3>1. UNCHANGED job /\ pc[d] \notin Late /\ d \in Threads
      BY <1>0, <2>2
      DEF AddAccepted, FlushCalled, ShutdownBegins, CanAdd, CanCall, Late
    <3>2. \E place : Move(d, place) \/ MoveAndNotify(d, place)
      BY <2>2 DEF AddAccepted, FlushCalled, ShutdownBegins
    <3>3. \E k : call' = [call EXCEPT ![d] = k] /\ k.mine = {} /\ k.owed \subseteq Outstanding
      <4>1. \A o, l : LET k == [NoCall EXCEPT !.op = o, !.deadline = l]
                     IN  k.mine = {} /\ k.owed = {}
        BY DEF NoCall
      <4>2. [NoCall EXCEPT !.op = "add"].mine = {} /\ [NoCall EXCEPT !.op = "add"].owed = {}
        BY DEF NoCall
      <4>3. CASE AddAccepted(d)
        BY <4>2, <4>3 DEF AddAccepted
      <4>4. CASE FlushCalled(d)
        <5>1. PICK l : call' = [call EXCEPT ![d] = [NoCall EXCEPT !.op = "flush", !.deadline = l]]
          BY <4>4 DEF FlushCalled
        <5> QED
          BY <4>1, <5>1
      <4>5. CASE ShutdownBegins(d)
        <5>1. PICK l :
                call' = [call EXCEPT ![d] = [NoCall EXCEPT !.op = "shutdown", !.deadline = l]]
          BY <4>5 DEF ShutdownBegins
        <5> QED
          BY <4>1, <5>1
      <4> QED
        BY <2>2, <4>3, <4>4, <4>5
    <3> QED
      BY <1>0, <3>1, <3>2, <3>3, MovesIdle DEF Flushes
  <2> QED
    BY <1>4, <2>1, <2>2 DEF Add
<1>5. ASSUME NEW d \in Callers, EnsureWorker(d) PROVE Flushes(c)
  <2>1. UNCHANGED job /\ (call' = [call EXCEPT ![d] = NoCall] \/ UNCHANGED call)
        /\ pc[d] = "ensure"
    BY <1>5 DEF EnsureWorker
  <2>2. (SameCall(c) /\ SameOwed(c)) \/ Restarts(c)
    BY <1>0, <1>a, <2>1 DEF SameCall, SameOwed, Restarts, TypeOK
  <2>3. pc[c] \in Late => pc'[c] = pc[c]
    BY <1>0, <1>5, <2>1 DEF EnsureWorker, Move, TypeOK, Late
  <2> QED
    BY <2>1, <2>2, <2>3 DEF Flushes, Idle, SameBatch
<1>6. ASSUME NEW d \in Callers,
             \/ FlushDone(d) \/ InflightDrained(d) \/ WaitTimesOut(d)
      PROVE  Flushes(c)
  <2>1. UNCHANGED job /\ d \in Threads /\ pc[d] \notin Late
    BY <1>0, <1>6 DEF FlushDone, InflightDrained, WaitTimesOut, Late
  <2>2. (\E r : FlushReturns(d, r)) \/ (Move(d, "flush") /\ UNCHANGED call)
    BY <1>6 DEF FlushDone, InflightDrained, WaitTimesOut
  <2> QED
    BY <1>0, <1>2, <2>1, <2>2, MovesIdle DEF Flushes
<1>7. ASSUME NEW d \in Callers,
             \/ FlushStarts(d) \/ InflightWaits(d) \/ ShutdownJoins(d) \/ ShutdownMarksFinite(d)
      PROVE  Flushes(c)
  <2>1. UNCHANGED job /\ d \in Threads /\ pc[d] \notin Late
    BY <1>0, <1>7
    DEF FlushStarts, InflightWaits, ShutdownJoins, ShutdownMarksFinite, Late
  <2>2. \E place : Move(d, place)
    BY <1>7 DEF FlushStarts, InflightWaits, ShutdownJoins, ShutdownMarksFinite
  <2>3. \/ UNCHANGED call
        \/ \E k : call' = [call EXCEPT ![d] = k] /\ k.mine = {} /\ k.owed \subseteq Outstanding
    <3>1. CASE FlushStarts(d)
      <4> DEFINE k == [call[d] EXCEPT !.ok = TRUE, !.owed = Outstanding, !.mine = {}]
      <4>1. call' = [call EXCEPT ![d] = k]
        BY <3>1 DEF FlushStarts
      <4>2. k.mine = {} /\ k.owed = Outstanding
        BY <1>0, <2>1 DEF TypeOK, CallStates
      <4> QED
        BY <4>1, <4>2
    <3>2. CASE ~FlushStarts(d)
      BY <1>7, <3>2 DEF InflightWaits, ShutdownJoins, ShutdownMarksFinite
    <3> QED
      BY <3>1, <3>2
  <2> QED
    BY <1>0, <2>1, <2>2, <2>3, MovesIdle DEF Flushes
<1>8. ASSUME NEW d \in Callers,
             \/ ShutdownUnqueues(d) \/ ShutdownLosesRest(d) \/ ShutdownPersists(d)
             \/ ShutdownConfirms(d)
      PROVE  Flushes(c)
  <2>1. UNCHANGED job /\ d \in Threads /\ pc[d] \notin Late
    BY <1>0, <1>8
    DEF ShutdownUnqueues, ShutdownLosesRest, ShutdownPersists, ShutdownConfirms, LosesTaken, Late
  <2>2. ShutdownReturns(d) \/ (UNCHANGED call /\ \E place : Move(d, place))
    BY <1>8
    DEF ShutdownUnqueues, ShutdownLosesRest, ShutdownPersists, ShutdownConfirms, LosesTaken
  <2> QED
    BY <1>0, <1>3, <2>1, <2>2, MovesIdle DEF Flushes
<1>9. ASSUME NEW d \in Callers, DeadlinePasses(d) PROVE Flushes(c)
  <2>1. /\ UNCHANGED job /\ call' = [call EXCEPT ![d].deadline = "passed"]
        /\ pc' = [pc EXCEPT ![d] = Awake(pc[d])]
    BY <1>9 DEF DeadlinePasses
  <2>2. SameCall(c) /\ SameOwed(c)
    BY <1>0, <2>1 DEF SameCall, SameOwed, TypeOK, CallStates
  <2>3. pc[c] \in Late => pc'[c] \in Late
    BY <1>0, <2>1 DEF TypeOK, Awake, Late
  <2> QED
    BY <2>1, <2>2, <2>3 DEF Flushes, Idle, SameBatch
<1>10. ASSUME NEW d \in Callers, FlushTakes(d) PROVE Flushes(c)
  <2>1. /\ pc[d] = "loop" /\ queue # <<>> /\ Pop(d, AtMostFlushSize) /\ Move(d, "recover")
        /\ call' = [call EXCEPT ![d] = [call[d] EXCEPT !.mine = call[d].mine
                                                                  \cup ToSet(job'[d].batch)]]
    BY <1>10 DEF FlushTakes
  <2>2. /\ job'[d].batch \in Seq(Event) /\ job'[d].done = 0
        /\ \A u \in Threads \ {d} : job'[u] = job[u]
    <3>1. job' \in [Threads -> Jobs] /\ job'[d].batch \in Seq(Event)
      BY <1>0, <2>1, PopTypes
    <3> QED
      BY <1>0, <2>1, <3>1 DEF Pop, TypeOK
  <2>3. CASE c # d
    <3>1. call'[c] = call[c]
      BY <1>0, <2>1, <2>3 DEF TypeOK
    <3> QED
      BY <1>0, <2>1, <2>2, <2>3, <3>1, OthersIdle DEF Flushes
  <2>4. CASE c = d
    <3>1. /\ call'[c].ok = call[c].ok /\ call'[c].mine = call[c].mine \cup ToSet(job'[c].batch)
          /\ call'[c].owed = call[c].owed
      BY <1>0, <2>1, <2>4 DEF TypeOK, CallStates
    <3>2. pc[c] \notin Late /\ job[c].batch = <<>>
      BY <1>0, <2>1, <2>4 DEF Late, JobsWellFormed, WellFormed, Dispatching
    <3> QED
      BY <2>2, <2>4, <3>1, <3>2 DEF Flushes, Takes, SameOwed
  <2> QED
    BY <2>3, <2>4
<1>11. ASSUME NEW t \in Threads, ReplayStarts(t) \/ ReplayAnswered(t) \/ ReplayDone(t)
       PROVE  Flushes(c)
  <2>1. UNCHANGED <<job, call>> /\ pc[t] \notin Late
    BY <1>11 DEF ReplayStarts, ReplayAnswered, ReplayDone, RecoverSucceeds, Late
  <2>2. UNCHANGED pc \/ \E place : Move(t, place)
    BY <1>11 DEF ReplayStarts, ReplayAnswered, ReplayDone, RecoverSucceeds
  <2> QED
    BY <1>0, <1>1, <2>1, <2>2, MovesIdle DEF Flushes
<1>12. ASSUME NEW t \in Threads, ReplayFails(t) PROVE Flushes(c)
  <2>1. pc[t] \in {"recover", "replay"} /\ RecoverFails(t)
    BY <1>12 DEF ReplayFails
  <2>2. CASE job[t].batch = <<>>
    BY <1>2, <2>1, <2>2 DEF RecoverFails, Late
  <2>3. CASE job[t].batch # <<>>
    <3>1. RequeueAtHead(t) /\ job' = Resolved(t, "transient") /\ UNCHANGED call
      BY <2>1, <2>3 DEF RecoverFails
    <3>2. job[t].ends # <<>>
      <4>1. job[t].done = 0 /\ Len(job[t].batch) # 0
        BY <1>0, <2>1, <2>3 DEF JobsWellFormed, WellFormed, TypeOK, Jobs
      <4> QED
        BY <1>0, <4>1 DEF JobsWellFormed, WellFormed
    <3> QED
      BY <3>1, <3>2, FailsFlush DEF RequeueAtHead
  <2> QED
    BY <2>2, <2>3
<1>13. ASSUME NEW t \in Threads,
              \/ SplitLimitReached(t) \/ SendRefused(t) \/ Rejected(t) \/ Failed(t)
       PROVE  Flushes(c)
  <2>1. /\ pc[t] \in {"deliver", "post"} /\ UNCHANGED call
        /\ \E o \in {"rejected", "transient"} :
             job' = Resolved(t, o) \/ (job[t].budget > 0 /\ job' = Spent(Resolved(t, o), t))
        /\ Move(t, AfterSegment(t)) \/ MoveAndNotify(t, AfterSegment(t))
    BY <1>13
    DEF SplitLimitReached, SendRefused, Rejected, Failed, DropSegment, RequeueAtHead, BudgetLeft
  <2>2. job[t].ends # <<>>
    BY <1>0, <2>1 DEF JobsWellFormed, WellFormed
  <2> QED
    BY <2>1, <2>2, FailsFlush
<1>14. ASSUME NEW t \in Threads, Accepted(t) PROVE Flushes(c)
  <2>1. /\ pc[t] = "post" /\ UNCHANGED call /\ job' = Resolved(t, "ok")
        /\ Move(t, AfterSegment(t)) /\ fate' = SetFate(ToSet(Segment(t)), "delivered")
    BY <1>14 DEF Accepted
  <2>2. job[t].ends # <<>>
    BY <1>0, <2>1 DEF JobsWellFormed, WellFormed
  <2>3. /\ \A u \in Threads \ {t} : job'[u] = job[u]
        /\ job'[t].batch = job[t].batch /\ job'[t].done = Head(job[t].ends)
        /\ job'[t].out = Worse(job[t].out, "ok")
    BY <2>1, <2>2, ResolvedOut
  <2>4. CASE c # t
    BY <1>0, <2>1, <2>3, <2>4, OthersIdle DEF Flushes
  <2>5. CASE c = t
    <3>1. job'[c].out = "ok" => job[c].out = "ok"
      <4>1. job[t].out \in {"ok", "rejected", "transient"}
        BY <1>0 DEF TypeOK, Jobs
      <4> QED
        BY <2>3, <2>5, <4>1 DEF Worse
    <3>2. pc[c] \in Late /\ pc'[c] \in Late
      BY <1>0, <2>1, <2>5, MoveDisturbsNobody, AfterSegmentPlace DEF Late
    <3>3. \A e \in ToSet(Segment(c)) : fate'[e] = "delivered"
      <4>1. ToSet(Segment(t)) \subseteq Event
        BY <1>0, <2>2, HeadSegment
      <4> QED
        BY <2>1, <2>5, <4>1 DEF SetFate
    <3> QED
      BY <2>1, <2>2, <2>3, <2>5, <3>1, <3>2, <3>3
      DEF Flushes, Delivers, SameCall, SameOwed
  <2> QED
    BY <2>4, <2>5
<1>15. ASSUME NEW t \in Threads, SendStarts(t) \/ BatchRejected(t) PROVE Flushes(c)
  <2>1. /\ pc[t] \in Late /\ UNCHANGED call /\ (Move(t, "post") \/ Move(t, "deliver"))
    BY <1>15 DEF SendStarts, BatchRejected, Late
  <2>2. /\ \A u \in Threads \ {t} : job'[u] = job[u]
        /\ job'[t].batch = job[t].batch /\ job'[t].done = job[t].done
        /\ job'[t].out = job[t].out
    <3>1. CASE SendStarts(t)
      <4>1. job' = [job EXCEPT ![t].budget = job[t].budget - 1]
        BY <3>1 DEF SendStarts, Spent
      <4> QED
        BY <1>0, <4>1 DEF TypeOK, Jobs
    <3>2. CASE BatchRejected(t)
      <4> DEFINE e == <<job[t].done + SegmentLen(t) \div 2>> \o job[t].ends
      <4>1. job' = [job EXCEPT ![t] = [job[t] EXCEPT !.ends = e]]
        BY <3>2 DEF BatchRejected
      <4> HIDE DEF e
      <4> QED
        BY <1>0, <4>1 DEF TypeOK, Jobs
    <3> QED
      BY <1>15, <3>1, <3>2
  <2>3. CASE c # t
    BY <1>0, <2>1, <2>2, <2>3, OthersIdle DEF Flushes
  <2>4. CASE c = t
    <3>1. pc'[c] \in Late
      BY <1>0, <2>1, <2>4, MoveDisturbsNobody DEF Late
    <3> QED
      BY <2>1, <2>2, <2>4, <3>1 DEF Flushes, Idle, SameBatch, SameCall, SameOwed
  <2> QED
    BY <2>3, <2>4
<1>16. ASSUME NEW t \in Threads, Finish(t) PROVE Flushes(c)
  <2>1. /\ pc[t] = "finish" /\ job' = [job EXCEPT ![t] = NoJob]
        /\ \E place : MoveAndNotify(t, place)
        /\ call' = IF t = Worker \/ job[t].out = "ok" THEN call
                   ELSE [call EXCEPT ![t] = [call[t] EXCEPT !.ok = FALSE]]
    BY <1>16 DEF Finish
  <2>2. CASE c # t
    <3>1. call'[c] = call[c] /\ job'[c] = job[c]
      BY <1>0, <2>1, <2>2 DEF TypeOK
    <3> QED
      BY <1>0, <2>1, <2>2, <3>1, OthersIdle DEF Flushes
  <2>3. CASE c = t
    <3>1. /\ call'[c].mine = call[c].mine /\ call'[c].owed = call[c].owed
          /\ call'[c].ok => call[c].ok /\ job[c].out = "ok"
      BY <1>0, <2>1, <2>3 DEF TypeOK, CallStates
    <3> QED
      BY <2>1, <2>3, <3>1 DEF Flushes, Ends, SameOwed
  <2> QED
    BY <2>2, <2>3
<1>17. ASSUME WorkerStep PROVE Flushes(c)
  <2>1. CASE WorkerTakes
    <3>1. Pop(Worker, AtMostFlushSize) /\ Move(Worker, "recover") /\ UNCHANGED call
      BY <2>1 DEF WorkerTakes
    <3>2. job'[c] = job[c]
      BY <1>0, <3>1 DEF Pop, TypeOK
    <3> QED
      BY <1>0, <3>1, <3>2, OthersIdle DEF Flushes
  <2>2. CASE WorkerSkipsTick
    BY <1>1, <2>2 DEF WorkerSkipsTick
  <2>3. CASE WorkerWaits \/ WorkerStops \/ WorkerBacksOff \/ WorkerExits
    <3>1. UNCHANGED <<job, call>>
          /\ \E place : Move(Worker, place) \/ MoveAndNotify(Worker, place)
      BY <2>3 DEF WorkerWaits, WorkerStops, WorkerBacksOff, WorkerExits
    <3> QED
      BY <1>0, <3>1, OthersIdle DEF Flushes
  <2> QED
    BY <1>17, <2>1, <2>2, <2>3 DEF WorkerStep
<1>18. ASSUME Tick PROVE Flushes(c)
  BY <1>0, <1>1, <1>18 DEF Tick, TypeOK
<1>19. CASE UNCHANGED vars
  BY <1>1, <1>19 DEF vars
<1> QED
  BY <1>4, <1>5, <1>6, <1>7, <1>8, <1>9, <1>10, <1>11, <1>12, <1>13, <1>14, <1>15, <1>16,
     <1>17, <1>18, <1>19
  DEF Next, FlushStep, ShutdownStep, Replay, Deliver

\* What is answered for stays so: a delivered event is delivered for ever, and an
\* accepted one is never refused.
LEMMA FatesStay ==
  ASSUME CustodyInv, Moved
  PROVE  /\ \A e \in Event : \A f \in {"delivered", "parent"} : fate[e] = f => fate'[e] = f
         /\ \A e \in Event : fate[e] \notin {"new", "refused", "parent"} => fate'[e] \notin {"new", "refused", "parent"}
<1>1. CASE Idles \/ Passes \/ Splits \/ Posts
  BY <1>1 DEF Idles, Passes, Splits, Posts
<1>2. CASE Refuses \/ Accepts
  <2>1. fate[submitted'] = "new" /\ \E f \in Fates \ {"new"} : fate' = SetFate({submitted'}, f)
    BY <1>2, ComingConserves
  <2> QED
    BY <2>1 DEF SetFate
<1>3. CASE Replays
  <2>1. ToSet(wal[1]) \subseteq EventsIn(wal) /\ Wire = {}
    BY <1>3 DEF Replays, EventsIn
  <2>2. \A e \in Event : e \in ToSet(wal[1]) => fate[e] = "stored"
    BY <2>1, CustodyFacts
  <2> QED
    BY <1>3, <2>2 DEF Replays, SetFate
<1>4. ASSUME NEW g, NEW n, NEW f \in {"delivered", "lost", "stored"}, Leave(g, n, f)
      PROVE  /\ \A e \in Event : \A h \in {"delivered", "parent"} : fate[e] = h => fate'[e] = h
             /\ \A e \in Event : fate[e] \notin {"new", "refused", "parent"}
                  => fate'[e] \notin {"new", "refused", "parent"}
  <2>1. f \in Fates \ {"new", "held"}
    BY DEF Fates
  <2>2. /\ ToSet(First(g, n)) \subseteq EventsIn(Holding)
        /\ \A e \in Event : fate'[e] = IF e \in ToSet(First(g, n)) THEN f ELSE fate[e]
    BY <1>4, <2>1, LeaveFacts
  <2>3. \A e \in ToSet(First(g, n)) : fate[e] = "held"
    BY <2>2, CustodyFacts
  <2> QED
    BY <2>2, <2>3
<1>5. CASE \E g \in Holders : \E n \in 1 .. Len(Holding[g]) : Settles(g, n) \/ Retains(g, n)
  <2>1. \E g, n : \E f \in {"delivered", "lost", "stored"} : Leave(g, n, f)
    BY <1>5 DEF Settles, Retains
  <2> QED
    BY <1>4, <2>1
<1>6. CASE \E c \in Callers : Persists(c) \/ Recounts(c)
  <2>1. \E g, n : \E f \in {"delivered", "lost", "stored"} : Leave(g, n, f)
    BY <1>6 DEF Persists, Recounts
  <2> QED
    BY <1>4, <2>1
<1> QED
  BY <1>1, <1>2, <1>3, <1>5, <1>6 DEF Moved

\* Nothing is forgotten by a flush that has seen no failure.
LEMMA MineStep ==
  FlushInv /\ CustodyInv' /\ [Next]_vars => MineDelivered' /\ OwedKnown'
<1>1. SUFFICES ASSUME FlushInv, CustodyInv', [Next]_vars, NEW c \in Callers
               PROVE  /\ call'[c].ok /\ ~Failing(c)' => \A e \in call'[c].mine :
                           fate'[e] = "delivered" \/ e \in ToSet(Unresolved(c)')
                      /\ \A e \in call'[c].owed : fate'[e] \notin {"new", "refused", "parent"}
  BY DEF MineDelivered, OwedKnown
<1>2. /\ IInv /\ CustodyInv /\ Moved /\ c \in Threads
      /\ call[c].ok /\ ~Failing(c) =>
           \A e \in call[c].mine : fate[e] = "delivered" \/ e \in ToSet(Unresolved(c))
      /\ \A e \in call[c].owed : fate[e] \notin {"new", "refused", "parent"}
      /\ call[c].mine \subseteq Event /\ call[c].owed \subseteq Event
  <2>1. IInv /\ CustodyInv /\ Moved /\ MineDelivered /\ OwedKnown /\ c \in Threads
    BY <1>1, EveryStepMoves DEF FlushInv, CustodyInv, Threads
  <2>2. call[c] \in CallStates
    BY <2>1 DEF IInv, TypeOK
  <2> QED
    BY <2>1, <2>2 DEF MineDelivered, OwedKnown, CallStates
<1>3. /\ \A e \in Event : fate[e] = "delivered" => fate'[e] = "delivered"
      /\ \A e \in Event : fate[e] \notin {"new", "refused", "parent"} => fate'[e] \notin {"new", "refused", "parent"}
  BY <1>2, FatesStay
<1>4. SameOwed(c) => \A e \in call'[c].owed : fate'[e] \notin {"new", "refused", "parent"}
  BY <1>2, <1>3 DEF SameOwed
<1>5. CASE Idle(c)
  <2>1. CASE Restarts(c)
    <3>1. \A e \in Outstanding : e \in Event /\ fate[e] \notin {"new", "refused", "parent"}
      BY DEF Outstanding
    <3> QED
      BY <1>3, <2>1, <3>1 DEF Restarts
  <2>2. CASE SameCall(c) /\ SameOwed(c)
    <3>1. Unresolved(c)' = Unresolved(c) /\ (Failing(c) => Failing(c)')
      BY <1>5 DEF Idle, SameBatch, Unresolved, Failing
    <3> QED
      BY <1>2, <1>3, <1>4, <2>2, <3>1 DEF SameCall
  <2> QED
    BY <1>5, <2>1, <2>2 DEF Idle
<1>6. CASE Takes(c)
  <2>1. ~Failing(c) /\ ToSet(Unresolved(c)) = {}
    <3>1. Unresolved(c) \in Seq(Event) /\ Len(Unresolved(c)) = Len(job[c].batch) - job[c].done
          /\ job[c].done \in Nat /\ job[c].done <= Len(job[c].batch)
      BY <1>2, HoldingTypes DEF IInv, TypeOK, Jobs, JobsWellFormed, WellFormed
    <3>2. Len(job[c].batch) = 0
      BY <1>6 DEF Takes
    <3>3. Len(Unresolved(c)) = 0
      BY <3>1, <3>2
    <3>4. Unresolved(c) = <<>>
      BY <3>1, <3>3
    <3> QED
      BY <1>6, <3>4 DEF Takes, Failing, ToSet
  <2>2. Unresolved(c)' = job'[c].batch
    <3>1. PICK s \in Seq(Event) : s = job'[c].batch
      BY <1>6 DEF Takes
    <3>2. SubSeq(s, 0 + 1, Len(s)) = s
      OBVIOUS
    <3> QED
      BY <1>6, <3>1, <3>2 DEF Takes, Unresolved
  <2> QED
    BY <1>2, <1>3, <1>4, <1>6, <2>1, <2>2 DEF Takes
<1>7. CASE Delivers(c)
  <2>1. Failing(c) => Failing(c)'
    BY <1>7 DEF Delivers, Failing
  <2>2. ToSet(Unresolved(c)) \subseteq ToSet(Segment(c)) \cup ToSet(Unresolved(c)')
    <3>1. /\ SegmentLen(c) \in 1 .. Len(Unresolved(c))
          /\ Segment(c) = SubSeq(Unresolved(c), 1, SegmentLen(c))
          /\ Unresolved(c)' = SubSeq(Unresolved(c), SegmentLen(c) + 1, Len(Unresolved(c)))
      BY <1>2, <1>7, SegmentFirst DEF Delivers, Unresolved
    <3>2. PICK s \in Seq(Event) : s = Unresolved(c)
      BY <1>2, HoldingTypes
    <3>3. PICK n \in 0 .. Len(s) : n = SegmentLen(c)
      BY <3>1, <3>2
    <3>4. /\ ToSet(SubSeq(s, 1, n)) = {s[i] : i \in 1 .. n}
          /\ ToSet(SubSeq(s, n + 1, Len(s))) = {s[i] : i \in (n + 1) .. Len(s)}
          /\ ToSet(s) = {s[i] : i \in 1 .. Len(s)}
      BY PartsHold
    <3>5. 1 .. Len(s) = 1 .. n \cup (n + 1) .. Len(s)
      OBVIOUS
    <3>6. ToSet(s) \subseteq ToSet(SubSeq(s, 1, n)) \cup ToSet(SubSeq(s, n + 1, Len(s)))
      BY <3>4, <3>5
    <3> QED
      BY <3>1, <3>2, <3>3, <3>6
  <2> QED
    BY <1>2, <1>3, <1>4, <1>7, <2>1, <2>2 DEF Delivers, SameCall
<1>8. CASE Fails(c)
  BY <1>4, <1>8 DEF Fails, Failing
<1>9. CASE Ends(c)
  <2>1. ToSet(Unresolved(c)) = {}
    <3>1. Unresolved(c) \in Seq(Event) /\ Len(Unresolved(c)) = Len(job[c].batch) - job[c].done
          /\ job[c].done = Len(job[c].batch) /\ job[c].done \in Nat
      BY <1>2, <1>9, HoldingTypes DEF Ends, IInv, TypeOK, Jobs, JobsWellFormed, WellFormed
    <3>2. Len(Unresolved(c)) = 0
      BY <3>1
    <3>3. Unresolved(c) = <<>>
      BY <3>1, <3>2
    <3> QED
      BY <3>3 DEF ToSet
  <2> QED
    BY <1>2, <1>3, <1>4, <1>9, <2>1 DEF Ends, Failing
<1> QED
  BY <1>1, <1>2, <1>5, <1>6, <1>7, <1>8, <1>9, FlushMoves DEF Flushes

\* flush() returns True only where it finds nothing queued and nothing in flight.
LEMMA TrueOnlyWhenDone ==
  ASSUME IInv, [Next]_vars, NEW c \in Callers, FlushReturnsTrue(c)
  PROVE  /\ pc[c] = "loop" /\ queue = <<>> /\ inflight = 0 /\ call[c].ok /\ wal = <<>>
         /\ UNCHANGED <<fate, taken>>
<1> USE DEF flags, counters, log, memory, history, control
<1>0. TypeOK /\ call \in [Threads -> CallStates] /\ Callers \subseteq Threads /\ c \in Threads
      /\ call[c].op = "flush" /\ call'[c].op = "none" /\ call'[c].result = "true"
  BY DEF IInv, TypeOK, Threads, FlushReturnsTrue
<1>1. UNCHANGED call => FALSE
  BY <1>0
<1>2. ASSUME NEW d, NEW k, call' = [call EXCEPT ![d] = k], k.op # "none" \/ k.result # "true"
      PROVE  FALSE
  BY <1>0, <1>2
<1>3. NoCall.result = "none"
  BY DEF NoCall
<1>4. ASSUME NEW d, NEW r \in {"true", "false"}, FlushReturns(d, r)
      PROVE  d = c /\ r = "true"
  <2>1. CASE call[d].op = "flush"
    <3>1. call' = [call EXCEPT ![d] = [NoCall EXCEPT !.result = r]]
      BY <1>4, <2>1 DEF FlushReturns
    <3>2. [NoCall EXCEPT !.result = r].result = r
      BY DEF NoCall
    <3>3. r = "true"
      BY <1>2, <3>1, <3>2
    <3>4. d = c
      BY <1>0, <3>1
    <3> QED
      BY <3>3, <3>4
  <2>2. CASE call[d].op # "flush"
    <3>1. call' = [call EXCEPT ![d] = NoCall] \/ UNCHANGED call
      BY <1>4, <2>2 DEF FlushReturns
    <3> QED
      BY <1>1, <1>2, <1>3, <3>1
  <2> QED
    BY <2>1, <2>2
<1>5. ASSUME NEW d, ShutdownReturns(d) PROVE FALSE
  BY <1>2, <1>3, <1>5 DEF ShutdownReturns
<1>6. CASE \E d \in Callers : Add(d) \/ FlushCalled(d) \/ ShutdownBegins(d) \/ EnsureWorker(d)
  <2>1. PICK d \in Callers : Add(d) \/ FlushCalled(d) \/ ShutdownBegins(d) \/ EnsureWorker(d)
    BY <1>6
  <2>2. \A o, l : [NoCall EXCEPT !.op = o, !.deadline = l].result = "none"
    BY DEF NoCall
  <2>3. [NoCall EXCEPT !.op = "add"].result = "none"
    BY DEF NoCall
  <2>4. CASE FlushCalled(d) \/ ShutdownBegins(d)
    <3>1. \E o, l : call' = [call EXCEPT ![d] = [NoCall EXCEPT !.op = o, !.deadline = l]]
      BY <2>4 DEF FlushCalled, ShutdownBegins
    <3> QED
      BY <1>2, <2>2, <3>1
  <2>5. CASE Add(d)
    BY <1>1, <1>2, <2>3, <2>5 DEF Add, AddRefused, AddOverflows, AddAccepted
  <2>6. CASE EnsureWorker(d)
    BY <1>1, <1>2, <1>3, <2>6 DEF EnsureWorker
  <2> QED
    BY <2>1, <2>4, <2>5, <2>6
<1>7. ASSUME NEW d \in Callers, FlushStep(d)
      PROVE  /\ pc[c] = "loop" /\ queue = <<>> /\ inflight = 0 /\ call[c].ok /\ wal = <<>>
             /\ UNCHANGED <<fate, taken>>
  <2>1. CASE FlushDone(d)
    <3>1. PICK r \in {"true", "false"} :
            FlushReturns(d, r) /\ (r = "true" => call[d].ok /\ wal = <<>>)
      BY <2>1 DEF FlushDone
    <3> QED
      BY <1>4, <2>1, <3>1 DEF FlushDone
  <2>2. CASE InflightDrained(d) \/ WaitTimesOut(d)
    BY <1>1, <1>4, <2>2 DEF InflightDrained, WaitTimesOut
  <2>3. CASE InflightWaits(d)
    BY <1>1, <2>3 DEF InflightWaits
  <2>4. CASE FlushStarts(d) \/ FlushTakes(d)
    <3>1. pc[d] \in {"flush", "loop"} /\ d \in Threads
      BY <1>0, <2>4 DEF FlushStarts, FlushTakes
    <3>2. call'[d].op = call[d].op /\ \A u \in Threads \ {d} : call'[u] = call[u]
      <4>1. CASE FlushStarts(d)
        <5>1. call' = [call EXCEPT ![d] = [call[d] EXCEPT !.ok = TRUE, !.owed = Outstanding,
                                                          !.mine = {}]]
          BY <4>1 DEF FlushStarts
        <5> QED
          BY <1>0, <3>1, <5>1 DEF CallStates
      <4>2. CASE FlushTakes(d)
        <5>1. call' = [call EXCEPT ![d] = [call[d] EXCEPT !.mine =
                                             call[d].mine \cup ToSet(job'[d].batch)]]
          BY <4>2 DEF FlushTakes
        <5> QED
          BY <1>0, <3>1, <5>1 DEF CallStates
      <4> QED
        BY <2>4, <4>1, <4>2
    <3> QED
      BY <1>0, <3>2
  <2> QED
    BY <1>7, <2>1, <2>2, <2>3, <2>4 DEF FlushStep
<1>8. CASE \E d \in Callers : ShutdownStep(d)
  BY <1>1, <1>5, <1>8
  DEF ShutdownStep, ShutdownJoins, ShutdownMarksFinite, ShutdownUnqueues, ShutdownLosesRest,
      ShutdownPersists, ShutdownConfirms, LosesTaken
<1>9. CASE \E d \in Callers : DeadlinePasses(d)
  <2>1. PICK d \in Callers : call' = [call EXCEPT ![d].deadline = "passed"]
    BY <1>9 DEF DeadlinePasses
  <2>2. call'[c].op = call[c].op
    BY <1>0, <2>1 DEF CallStates
  <2> QED
    BY <1>0, <2>2
<1>10. CASE \E t \in Threads : Replay(t)
  <2>1. PICK t \in Threads : Replay(t)
    BY <1>10
  <2>2. CASE ReplayFails(t)
    BY <1>1, <1>4, <2>2 DEF ReplayFails, RecoverFails
  <2> QED
    BY <1>1, <2>1, <2>2 DEF Replay, ReplayStarts, ReplayAnswered, ReplayDone, RecoverSucceeds
<1>11. CASE \E t \in Threads : Deliver(t)
  <2>1. PICK t \in Threads : Deliver(t)
    BY <1>11
  <2>2. CASE Finish(t)
    <3>1. call' = call \/ call' = [call EXCEPT ![t] = [call[t] EXCEPT !.ok = FALSE]]
      BY <2>2 DEF Finish
    <3>2. call'[c].op = call[c].op
      BY <1>0, <2>1, <3>1 DEF CallStates
    <3> QED
      BY <1>0, <3>2
  <2> QED
    BY <1>1, <2>1, <2>2
    DEF Deliver, SplitLimitReached, SendRefused, SendStarts, Accepted, BatchRejected,
        Rejected, Failed
<1>12. CASE WorkerStep \/ Tick \/ UNCHANGED vars
  BY <1>1, <1>12
  DEF WorkerStep, WorkerTakes, WorkerSkipsTick, WorkerWaits, WorkerStops, WorkerBacksOff,
      WorkerExits, Tick, vars
<1> QED
  BY <1>6, <1>7, <1>8, <1>9, <1>10, <1>11, <1>12 DEF Next

\* With nothing in flight no thread has events to send.
LEMMA NothingInFlight ==
  ASSUME IInv, BatchesBounded, InflightExact, inflight = 0, NEW t \in Threads
  PROVE  Unresolved(t) = <<>>
<1>1. InDispatch = {}
  BY DispatchFinite, FS_EmptySet DEF InflightExact, InDispatch
<1>2. DOMAIN job[t].batch = {} /\ job[t].batch \in Seq(Event)
  <2>1. \A i \in DOMAIN job[t].batch : <<t, i>> \in InDispatch
    BY DEF InDispatch
  <2> QED
    BY <1>1, <2>1 DEF IInv, TypeOK, Jobs
<1>3. Len(job[t].batch) = 0
  <2>1. \A s \in Seq(Event) : Len(s) # 0 => 1 \in DOMAIN s
    OBVIOUS
  <2> QED
    BY <1>2, <2>1
<1>4. Unresolved(t) \in Seq(Event) /\ Len(Unresolved(t)) = Len(job[t].batch) - job[t].done
      /\ job[t].done \in Nat /\ job[t].done <= Len(job[t].batch)
  BY HoldingTypes DEF IInv, TypeOK, Jobs, JobsWellFormed, WellFormed
<1>5. Len(Unresolved(t)) = 0
  BY <1>3, <1>4
<1> QED
  BY <1>4, <1>5

\* Then the flush's account is closed.
LEMMA HonestStep ==
  ASSUME FlushInv, BatchesBounded, [Next]_vars, NEW c \in Callers, FlushReturnsTrue(c)
  PROVE  /\ \A e \in call[c].owed :
              fate'[e] \in Gone \/ \E d \in Callers : e \in ToSet(taken[d])
         /\ \A e \in call[c].mine : fate'[e] = "delivered"
<1>1. /\ IInv /\ CustodyInv /\ InflightExact /\ MineDelivered /\ OwedKnown /\ c \in Threads
      /\ call[c] \in CallStates
  BY DEF FlushInv, CustodyInv, IInv, TypeOK, Threads
<1>2. /\ pc[c] = "loop" /\ queue = <<>> /\ inflight = 0 /\ call[c].ok /\ wal = <<>>
      /\ fate' = fate
  BY <1>1, TrueOnlyWhenDone
<1>3. \A t \in Threads : Unresolved(t) = <<>>
  BY <1>1, <1>2, NothingInFlight
<1>4. ASSUME NEW e \in call[c].mine PROVE fate'[e] = "delivered"
  <2>1. ~Failing(c)
    BY <1>2 DEF Failing, Late
  <2>2. e \notin ToSet(Unresolved(c))
    BY <1>1, <1>3 DEF ToSet
  <2> QED
    BY <1>1, <1>2, <1>4, <2>1, <2>2 DEF MineDelivered
<1>5. ASSUME NEW e \in call[c].owed
      PROVE  fate'[e] \in Gone \/ \E d \in Callers : e \in ToSet(taken[d])
  <2>1. e \in Event /\ fate[e] \in Fates \ {"new", "refused", "parent"}
    <3>1. e \in Event
      BY <1>1, <1>5 DEF CallStates
    <3> QED
      BY <1>1, <1>5, <3>1 DEF OwedKnown, IInv, TypeOK
  <2>2. CASE fate[e] = "stored"
    <3>1. EventsIn(wal) = {}
      BY <1>2 DEF EventsIn
    <3> QED
      BY <1>1, <2>1, <2>2, <3>1, CustodyFacts
  <2>3. CASE fate[e] = "held"
    <3>1. PICK h \in Holders : e \in ToSet(Holding[h])
      <4>1. e \in EventsIn(Holding) /\ DOMAIN Holding = Holders
        BY <1>1, <2>1, <2>3, CustodyFacts
      <4> QED
        BY <4>1 DEF EventsIn
    <3>2. ToSet(<<>>) = {}
      BY DEF ToSet
    <3>3. PICK d \in Callers : h = InHands(d)
      BY <1>2, <1>3, <3>1, <3>2, HoldersAre, HoldingIs
    <3>4. e \in ToSet(Unwritten(d))
      BY <3>1, <3>3, HoldingIs
    <3>5. e \in ToSet(taken[d])
      <4>1. taken[d] \in Seq(Event) /\ (pc[d] = "confirm" => taken[d] # <<>>)
        BY <1>1 DEF IInv, TypeOK, NothingStranded
      <4>2. CASE pc[d] = "confirm"
        <5>1. PICK s \in Seq(Event) : s = taken[d]
          BY <4>1
        <5>2. s # <<>> /\ e \in ToSet(Tail(s))
          BY <3>4, <4>1, <4>2, <5>1 DEF Unwritten
        <5>3. \A i \in DOMAIN Tail(s) : Tail(s)[i] = s[i + 1] /\ i + 1 \in DOMAIN s
          BY <5>2
        <5>4. e \in ToSet(s)
          BY <5>2, <5>3 DEF ToSet
        <5> QED
          BY <5>1, <5>4
      <4>3. CASE pc[d] # "confirm"
        BY <3>4, <4>3 DEF Unwritten
      <4> QED
        BY <4>2, <4>3
    <3> QED
      BY <3>5
  <2> QED
    BY <1>2, <2>1, <2>2, <2>3 DEF Fates, Gone
<1> QED
  BY <1>4, <1>5

\* A flush() that returns True has delivered every event it dispatched itself.  What was
\* owed when it began is in no queue, batch or log any more: it has an answer, which
\* need not be delivery (batch.py:177-181, transport.py:154), or a shutdown beside it
\* has it in hand (batch.py:391).  Adds, flushes, splits, failures and replays may run
\* beside it.
THEOREM FlushesDrain == SpecFork => FlushDrains
<1>1. Blank => FlushInv
  <2>1. SUFFICES ASSUME Blank PROVE FlushInv
    OBVIOUS
  <2>2. CustodyInv /\ InflightExact
    BY <2>1, BlankCustody, BlankInflight DEF InflightInv
  <2>3. \A c \in Callers : call[c].mine = {} /\ call[c].owed = {}
    BY <2>1 DEF Blank, NoCall, Threads
  <2> QED
    BY <2>2, <2>3 DEF FlushInv, MineDelivered, OwedKnown
<1>2. FlushInv /\ InflightExact' /\ [Next]_vars => FlushInv'
  BY CustodyStep, MineStep DEF FlushInv
<1>3. InflightInv => BatchesBounded /\ InflightExact
  BY DEF InflightInv
<1>4. Blank' => FlushInv'
  BY <1>1, PTL
<1>5. FlushInv /\ InflightExact' /\ [Next \/ \E c \in Callers : Fork(c)]_vars => FlushInv'
  BY <1>2, <1>4, ForkStep DEF Forks, FlushInv
<1>6. ASSUME FlushInv, BatchesBounded, [Next \/ Forks]_vars,
             NEW c \in Callers, FlushReturnsTrue(c)
      PROVE  /\ \A e \in call[c].owed :
                  fate'[e] \in Gone \/ \E d \in Callers : e \in ToSet(taken[d])
             /\ \A e \in call[c].mine : fate'[e] = "delivered"
  <2>1. ~Forks
    <3>1. SUFFICES ASSUME Forks PROVE FALSE
      OBVIOUS
    <3>2. Blank'
      BY <1>6, <3>1, ForkStep DEF FlushInv
    <3> QED
      BY <1>6, <3>2 DEF Blank, FlushReturnsTrue, NoCall, Threads
  <2> QED
    BY <1>6, <2>1, HonestStep
<1>7. FlushInv /\ BatchesBounded /\ [Next \/ \E c \in Callers : Fork(c)]_vars
        => [\A c \in Callers : FlushReturnsTrue(c) =>
              /\ \A e \in call[c].owed :
                   fate'[e] \in Gone \/ \E d \in Callers : e \in ToSet(taken[d])
              /\ \A e \in call[c].mine : fate'[e] = "delivered"]_vars
  BY <1>6 DEF Forks
<1> QED
  BY <1>1, <1>3, <1>5, <1>7, BeginsBlank, InflightInvariant, PTL DEF SpecFork, FlushDrains

-----------------------------------------------------------------------------
(* A child leaves the parent its events.                                   *)

\* What a fork left to the parent stays so.
LEMMA ParentsStay ==
  CustodyInv /\ [Next \/ Forks]_vars
    => \A e \in Event : fate[e] = "parent" => fate'[e] = "parent"
<1>1. ASSUME CustodyInv, [Next]_vars, NEW e \in Event, fate[e] = "parent"
      PROVE  fate'[e] = "parent"
  <2>1. Moved
    BY <1>1, EveryStepMoves
  <2> QED
    BY <1>1, <2>1, FatesStay
<1>2. ASSUME Forks, NEW e \in Event, fate[e] = "parent"
      PROVE  fate'[e] = "parent"
  BY <1>2 DEF Forks, Fork
<1> QED
  BY <1>1, <1>2

\* Only a fork leaves an event to a parent.
LEMMA NoneLeftBehind ==
  ASSUME Moved, NEW e \in Event, fate'[e] = "parent"
  PROVE  fate[e] = "parent"
<1>1. CASE UNCHANGED fate
  BY <1>1
<1>2. ASSUME NEW E, NEW f, f # "parent", fate' = SetFate(E, f)
      PROVE  fate[e] = "parent"
  BY <1>2 DEF SetFate
<1>3. ASSUME NEW g, NEW n, NEW f \in {"delivered", "lost", "stored"}, Leave(g, n, f)
      PROVE  fate[e] = "parent"
  BY <1>2, <1>3 DEF Leave
<1>4. CASE Idles \/ Passes \/ Splits \/ Posts
  BY <1>1, <1>4 DEF Idles, Passes, Splits, Posts
<1>5. CASE Refuses \/ Accepts \/ Replays
  <2>1. \E E : \E f \in {"refused", "lost", "held", "replayed", "rejected"} :
          fate' = SetFate(E, f)
    BY <1>5 DEF Refuses, Accepts, Replays
  <2> QED
    BY <1>2, <2>1
<1>6. CASE \E g \in Holders : \E n \in 1 .. Len(Holding[g]) : Settles(g, n) \/ Retains(g, n)
  BY <1>3, <1>6 DEF Settles, Retains
<1>7. CASE \E c \in Callers : Persists(c) \/ Recounts(c)
  BY <1>3, <1>7 DEF Persists, Recounts
<1> QED
  BY <1>4, <1>5, <1>6, <1>7 DEF Moved

\* A process that has a parent keeps no log.
ChildHasNoLog == (\E e \in Event : fate[e] = "parent") => ~enabled

LEMMA ChildStep ==
  ASSUME CustodyInv, ChildHasNoLog, [Next \/ Forks]_vars
  PROVE  ChildHasNoLog'
<1>1. CASE [Next]_vars
  <2>1. Moved /\ enabled' = enabled
    BY <1>1, EveryStepMoves, EnabledStays
  <2> QED
    BY <2>1, NoneLeftBehind DEF ChildHasNoLog
<1>2. CASE Forks
  BY <1>2 DEF Forks, Fork, LogDisabled, ChildHasNoLog
<1> QED
  BY <1>1, <1>2

\* However far a batch, a retry, a replay or a flush of the parent had come when it
\* forked, the child never has an event of the parent in hand, settles none, and
\* writes nothing to the log they may be in (batch.py:243-256, persistence.py:165-183).
THEOREM ParentsKeepTheirEvents == SpecFork => ParentKeepsItsEvents
<1>1. ASSUME CustodyInv, CustodyInv', ChildHasNoLog', [Next \/ Forks]_vars,
             NEW e \in Event, fate[e] = Parents
      PROVE  fate'[e] = Parents /\ e \notin HeldEvents' /\ wal' = <<>>
  <2>1. fate'[e] = "parent"
    BY <1>1, ParentsStay DEF Parents
  <2>2. HeldEvents' = {x \in Event : fate'[x] = "held"}
    BY <1>1 DEF CustodyInv, Conservation
  <2>3. ~enabled' /\ WriteAhead'
    BY <1>1, <2>1 DEF ChildHasNoLog, CustodyInv, IInv
  <2>4. wal' = <<>>
    BY <2>3 DEF WriteAhead
  <2> QED
    BY <2>1, <2>2, <2>4 DEF Parents
<1>2. CustodyInv /\ CustodyInv' /\ ChildHasNoLog' /\ [Next \/ \E c \in Callers : Fork(c)]_vars
        => [\A e \in Event :
              fate[e] = Parents =>
                fate'[e] = Parents /\ e \notin HeldEvents' /\ wal' = <<>>]_vars
  BY <1>1 DEF Forks
<1>3. Init => ChildHasNoLog
  BY DEF Init, ChildHasNoLog
<1>4. CustodyInv /\ ChildHasNoLog /\ [Next \/ \E c \in Callers : Fork(c)]_vars
        => ChildHasNoLog'
  BY ChildStep DEF Forks
<1> QED
  BY <1>2, <1>3, <1>4, CustodyInvariant, PTL DEF SpecFork, ParentKeepsItsEvents
=============================================================================
