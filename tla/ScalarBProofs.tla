---------------------------- MODULE ScalarBProofs ----------------------------
(***************************************************************************)
(* Proofs about ScalarB, for any number of cores, any thresholds and any   *)
(* set of nested values.                                                   *)
(***************************************************************************)
EXTENDS ScalarB, SlicesProofs

-----------------------------------------------------------------------------
(* Values and their cells.                                                 *)

\* The item of a cell, and whether it points to node m.
ItemOf(T, n, i) == T[n].items[i]
PointsTo(T, n, i, m) ==
  /\ n \in DOMAIN T /\ i \in DOMAIN T[n].items
  /\ ItemOf(T, n, i).nested /\ ItemOf(T, n, i).node = m

LEMMA TreeFacts ==
  ASSUME NEW T \in Trees
  PROVE  /\ DOMAIN T = 1 .. Len(T) /\ Len(T) \in Nat /\ Len(T) > 0
         /\ \A n \in DOMAIN T :
              /\ DOMAIN T[n].items = 1 .. Len(T[n].items) /\ Len(T[n].items) \in Nat \ {0}
              /\ T[n].empty \in BOOLEAN
              /\ T[n].empty => Len(T[n].items) = 1
              /\ \A i \in DOMAIN T[n].items :
                   /\ ItemOf(T, n, i).nested \in BOOLEAN
                   /\ T[n].empty => ~ItemOf(T, n, i).nested
<1>1. T \in Seq(NodeType) /\ T # <<>>
  BY ScalarAssumption DEF ScalarAssumption
<1>2. DOMAIN T = 1 .. Len(T) /\ Len(T) \in Nat /\ Len(T) > 0
  BY <1>1
<1>3. ASSUME NEW n \in DOMAIN T
      PROVE  /\ T[n].items \in Seq(ItemType) /\ T[n].empty \in BOOLEAN
             /\ Len(T[n].items) > 0
             /\ T[n].empty => Len(T[n].items) = 1 /\ ~T[n].items[1].nested
  <2>1. T[n] \in NodeType
    BY <1>1, <1>2, <1>3
  <2> QED BY <2>1, ScalarAssumption DEF NodeType, ScalarAssumption
<1>4. ASSUME NEW n \in DOMAIN T
      PROVE  /\ DOMAIN T[n].items = 1 .. Len(T[n].items) /\ Len(T[n].items) \in Nat \ {0}
             /\ \A i \in DOMAIN T[n].items : T[n].items[i] \in ItemType
  BY <1>3, <1>4
<1>5. ASSUME NEW n \in DOMAIN T, NEW i \in DOMAIN T[n].items
      PROVE  /\ ItemOf(T, n, i).nested \in BOOLEAN
             /\ T[n].empty => ~ItemOf(T, n, i).nested
  <2>1. T[n].empty => i = 1
    BY <1>3, <1>4, <1>5
  <2> QED BY <2>1, <1>3, <1>4, <1>5 DEF ItemOf, ItemType
<1> QED BY <1>2, <1>3, <1>4, <1>5

\* Items point to later nodes, each node belongs to one item.
LEMMA Parents ==
  ASSUME NEW T \in Trees, NEW n, NEW i, NEW m, PointsTo(T, n, i, m)
  PROVE  /\ m \in DOMAIN T /\ m # n /\ m # 1
         /\ \A k, j : PointsTo(T, k, j, m) => k = n /\ j = i
<1>1. m \in DOMAIN T /\ m > n
  BY ScalarAssumption DEF ScalarAssumption, PointsTo, ItemOf
<1>2. n \in 1 .. Len(T)
  BY TreeFacts DEF PointsTo
<1>3. ASSUME NEW k, NEW j, PointsTo(T, k, j, m)
      PROVE  k = n /\ j = i
  BY <1>3, ScalarAssumption DEF ScalarAssumption, PointsTo, ItemOf
<1> QED BY <1>1, <1>2, <1>3, TreeFacts

LEMMA CellFacts ==
  ASSUME NEW T \in Trees
  PROVE  /\ \A n, i : <<n, i>> \in Cell(T) <=> n \in DOMAIN T /\ i \in DOMAIN T[n].items
         /\ \A c \in Cell(T) : c = <<c[1], c[2]>>
  BY DEF Cell

-----------------------------------------------------------------------------
(* What has been computed, and what is queued.  js are the job lists, cs   *)
(* the cells of the results, and jb is the current job.                    *)

Entry(js, t, k) == t \in Thread /\ k \in DOMAIN js[t]
Queued(js, m) == \E t, k : Entry(js, t, k) /\ js[t][k] = m

\* No node is queued twice.
QueuedOnce(js) ==
  \A t, u, k, l : Entry(js, t, k) /\ Entry(js, u, l) /\ js[t][k] = js[u][l] => t = u /\ k = l

\* Nothing has been computed of node m, and it is not being computed.
Blank(T, cs, jb, m) == m # jb /\ \A i \in DOMAIN T[m].items : cs[<<m, i>>] = 0

\* A node is neither queued nor computed before the item that points to it.
Unborn(T, js, cs, jb) ==
  \A n, i, m : PointsTo(T, n, i, m) /\ cs[<<n, i>>] = 0 => Blank(T, cs, jb, m) /\ ~Queued(js, m)

Store(T, js, cs, jb) ==
  /\ js \in [Thread -> Seq(DOMAIN T)]
  /\ cs \in [Cell(T) -> Nat]
  /\ jb \in DOMAIN T \cup {0}
  /\ \A c \in Cell(T) : cs[c] <= 1
  /\ QueuedOnce(js)
  /\ \A m : Queued(js, m) => Blank(T, cs, jb, m)
  /\ Unborn(T, js, cs, jb)

\* One more for cell c.
Once(cs, c) == [cs EXCEPT ![c] = @ + 1]

\* Node m can be queued: nothing of it has been done, but its item has.
Born(T, js, cs, jb, m) ==
  /\ m \in DOMAIN T /\ Blank(T, cs, jb, m) /\ ~Queued(js, m)
  /\ \A n, i : PointsTo(T, n, i, m) => cs[<<n, i>>] # 0

LEMMA EntryType ==
  ASSUME NEW T \in Trees, NEW js \in [Thread -> Seq(DOMAIN T)]
  PROVE  /\ \A t, k : Entry(js, t, k) => js[t][k] \in DOMAIN T
         /\ \A m : Queued(js, m) => m \in DOMAIN T
<1>1. ASSUME NEW t, NEW k, Entry(js, t, k)
      PROVE  js[t][k] \in DOMAIN T
  <2>1. js[t] \in Seq(DOMAIN T)
    BY <1>1 DEF Entry
  <2> QED BY <2>1, <1>1 DEF Entry
<1> QED BY <1>1 DEF Queued

\* A cell of the current job is computed.
LEMMA WriteCell ==
  ASSUME NEW T \in Trees, NEW js, NEW cs, NEW jb \in DOMAIN T, NEW i \in DOMAIN T[jb].items,
         Store(T, js, cs, jb), cs[<<jb, i>>] = 0
  PROVE  LET new == Once(cs, <<jb, i>>) IN
         /\ Store(T, js, new, jb)
         /\ \A m : PointsTo(T, jb, i, m) => Born(T, js, new, jb, m)
         /\ new[<<jb, i>>] = 1 /\ \A c \in Cell(T) \ {<<jb, i>>} : new[c] = cs[c]
<1> DEFINE c == <<jb, i>>
           new == Once(cs, c)
<1>1. c \in Cell(T) /\ cs \in [Cell(T) -> Nat]
  BY CellFacts DEF Store
<1>2. new \in [Cell(T) -> Nat]
  BY <1>1 DEF Once
<1>3. new[c] = 1 /\ \A d \in Cell(T) \ {c} : new[d] = cs[d]
  BY <1>1 DEF Once
<1> HIDE DEF new
<1>4. \A m \in DOMAIN T : m # jb => \A j \in DOMAIN T[m].items : new[<<m, j>>] = cs[<<m, j>>]
  <2> SUFFICES ASSUME NEW m \in DOMAIN T, m # jb, NEW j \in DOMAIN T[m].items
               PROVE  new[<<m, j>>] = cs[<<m, j>>]
    OBVIOUS
  <2>1. <<m, j>> \in Cell(T) \ {c}
    BY CellFacts
  <2> QED BY <2>1, <1>3
<1>5. \A m \in DOMAIN T : Blank(T, cs, jb, m) => Blank(T, new, jb, m)
  BY <1>4 DEF Blank
<1>6. \A n, j : (\E m : PointsTo(T, n, j, m)) /\ new[<<n, j>>] = 0 => cs[<<n, j>>] = 0 /\ <<n, j>> # c
  <2> SUFFICES ASSUME NEW n, NEW j, NEW m, PointsTo(T, n, j, m), new[<<n, j>>] = 0
               PROVE  cs[<<n, j>>] = 0 /\ <<n, j>> # c
    OBVIOUS
  <2>1. <<n, j>> \in Cell(T)
    BY CellFacts DEF PointsTo
  <2> QED BY <2>1, <1>3
<1>7. Unborn(T, js, new, jb)
  <2> SUFFICES ASSUME NEW n, NEW j, NEW m, PointsTo(T, n, j, m), new[<<n, j>>] = 0
               PROVE  Blank(T, new, jb, m) /\ ~Queued(js, m)
    BY DEF Unborn
  <2>1. cs[<<n, j>>] = 0 /\ m \in DOMAIN T
    BY <1>6, Parents
  <2>2. Blank(T, cs, jb, m) /\ ~Queued(js, m)
    BY <2>1 DEF Store, Unborn
  <2> QED BY <2>1, <2>2, <1>5
<1>8. \A m : Queued(js, m) => Blank(T, new, jb, m)
  BY <1>5, EntryType DEF Store
<1>9. Store(T, js, new, jb)
  <2>1. \A d \in Cell(T) : new[d] <= 1
    <3>1. \A d \in Cell(T) : cs[d] <= 1
      BY DEF Store
    <3>2. \A d \in Cell(T) : new[d] = 1 \/ new[d] = cs[d]
      BY <1>3
    <3> QED BY <3>1, <3>2
  <2> QED BY <1>2, <2>1, <1>7, <1>8 DEF Store
<1>10. ASSUME NEW m, PointsTo(T, jb, i, m)
       PROVE  Born(T, js, new, jb, m)
  <2>1. Blank(T, cs, jb, m) /\ ~Queued(js, m)
    BY <1>10 DEF Store, Unborn
  <2>2. m \in DOMAIN T /\ \A n, j : PointsTo(T, n, j, m) => n = jb /\ j = i
    BY <1>10, Parents
  <2> QED BY <2>1, <2>2, <1>3, <1>5 DEF Born
<1> QED BY <1>3, <1>9, <1>10 DEF new

LEMMA Appended ==
  ASSUME NEW S, NEW s \in Seq(S), NEW e \in S
  PROVE  /\ Append(s, e) \in Seq(S) /\ Len(s) \in Nat
         /\ DOMAIN s = 1 .. Len(s) /\ DOMAIN Append(s, e) = 1 .. Len(s) + 1
         /\ \A k \in 1 .. Len(s) : Append(s, e)[k] = s[k]
         /\ Append(s, e)[Len(s) + 1] = e
  OBVIOUS

\* A node is queued.
LEMMA QueueNode ==
  ASSUME NEW T \in Trees, NEW js, NEW cs, NEW jb, NEW m, NEW t \in Thread,
         Store(T, js, cs, jb), Born(T, js, cs, jb, m)
  PROVE  Store(T, [js EXCEPT ![t] = Append(@, m)], cs, jb)
<1> DEFINE new == [js EXCEPT ![t] = Append(@, m)]
           last == Len(js[t]) + 1
<1>1. js \in [Thread -> Seq(DOMAIN T)] /\ m \in DOMAIN T
  BY DEF Store, Born
<1>2. /\ Append(js[t], m) \in Seq(DOMAIN T) /\ Len(js[t]) \in Nat
      /\ DOMAIN js[t] = 1 .. Len(js[t]) /\ DOMAIN Append(js[t], m) = 1 .. last
      /\ \A k \in 1 .. Len(js[t]) : Append(js[t], m)[k] = js[t][k]
      /\ Append(js[t], m)[last] = m
  BY <1>1, Appended
<1>3. new \in [Thread -> Seq(DOMAIN T)] /\ new[t] = Append(js[t], m)
      /\ \A u \in Thread \ {t} : new[u] = js[u]
  BY <1>1, <1>2
<1> HIDE DEF new, last
<1>4. \A u, k : Entry(new, u, k) <=> Entry(js, u, k) \/ (u = t /\ k = last)
  <2>1. \A k : k \in DOMAIN new[t] <=> k \in DOMAIN js[t] \/ k = last
    BY <1>2, <1>3 DEF last
  <2>2. \A u \in Thread : u # t => DOMAIN new[u] = DOMAIN js[u]
    BY <1>3
  <2> QED BY <2>1, <2>2 DEF Entry
<1>5. \A u, k : Entry(js, u, k) => new[u][k] = js[u][k] /\ ~(u = t /\ k = last)
  <2>1. \A k \in DOMAIN js[t] : new[t][k] = js[t][k] /\ k # last
    BY <1>2, <1>3 DEF last
  <2>2. \A u \in Thread : u # t => new[u] = js[u]
    BY <1>3
  <2> QED BY <2>1, <2>2 DEF Entry
<1>6. new[t][last] = m
  BY <1>2, <1>3
<1>7. \A n : Queued(new, n) <=> Queued(js, n) \/ n = m
  BY <1>4, <1>5, <1>6 DEF Queued
<1>8. \A u, k : Entry(js, u, k) => js[u][k] # m
  BY DEF Born, Queued
<1>9. QueuedOnce(new)
  <2> SUFFICES ASSUME NEW u, NEW v, NEW k, NEW l, Entry(new, u, k), Entry(new, v, l), new[u][k] = new[v][l]
               PROVE  u = v /\ k = l
    BY DEF QueuedOnce
  <2>1. CASE Entry(js, u, k) /\ Entry(js, v, l)
    <3>1. js[u][k] = js[v][l]
      BY <1>5, <2>1
    <3> QED BY <2>1, <3>1 DEF Store, QueuedOnce
  <2>2. CASE Entry(js, u, k) /\ v = t /\ l = last
    <3>1. js[u][k] = m
      BY <1>5, <1>6, <2>2
    <3> QED BY <1>8, <2>2, <3>1
  <2>3. CASE u = t /\ k = last /\ Entry(js, v, l)
    <3>1. js[v][l] = m
      BY <1>5, <1>6, <2>3
    <3> QED BY <1>8, <2>3, <3>1
  <2>4. CASE u = t /\ k = last /\ v = t /\ l = last
    BY <2>4
  <2> QED BY <1>4, <2>1, <2>2, <2>3, <2>4
<1>10. \A n : Queued(new, n) => Blank(T, cs, jb, n)
  BY <1>7 DEF Store, Born
<1>11. Unborn(T, new, cs, jb)
  <2> SUFFICES ASSUME NEW n, NEW i, NEW c, PointsTo(T, n, i, c), cs[<<n, i>>] = 0
               PROVE  Blank(T, cs, jb, c) /\ ~Queued(new, c)
    BY DEF Unborn
  <2>1. Blank(T, cs, jb, c) /\ ~Queued(js, c)
    BY DEF Store, Unborn
  <2>2. c # m
    BY DEF Born
  <2> QED BY <2>1, <2>2, <1>7
<1>12. Store(T, new, cs, jb)
  BY <1>3, <1>9, <1>10, <1>11 DEF Store
<1> QED BY <1>12 DEF new

\* The cells of an empty node are computed at once.
LEMMA FillNode ==
  ASSUME NEW T \in Trees, NEW js, NEW cs, NEW jb, NEW m,
         Store(T, js, cs, jb), Born(T, js, cs, jb, m), T[m].empty
  PROVE  Store(T, js, [c \in DOMAIN cs |-> IF c[1] = m THEN cs[c] + 1 ELSE cs[c]], jb)
<1> DEFINE new == [c \in DOMAIN cs |-> IF c[1] = m THEN cs[c] + 1 ELSE cs[c]]
<1>1. cs \in [Cell(T) -> Nat] /\ \A c \in Cell(T) : cs[c] <= 1
  BY DEF Store
<1>2. new \in [Cell(T) -> Nat] /\ \A c \in Cell(T) : new[c] = IF c[1] = m THEN cs[c] + 1 ELSE cs[c]
  BY <1>1
<1> HIDE DEF new
<1>3. \A c \in Cell(T) : c[1] = m => cs[c] = 0
  <2> SUFFICES ASSUME NEW c \in Cell(T), c[1] = m PROVE cs[c] = 0
    OBVIOUS
  <2>1. c = <<m, c[2]>> /\ c[2] \in DOMAIN T[m].items
    BY CellFacts
  <2> QED BY <2>1 DEF Born, Blank
<1>4. \A c \in Cell(T) : new[c] <= 1
  BY <1>1, <1>2, <1>3
<1>5. \A n \in DOMAIN T : n # m => \A i \in DOMAIN T[n].items : new[<<n, i>>] = cs[<<n, i>>]
  <2> SUFFICES ASSUME NEW n \in DOMAIN T, n # m, NEW i \in DOMAIN T[n].items
               PROVE  new[<<n, i>>] = cs[<<n, i>>]
    OBVIOUS
  <2>1. <<n, i>> \in Cell(T) /\ <<n, i>>[1] = n
    BY CellFacts
  <2> QED BY <2>1, <1>2
<1>6. \A n \in DOMAIN T \ {m} : Blank(T, cs, jb, n) => Blank(T, new, jb, n)
  BY <1>5 DEF Blank
<1>7. \A n : Queued(js, n) => Blank(T, new, jb, n)
  <2> SUFFICES ASSUME NEW n, Queued(js, n) PROVE Blank(T, new, jb, n)
    OBVIOUS
  <2>1. n \in DOMAIN T \ {m}
    BY EntryType DEF Store, Born
  <2> QED BY <2>1, <1>6 DEF Store
<1>8. Unborn(T, js, new, jb)
  <2> SUFFICES ASSUME NEW n, NEW i, NEW c, PointsTo(T, n, i, c), new[<<n, i>>] = 0
               PROVE  Blank(T, new, jb, c) /\ ~Queued(js, c)
    BY DEF Unborn
  <2>1. n # m
    BY TreeFacts DEF PointsTo
  <2>2. cs[<<n, i>>] = 0
    BY <2>1, <1>5 DEF PointsTo
  <2>3. Blank(T, cs, jb, c) /\ ~Queued(js, c) /\ c # m /\ c \in DOMAIN T
    BY <2>2, Parents DEF Store, Unborn, Born
  <2> QED BY <2>3, <1>6
<1>9. Store(T, js, new, jb)
  BY <1>2, <1>4, <1>7, <1>8 DEF Store
<1> QED BY <1>9 DEF new

LEMMA Shortened ==
  ASSUME NEW S, NEW s \in Seq(S), s # <<>>
  PROVE  /\ SubSeq(s, 1, Len(s) - 1) \in Seq(S) /\ Len(s) \in Nat \ {0}
         /\ DOMAIN s = 1 .. Len(s) /\ DOMAIN SubSeq(s, 1, Len(s) - 1) = 1 .. Len(s) - 1
         /\ \A k \in 1 .. Len(s) - 1 : SubSeq(s, 1, Len(s) - 1)[k] = s[k]
         /\ s[Len(s)] \in S
  OBVIOUS

\* The last node of a list is taken as the next job.
LEMMA TakeNode ==
  ASSUME NEW T \in Trees, NEW js, NEW cs, NEW t \in Thread, Store(T, js, cs, 0), js[t] # <<>>
  PROVE  LET jb == js[t][Len(js[t])] IN
         /\ jb \in DOMAIN T
         /\ \A i \in DOMAIN T[jb].items : cs[<<jb, i>>] = 0
         /\ Store(T, [js EXCEPT ![t] = SubSeq(@, 1, Len(@) - 1)], cs, jb)
<1> DEFINE new == [js EXCEPT ![t] = SubSeq(@, 1, Len(@) - 1)]
           last == Len(js[t])
           jb == js[t][last]
<1>1. js \in [Thread -> Seq(DOMAIN T)]
  BY DEF Store
<1>2. /\ SubSeq(js[t], 1, last - 1) \in Seq(DOMAIN T) /\ last \in Nat \ {0}
      /\ DOMAIN js[t] = 1 .. last /\ DOMAIN SubSeq(js[t], 1, last - 1) = 1 .. last - 1
      /\ \A k \in 1 .. last - 1 : SubSeq(js[t], 1, last - 1)[k] = js[t][k]
      /\ jb \in DOMAIN T
  BY <1>1, Shortened
<1>3. new \in [Thread -> Seq(DOMAIN T)] /\ new[t] = SubSeq(js[t], 1, last - 1)
      /\ \A u \in Thread \ {t} : new[u] = js[u]
  BY <1>1, <1>2
<1> HIDE DEF new, last
<1>4. \A u, k : Entry(new, u, k) => Entry(js, u, k) /\ new[u][k] = js[u][k] /\ ~(u = t /\ k = last)
  <2>1. ASSUME NEW k \in DOMAIN new[t]
        PROVE  k \in DOMAIN js[t] /\ new[t][k] = js[t][k] /\ k # last
    <3>1. DOMAIN new[t] = 1 .. last - 1
      BY <1>2, <1>3
    <3>2. k \in 1 .. last - 1 /\ last \in Nat \ {0}
      BY <1>2, <2>1, <3>1
    <3>3. k \in 1 .. last /\ k # last
      BY <3>2
    <3> QED BY <1>2, <1>3, <3>2, <3>3
  <2>2. \A u \in Thread : u # t => new[u] = js[u]
    BY <1>3
  <2> QED BY <2>1, <2>2 DEF Entry
<1>5. Entry(js, t, last)
  BY <1>2 DEF Entry
<1> HIDE DEF jb
<1>6. jb = js[t][last]
  BY DEF jb
<1>7. \A n : Queued(new, n) => Queued(js, n) /\ n # jb
  <2> SUFFICES ASSUME NEW n, Queued(new, n) PROVE Queued(js, n) /\ n # jb
    OBVIOUS
  <2>1. PICK u, k : Entry(new, u, k) /\ new[u][k] = n
    BY DEF Queued
  <2>2. Entry(js, u, k) /\ js[u][k] = n /\ ~(u = t /\ k = last)
    BY <1>4, <2>1
  <2> QED BY <2>2, <1>5, <1>6 DEF Store, QueuedOnce, Queued
<1>8. Queued(js, jb)
  BY <1>5, <1>6 DEF Queued
<1>9. \A n : Blank(T, cs, 0, n) /\ n # jb => Blank(T, cs, jb, n)
  BY DEF Blank
<1>10. QueuedOnce(new)
  BY <1>4 DEF Store, QueuedOnce
<1>11. \A n : Queued(new, n) => Blank(T, cs, jb, n)
  BY <1>7, <1>9 DEF Store
<1>12. Unborn(T, new, cs, jb)
  <2> SUFFICES ASSUME NEW n, NEW i, NEW c, PointsTo(T, n, i, c), cs[<<n, i>>] = 0
               PROVE  Blank(T, cs, jb, c) /\ ~Queued(new, c)
    BY DEF Unborn
  <2>1. Blank(T, cs, 0, c) /\ ~Queued(js, c)
    BY DEF Store, Unborn
  <2> QED BY <2>1, <1>7, <1>8, <1>9
<1>13. Store(T, new, cs, jb)
  BY <1>2, <1>3, <1>10, <1>11, <1>12 DEF Store
<1>14. \A i \in DOMAIN T[jb].items : cs[<<jb, i>>] = 0
  BY <1>8 DEF Store, Blank
<1> QED BY <1>2, <1>13, <1>14 DEF new, jb, last

\* The job is done, or the lists are cancelled.
LEMMA Dropped ==
  ASSUME NEW T \in Trees, NEW js, NEW cs, NEW jb, Store(T, js, cs, jb)
  PROVE  Store(T, js, cs, 0) /\ Store(T, NoJobs, cs, 0)
<1>1. \A m : Queued(js, m) => m # 0
  BY EntryType, TreeFacts DEF Store
<1>2. \A n, i, m : PointsTo(T, n, i, m) => m # 0
  BY Parents, TreeFacts
<1>3. \A m : Blank(T, cs, jb, m) /\ m # 0 => Blank(T, cs, 0, m)
  BY DEF Blank
<1>4. Store(T, js, cs, 0)
  BY <1>1, <1>2, <1>3 DEF Store, Unborn
<1>5. NoJobs \in [Thread -> Seq(DOMAIN T)] /\ \A m : ~Queued(NoJobs, m)
  <2>1. <<>> \in Seq(DOMAIN T) /\ DOMAIN <<>> = {}
    OBVIOUS
  <2> QED BY <2>1 DEF NoJobs, Queued, Entry
<1>6. QueuedOnce(NoJobs)
  BY <1>5 DEF QueuedOnce, Queued
<1>7. Unborn(T, NoJobs, cs, 0)
  BY <1>4, <1>5 DEF Store, Unborn
<1> QED BY <1>4, <1>5, <1>6, <1>7 DEF Store

\* An evaluation starts with the value itself.
LEMMA Fresh ==
  ASSUME NEW T \in Trees
  PROVE  /\ Store(T, NoJobs, Unwritten(T), 0)
         /\ Store(T, [NoJobs EXCEPT ![Master] = <<1>>], Unwritten(T), 0)
<1> DEFINE cs == Unwritten(T)
<1>1. cs \in [Cell(T) -> Nat] /\ \A c \in Cell(T) : cs[c] = 0
  BY DEF Unwritten
<1>2. NoJobs \in [Thread -> Seq(DOMAIN T)] /\ \A m : ~Queued(NoJobs, m)
  <2>1. <<>> \in Seq(DOMAIN T) /\ DOMAIN <<>> = {}
    OBVIOUS
  <2> QED BY <2>1 DEF NoJobs, Queued, Entry
<1>3. \A m \in DOMAIN T : Blank(T, cs, 0, m)
  <2>1. \A m \in DOMAIN T : m # 0
    BY TreeFacts
  <2> QED BY <2>1, <1>1, CellFacts DEF Blank
<1> HIDE DEF cs
<1>4. QueuedOnce(NoJobs)
  BY <1>2 DEF QueuedOnce, Queued
<1>5. Unborn(T, NoJobs, cs, 0)
  BY <1>2, <1>3, Parents DEF Unborn
<1>6. \A c \in Cell(T) : cs[c] <= 1
  BY <1>1
<1>7. Store(T, NoJobs, cs, 0)
  BY <1>1, <1>2, <1>4, <1>5, <1>6 DEF Store
<1>8. Born(T, NoJobs, cs, 0, 1)
  BY <1>2, <1>3, Parents, TreeFacts DEF Born
<1>9. [NoJobs EXCEPT ![Master] = Append(@, 1)] = [NoJobs EXCEPT ![Master] = <<1>>]
  BY CoresType DEF NoJobs
<1> QED BY <1>7, <1>8, <1>9, CoresType, QueueNode DEF cs

-----------------------------------------------------------------------------
(* The invariant.                                                          *)

PC == {"idle", "item", "test", "retry", "undo", "add", "added"}

Kinds ==
  /\ tree \in Trees /\ threshold \in Thresholds /\ shared \in BOOLEAN
  /\ mpc \in {"start", "pick", "loop", "join", "failed", "result"}
  /\ tpc \in [Thread -> PC]
  /\ pos \in [Thread -> Nat]
  /\ mine \in [Thread -> ErrorCode] /\ error \in ErrorCode /\ ec \in ErrorCode

\* There is a job while one is done, and threads share it only then.
Working ==
  /\ mpc \in {"loop", "join"} <=> job # 0
  /\ mpc # "join" => \A t \in Thread : tpc[t] = "idle"

\* jobs_lock counts the threads that have added to it.
Adding == {t \in Thread : tpc[t] \in {"undo", "add", "added"}}
Locked == lock = Cardinality(Adding)

Count == Len(Items(job))

\* The master has computed nothing behind its position.
MasterAhead ==
  mpc = "loop" => \A i \in DOMAIN Items(job) : pos[Master] < i => cells[<<job, i>>] = 0

\* Nor has thread t in the rest of its slice, and an item that it takes the
\* lock for is nested.
Passed(t) == IF tpc[t] \in {"test", "added"} THEN pos[t] + 1 ELSE pos[t]
Ahead(t) ==
  tpc[t] # "idle" =>
    /\ SliceFirst(t, Count) <= pos[t]
    /\ tpc[t] # "item" => pos[t] < SliceLast(t, Count)
    /\ tpc[t] \in {"retry", "undo", "add", "added"} => Item(t).nested
    /\ \A i \in DOMAIN Items(job) :
         Passed(t) < i /\ i <= SliceLast(t, Count) => cells[<<job, i>>] = 0
ThreadsAhead == mpc = "join" => \A t \in Thread : Ahead(t)

\* An error that is reported was returned for an item.
Cause(e) ==
  \E n \in DOMAIN tree : \E i \in DOMAIN tree[n].items :
     LET item == tree[n].items[i] IN ~item.nested /\ item.result = e
ErrorHasCause == mpc = "join" => error = OK \/ Cause(error)

Stored == Store(tree, jobs, cells, job)

IInv ==
  /\ Kinds /\ Working /\ Stored
  /\ Locked /\ OneAdder
  /\ MasterAhead /\ ThreadsAhead
  /\ ErrorHasCause /\ ErrorIsReal
  /\ NoJobLeftOver

LEMMA Codes ==
  /\ OK \in ErrorCode
  /\ \A T \in Trees : \A n \in DOMAIN T : \A i \in DOMAIN T[n].items :
       T[n].items[i].result \in ErrorCode
<1>1. ASSUME NEW T \in Trees, NEW n \in DOMAIN T, NEW i \in DOMAIN T[n].items
      PROVE  T[n].items[i].result \in ErrorCode
  <2>1. T[n].items[i].result \in CodesOf(T[n].items)
    BY DEF CodesOf
  <2> DEFINE ofTree(S) == UNION { CodesOf(S[k].items) : k \in DOMAIN S }
  <2>2. T[n].items[i].result \in ofTree(T)
    BY <2>1
  <2> HIDE DEF ofTree
  <2>3. T[n].items[i].result \in UNION { ofTree(S) : S \in Trees }
    BY <2>2
  <2> QED BY <2>3 DEF ErrorCode, ofTree
<1> QED BY <1>1 DEF ErrorCode

-----------------------------------------------------------------------------
(* The lock.                                                               *)

LEMMA ThreadsFinite == \A S \in SUBSET Thread : IsFiniteSet(S) /\ Cardinality(S) \in 0 .. Cores
<1>1. IsFiniteSet(Thread) /\ Cardinality(Thread) = Cores
  <2>1. IsFiniteSet(0 .. Cores-1) /\ Cardinality(0 .. Cores-1) =
          IF 0 > Cores-1 THEN 0 ELSE Cores-1 - 0 + 1
    BY CoresType, FS_Interval
  <2> QED BY <2>1, CoresType DEF Thread
<1>2. ASSUME NEW S \in SUBSET Thread
      PROVE  IsFiniteSet(S) /\ Cardinality(S) \in 0 .. Cores
  <2>1. IsFiniteSet(S) /\ Cardinality(S) <= Cores
    BY <1>1, FS_Subset
  <2>2. Cardinality(S) \in Nat
    BY <2>1, FS_CardinalityType
  <2> QED BY <2>1, <2>2, CoresType
<1> QED BY <1>2

\* A thread enters or leaves the set of those that have added to the lock.
LEMMA EnterLeave ==
  ASSUME NEW S \in SUBSET Thread, NEW t \in Thread
  PROVE  /\ t \notin S => Cardinality(S \cup {t}) = Cardinality(S) + 1
         /\ t \in S => Cardinality(S \ {t}) = Cardinality(S) - 1
         /\ Cardinality(S) = 0 => S = {}
<1>1. IsFiniteSet(S) /\ Cardinality(S) \in Nat
  BY ThreadsFinite, CoresType
<1> QED BY <1>1, FS_AddElement, FS_RemoveElement, FS_EmptySet

LEMMA LockStep ==
  ASSUME Kinds, Working, Locked, OneAdder, Next
  PROVE  Locked' /\ OneAdder'
<1> USE DEF Kinds
<1>1. Adding \in SUBSET Thread
  BY DEF Adding
<1>2. CASE UNCHANGED <<tpc, lock>>
  BY <1>2 DEF Locked, OneAdder, Adding, InLock
<1>3. ASSUME mpc # "join", \A t \in Thread : tpc'[t] \in {"idle", "item"}, lock' = lock
      PROVE  Locked' /\ OneAdder'
  <2>1. Adding = {} /\ Adding' = {}
    BY <1>3 DEF Adding, Working
  <2> QED BY <1>3, <2>1 DEF Locked, OneAdder, InLock
<1>4. ASSUME NEW t \in Thread, NEW p \in PC, tpc' = [tpc EXCEPT ![t] = p]
      PROVE  /\ tpc' \in [Thread -> PC]
             /\ \A u \in Thread : tpc'[u] = IF u = t THEN p ELSE tpc[u]
             /\ Adding' = IF p \in {"undo", "add", "added"} THEN Adding \cup {t} ELSE Adding \ {t}
  <2>1. \A u \in Thread : tpc'[u] = IF u = t THEN p ELSE tpc[u]
    BY <1>4
  <2> QED BY <1>4, <2>1 DEF Adding
<1>5. ASSUME NEW t \in Thread, NEW p \in {"idle", "item", "test", "retry"},
             tpc[t] \notin {"undo", "add", "added"}, tpc' = [tpc EXCEPT ![t] = p], lock' = lock
      PROVE  Locked' /\ OneAdder'
  <2>1. Adding' = Adding \ {t} /\ t \notin Adding /\ \A u \in Thread : InLock(u)' => InLock(u)
    BY <1>4, <1>5 DEF Adding, InLock, PC
  <2>2. Adding' = Adding
    BY <2>1
  <2> QED BY <1>5, <2>1, <2>2 DEF Locked, OneAdder
<1>6. ASSUME NEW t \in Thread, PFAcquire(t)
      PROVE  Locked' /\ OneAdder'
  <2> DEFINE p == IF lock = 0 THEN "add" ELSE "undo"
  <2>1. tpc' = [tpc EXCEPT ![t] = p] /\ lock' = lock + 1 /\ p \in PC
        /\ p \in {"undo", "add", "added"} /\ tpc[t] \in {"item", "retry"}
    BY <1>6 DEF PFAcquire, PC
  <2>2. Adding' = Adding \cup {t} /\ t \notin Adding
    BY <2>1, <1>4 DEF Adding
  <2>3. Locked'
    BY <1>1, <2>1, <2>2, EnterLeave DEF Locked
  <2>4. lock = 0 => \A u \in Thread : ~InLock(u)
    BY <1>1, EnterLeave DEF Locked, Adding, InLock
  <2>5. OneAdder'
    BY <2>1, <1>4, <2>4 DEF OneAdder, InLock
  <2> QED BY <2>3, <2>5
<1>7. ASSUME NEW t \in Thread, NEW p \in {"retry", "item"}, tpc[t] \in {"undo", "added"},
             tpc' = [tpc EXCEPT ![t] = p], lock' = lock - 1
      PROVE  Locked' /\ OneAdder'
  <2>0. p \in PC /\ p \notin {"undo", "add", "added"}
    BY <1>7 DEF PC
  <2>1. Adding' = Adding \ {t} /\ t \in Adding
    BY <2>0, <1>4, <1>7 DEF Adding
  <2>2. \A u \in Thread : InLock(u)' => InLock(u)
    BY <2>0, <1>4, <1>7 DEF InLock
  <2>3. Locked'
    BY <1>1, <1>7, <2>1, EnterLeave DEF Locked
  <2> QED BY <2>2, <2>3 DEF OneAdder
<1>8. ASSUME NEW t \in Thread, PFAdd(t)
      PROVE  Locked' /\ OneAdder'
  <2>1. tpc' = [tpc EXCEPT ![t] = "added"] /\ lock' = lock /\ tpc[t] = "add" /\ "added" \in PC
    BY <1>8 DEF PFAdd, PC
  <2>2. Adding' = Adding \cup {t} /\ t \in Adding /\ \A u \in Thread : InLock(u)' => InLock(u)
    BY <1>4, <2>1 DEF Adding, InLock
  <2>3. Adding' = Adding
    BY <2>2
  <2> QED BY <2>1, <2>2, <2>3 DEF Locked, OneAdder
<1>9. ASSUME NEW t \in Thread, PickJob(t)
      PROVE  Locked' /\ OneAdder'
  <2>1. mpc # "join" /\ lock' = lock /\ \A u \in Thread : tpc[u] = "idle"
    BY <1>9 DEF PickJob, Working
  <2>2. \A u \in Thread : tpc'[u] \in {"idle", "item"}
    BY <1>9, <2>1 DEF PickJob
  <2> QED BY <2>1, <2>2, <1>3
<1>10. ASSUME NEW t \in Thread, PF(t)
       PROVE  Locked' /\ OneAdder'
  <2>1. CASE PFSimple(t)
    BY <2>1, <1>5 DEF PFSimple
  <2>2. CASE PFTest(t)
    BY <2>2, <1>5 DEF PFTest
  <2>3. CASE PFUndo(t)
    BY <2>3, <1>7 DEF PFUndo
  <2>4. CASE PFRelease(t)
    BY <2>4, <1>7 DEF PFRelease
  <2>5. CASE PFEnd(t)
    BY <2>5, <1>5 DEF PFEnd
  <2> QED BY <1>10, <1>6, <1>8, <2>1, <2>2, <2>3, <2>4, <2>5 DEF PF
<1>11. CASE Start
  BY <1>11, <1>2 DEF Start
<1>12. CASE AllDone \/ SeqNested \/ SeqSimple \/ SeqEnd \/ Join \/ Throw \/ Return
  BY <1>12, <1>2 DEF AllDone, SeqNested, SeqSimple, SeqEnd, Join, Throw, Return
<1> QED BY <1>9, <1>10, <1>11, <1>12 DEF Next, Evaluate

-----------------------------------------------------------------------------
(* Items.                                                                  *)

LEMMA JobFacts ==
  ASSUME IInv
  PROVE  /\ job \in DOMAIN tree \cup {0} /\ (job = 0 <=> job \notin DOMAIN tree)
         /\ job # 0 => Count \in Nat /\ DOMAIN Items(job) = 1 .. Count
                       /\ Items(job) = tree[job].items
  BY TreeFacts DEF IInv, Kinds, Stored, Store, Count, Items

\* The item at which a thread is.
AtItem(t) == tpc[t] # "idle" /\ (tpc[t] = "item" => ~AtEnd(t))

LEMMA ItemFacts ==
  ASSUME IInv, NEW t \in Thread, AtItem(t)
  PROVE  /\ mpc = "join" /\ job \in DOMAIN tree /\ pos[t] \in Nat
         /\ SliceFirst(t, Count) <= pos[t] /\ pos[t] < SliceLast(t, Count)
         /\ pos[t] + 1 \in DOMAIN tree[job].items
         /\ Item(t) = ItemOf(tree, job, pos[t] + 1)
         /\ tpc[t] \notin {"test", "added"} => cells[<<job, pos[t] + 1>>] = 0
         /\ tpc[t] \in {"retry", "undo", "add", "added"} => Item(t).nested
<1>1. mpc = "join" /\ job # 0 /\ pos[t] \in Nat
  BY DEF IInv, Working, Kinds, AtItem
<1>2. Ahead(t)
  BY <1>1 DEF IInv, ThreadsAhead
<1>3. job \in DOMAIN tree /\ Count \in Nat /\ DOMAIN Items(job) = 1 .. Count
      /\ Items(job) = tree[job].items
  BY <1>1, JobFacts
<1>4. SliceLast(t, Count) \in Nat /\ SliceLast(t, Count) <= Count
  BY <1>3, SlicesDisjoint
<1>5. pos[t] < SliceLast(t, Count)
  <2>1. CASE tpc[t] = "item"
    BY <1>1, <1>4, <2>1 DEF AtItem, AtEnd, Count
  <2>2. CASE tpc[t] # "item"
    BY <1>2, <2>2 DEF AtItem, Ahead
  <2> QED BY <2>1, <2>2
<1>6. pos[t] + 1 \in 1 .. Count /\ pos[t] < pos[t] + 1 /\ pos[t] + 1 <= SliceLast(t, Count)
  BY <1>1, <1>3, <1>4, <1>5
<1>7. tpc[t] \notin {"test", "added"} => cells[<<job, pos[t] + 1>>] = 0
  BY <1>2, <1>3, <1>6 DEF Ahead, Passed, AtItem
<1>8. Item(t) = ItemOf(tree, job, pos[t] + 1)
  BY <1>3 DEF Item, ItemOf
<1> QED BY <1>1, <1>2, <1>3, <1>5, <1>6, <1>7, <1>8 DEF Ahead, AtItem

\* What a thread does to its item is of no concern to the others.
LEMMA OthersAhead ==
  ASSUME IInv, NEW t \in Thread, mpc = "join",
         UNCHANGED <<tree, job>>,
         \A u \in Thread \ {t} : tpc'[u] = tpc[u] /\ pos'[u] = pos[u],
         \/ cells' = cells
         \/ AtItem(t) /\ \A i \in DOMAIN Items(job) :
                           i # pos[t] + 1 => cells'[<<job, i>>] = cells[<<job, i>>]
  PROVE  \A u \in Thread \ {t} : Ahead(u)'
<1> SUFFICES ASSUME NEW u \in Thread \ {t}, tpc[u] # "idle"
             PROVE  Ahead(u)'
  BY DEF Ahead
<1>1. Ahead(u) /\ tpc'[u] = tpc[u] /\ pos'[u] = pos[u]
  BY DEF IInv, ThreadsAhead
<1>2. Count' = Count /\ Items(job)' = Items(job) /\ Passed(u)' = Passed(u) /\ Item(u)' = Item(u)
  BY <1>1 DEF Count, Items, Passed, Item
<1>3. job # 0 /\ Count \in Nat /\ DOMAIN Items(job) = 1 .. Count /\ pos[u] \in Nat /\ pos[t] \in Nat
  BY JobFacts DEF IInv, Working, Kinds
<1>4. SliceFirst(u, Count)' = SliceFirst(u, Count) /\ SliceLast(u, Count)' = SliceLast(u, Count)
  BY <1>2 DEF SliceFirst, SliceLast
<1>5. ASSUME NEW i \in DOMAIN Items(job), Passed(u) < i, i <= SliceLast(u, Count)
      PROVE  cells'[<<job, i>>] = 0
  <2>1. cells[<<job, i>>] = 0
    BY <1>1, <1>5 DEF Ahead
  <2>2. CASE cells' = cells
    BY <2>1, <2>2
  <2>3. CASE AtItem(t) /\ \A k \in DOMAIN Items(job) :
                            k # pos[t] + 1 => cells'[<<job, k>>] = cells[<<job, k>>]
    <3>1. SliceFirst(t, Count) <= pos[t] /\ pos[t] < SliceLast(t, Count)
      BY <2>3, ItemFacts
    <3>2. SliceFirst(u, Count) <= pos[u] /\ Passed(u) \in Nat /\ pos[u] <= Passed(u) /\ i \in Nat
      BY <1>1, <1>3 DEF Ahead, Passed
    <3>3. /\ SliceLast(t, Count) \in Nat /\ SliceLast(u, Count) \in Nat
          /\ SliceFirst(t, Count) \in Nat /\ SliceFirst(u, Count) \in Nat
          /\ \/ SliceLast(t, Count) <= SliceFirst(u, Count)
             \/ SliceLast(u, Count) <= SliceFirst(t, Count)
      BY <1>3, SlicesDisjoint
    <3>4. i # pos[t] + 1
      BY <1>3, <1>5, <3>1, <3>2, <3>3
    <3> QED BY <2>1, <2>3, <3>4
  <2> QED BY <2>2, <2>3
<1>6. SliceFirst(u, Count)' <= pos'[u] /\ (tpc'[u] # "item" => pos'[u] < SliceLast(u, Count)')
      /\ (tpc'[u] \in {"retry", "undo", "add", "added"} => Item(u)'.nested)
  BY <1>1, <1>2, <1>4 DEF Ahead
<1>7. \A i \in DOMAIN Items(job)' :
        Passed(u)' < i /\ i <= SliceLast(u, Count)' => cells'[<<job', i>>] = 0
  BY <1>2, <1>4, <1>5
<1> QED BY <1>6, <1>7 DEF Ahead

\* The thread itself has passed its item when that has been computed.
LEMMA OwnAhead ==
  ASSUME IInv, NEW t \in Thread, AtItem(t), UNCHANGED <<tree, job>>,
         tpc'[t] \in PC,
         \/ pos'[t] = pos[t] /\ Passed(t) <= Passed(t)'
            /\ (tpc'[t] \in {"retry", "undo", "add", "added"} => Item(t).nested)
         \/ pos'[t] = pos[t] + 1 /\ tpc'[t] = "item" /\ tpc[t] \in {"test", "added"},
         \A i \in DOMAIN Items(job) : Passed(t)' < i => cells'[<<job, i>>] = cells[<<job, i>>]
  PROVE  Ahead(t)'
<1>1. Ahead(t) /\ job # 0
  BY ItemFacts DEF IInv, ThreadsAhead, Working
<1>2. Count' = Count /\ Items(job)' = Items(job)
  BY DEF Count, Items
<1>3. Count \in Nat /\ DOMAIN Items(job) = 1 .. Count /\ pos[t] \in Nat
      /\ SliceFirst(t, Count) <= pos[t] /\ pos[t] < SliceLast(t, Count)
  BY <1>1, JobFacts, ItemFacts
<1>4. SliceFirst(t, Count)' = SliceFirst(t, Count) /\ SliceLast(t, Count)' = SliceLast(t, Count)
  BY <1>2 DEF SliceFirst, SliceLast
<1>5. SliceFirst(t, Count) \in Nat /\ SliceLast(t, Count) \in Nat
  BY <1>3, SlicesDisjoint
<1>6. Passed(t) \in Nat /\ Passed(t)' \in Nat /\ Passed(t) <= Passed(t)'
  BY <1>3 DEF Passed
<1>7. ASSUME NEW i \in DOMAIN Items(job), Passed(t)' < i, i <= SliceLast(t, Count)
      PROVE  cells'[<<job, i>>] = 0
  <2>1. Passed(t) < i
    BY <1>3, <1>6, <1>7
  <2> QED BY <1>1, <1>7, <2>1 DEF Ahead, AtItem
<1>8. SliceFirst(t, Count)' <= pos'[t] /\ (tpc'[t] # "item" => pos'[t] < SliceLast(t, Count)')
  BY <1>3, <1>4, <1>5
<1>9. tpc'[t] \in {"retry", "undo", "add", "added"} => Item(t)'.nested
  <2>1. pos'[t] = pos[t] => Item(t)' = Item(t)
    BY <1>2 DEF Item
  <2> QED BY <2>1
<1>10. \A i \in DOMAIN Items(job)' :
         Passed(t)' < i /\ i <= SliceLast(t, Count)' => cells'[<<job', i>>] = 0
  BY <1>2, <1>4, <1>7
<1> QED BY <1>8, <1>9, <1>10 DEF Ahead

-----------------------------------------------------------------------------
(* What the actions do to jobs and cells.                                  *)

LEMMA Compute ==
  ASSUME IInv, NEW i, job \in DOMAIN tree, i \in DOMAIN tree[job].items, cells[<<job, i>>] = 0
  PROVE  /\ Store(tree, jobs, Written(<<job, i>>), job)
         /\ \A m : PointsTo(tree, job, i, m) => Born(tree, jobs, Written(<<job, i>>), job, m)
         /\ \A c \in Cell(tree) \ {<<job, i>>} : Written(<<job, i>>)[c] = cells[c]
         /\ Written(<<job, i>>)[<<job, i>>] = 1
<1>1. Written(<<job, i>>) = Once(cells, <<job, i>>)
  BY DEF Written, Once
<1>2. tree \in Trees /\ Store(tree, jobs, cells, job)
  BY DEF IInv, Kinds, Stored
<1> QED BY <1>1, <1>2, WriteCell

\* The other cells of the job stay as they are.
LEMMA ComputeOne ==
  ASSUME IInv, NEW i, job \in DOMAIN tree, i \in DOMAIN tree[job].items, cells[<<job, i>>] = 0
  PROVE  \A k \in DOMAIN Items(job) : k # i => Written(<<job, i>>)[<<job, k>>] = cells[<<job, k>>]
<1> SUFFICES ASSUME NEW k \in DOMAIN tree[job].items, k # i
             PROVE  Written(<<job, i>>)[<<job, k>>] = cells[<<job, k>>]
  BY DEF Items
<1>1. <<job, k>> \in Cell(tree) \ {<<job, i>>}
  BY CellFacts DEF IInv, Kinds
<1> QED BY <1>1, Compute

LEMMA AddStep ==
  ASSUME IInv, NEW t \in Thread, PFAdd(t)
  PROVE  /\ Stored'
         /\ \A k \in DOMAIN Items(job) : k # pos[t] + 1 => cells'[<<job, k>>] = cells[<<job, k>>]
<1> DEFINE i == pos[t] + 1
           n == Item(t).node
           new == Written(<<job, i>>)
<1>1. AtItem(t) /\ tree' = tree /\ job' = job /\ tpc[t] = "add"
  BY DEF PFAdd, AtItem, callVars
<1>2. job \in DOMAIN tree /\ i \in DOMAIN tree[job].items /\ cells[<<job, i>>] = 0
      /\ PointsTo(tree, job, i, n)
  BY <1>1, ItemFacts DEF PointsTo
<1>3. tree \in Trees /\ n \in DOMAIN tree /\ n # job
  BY <1>2, Parents DEF IInv, Kinds
<1>4. Store(tree, jobs, new, job) /\ Born(tree, jobs, new, job, n)
  BY <1>2, Compute
<1>5. \A k \in DOMAIN Items(job) : k # i => new[<<job, k>>] = cells[<<job, k>>]
  BY <1>2, ComputeOne
<1>6. CASE ~tree[n].empty
  <2>1. cells' = new /\ jobs' = [jobs EXCEPT ![t] = Append(@, n)]
    BY <1>6 DEF PFAdd
  <2>2. Store(tree, jobs', new, job)
    BY <1>3, <1>4, <2>1, QueueNode
  <2> QED BY <1>1, <1>5, <2>1, <2>2 DEF Stored
<1>7. CASE tree[n].empty
  <2> DEFINE filled == [c \in DOMAIN new |-> IF c[1] = n THEN new[c] + 1 ELSE new[c]]
  <2>1. /\ jobs' = jobs
        /\ cells' = [c \in DOMAIN cells |->
                       IF c = <<job, i>> \/ c[1] = n THEN cells[c] + 1 ELSE cells[c]]
    BY <1>7 DEF PFAdd
  <2>2. cells \in [Cell(tree) -> Nat] /\ <<job, i>> \in Cell(tree) /\ <<job, i>>[1] = job
    BY <1>2, <1>3, CellFacts DEF IInv, Stored, Store
  <2>3. DOMAIN new = Cell(tree) /\ new[<<job, i>>] = cells[<<job, i>>] + 1
        /\ \A c \in Cell(tree) \ {<<job, i>>} : new[c] = cells[c]
    BY <2>2 DEF Written
  <2> HIDE DEF new, i, n
  <2>4. \A c \in Cell(tree) :
          (IF c = <<job, i>> \/ c[1] = n THEN cells[c] + 1 ELSE cells[c])
            = (IF c[1] = n THEN new[c] + 1 ELSE new[c])
    BY <1>3, <2>2, <2>3
  <2>5. cells' = filled
    BY <2>1, <2>2, <2>3, <2>4
  <2>6. Store(tree, jobs, filled, job)
    BY <1>3, <1>4, <1>7, FillNode
  <2>7. ASSUME NEW k \in DOMAIN Items(job), k # i
        PROVE  cells'[<<job, k>>] = cells[<<job, k>>]
    <3>1. <<job, k>> \in Cell(tree) /\ <<job, k>>[1] = job
      BY <1>2, <1>3, <2>7, CellFacts DEF Items
    <3>2. filled[<<job, k>>] = new[<<job, k>>]
      BY <1>3, <2>3, <3>1
    <3> QED BY <1>5, <2>5, <2>7, <3>2
  <2> QED BY <1>1, <2>1, <2>5, <2>6, <2>7 DEF Stored, i
<1> QED BY <1>6, <1>7

LEMMA SimpleStep ==
  ASSUME IInv, NEW t \in Thread, PFSimple(t)
  PROVE  /\ Stored'
         /\ \A k \in DOMAIN Items(job) : k # pos[t] + 1 => cells'[<<job, k>>] = cells[<<job, k>>]
<1> DEFINE i == pos[t] + 1
<1>1. AtItem(t) /\ tree' = tree /\ job' = job /\ jobs' = jobs /\ tpc[t] = "item"
  BY DEF PFSimple, AtItem, callVars
<1>2. job \in DOMAIN tree /\ i \in DOMAIN tree[job].items /\ cells[<<job, i>>] = 0
  BY <1>1, ItemFacts
<1>3. cells' = cells \/ cells' = Written(<<job, i>>)
  BY DEF PFSimple
<1>4. CASE cells' = cells
  BY <1>1, <1>4 DEF IInv, Stored
<1>5. CASE cells' = Written(<<job, i>>)
  BY <1>1, <1>2, <1>5, Compute, ComputeOne DEF Stored
<1> QED BY <1>3, <1>4, <1>5

\* The master's item.
LEMMA MasterItem ==
  ASSUME IInv, mpc = "loop", pos[Master] < Len(Items(job))
  PROVE  /\ job \in DOMAIN tree /\ pos[Master] \in Nat
         /\ pos[Master] + 1 \in DOMAIN tree[job].items /\ cells[<<job, pos[Master] + 1>>] = 0
         /\ Item(Master) = ItemOf(tree, job, pos[Master] + 1)
<1>1. job \in DOMAIN tree /\ pos[Master] \in Nat /\ Count \in Nat
      /\ DOMAIN Items(job) = 1 .. Count /\ Items(job) = tree[job].items
  BY JobFacts, CoresType DEF IInv, Working, Kinds
<1>2. pos[Master] + 1 \in 1 .. Count /\ pos[Master] < pos[Master] + 1
  BY <1>1 DEF Count
<1> QED BY <1>1, <1>2 DEF IInv, MasterAhead, Item, ItemOf

LEMMA MasterStep ==
  ASSUME IInv, SeqNested \/ SeqSimple
  PROVE  /\ Stored'
         /\ mpc' = "loop" =>
              /\ pos'[Master] = pos[Master] + 1 /\ job' = job
              /\ \A k \in DOMAIN Items(job) :
                   k # pos[Master] + 1 => cells'[<<job, k>>] = cells[<<job, k>>]
<1> DEFINE i == pos[Master] + 1
           new == Written(<<job, i>>)
<1>1. mpc = "loop" /\ tree' = tree /\ pos[Master] < Len(Items(job))
  BY DEF SeqNested, SeqSimple, callVars
<1>2. job \in DOMAIN tree /\ i \in DOMAIN tree[job].items /\ cells[<<job, i>>] = 0
      /\ Item(Master) = ItemOf(tree, job, i)
  BY <1>1, MasterItem
<1>3. Master \in Thread /\ tree \in Trees /\ pos \in [Thread -> Nat]
  BY CoresType DEF IInv, Kinds
<1>4. \A k \in DOMAIN Items(job) : k # i => new[<<job, k>>] = cells[<<job, k>>]
  BY <1>2, ComputeOne
<1>5. CASE SeqNested
  <2> DEFINE n == Item(Master).node
  <2>1. PointsTo(tree, job, i, n)
    BY <1>2, <1>5 DEF SeqNested, PointsTo
  <2>2. Store(tree, jobs, new, job) /\ Born(tree, jobs, new, job, n)
    BY <1>2, <2>1, Compute
  <2>3. Store(tree, [jobs EXCEPT ![Master] = Append(@, n)], new, job)
    BY <1>3, <2>2, QueueNode
  <2>4. pos'[Master] = pos[Master] + 1
    BY <1>3, <1>5 DEF SeqNested
  <2> QED BY <1>1, <1>4, <1>5, <2>3, <2>4 DEF SeqNested, Stored
<1>6. CASE SeqSimple
  <2>1. CASE ec' = OK
    <3>1. cells' = new /\ job' = job /\ jobs' = jobs
      BY <1>6, <2>1 DEF SeqSimple
    <3>2. pos'[Master] = pos[Master] + 1
      BY <1>3, <1>6, <2>1 DEF SeqSimple
    <3>3. Store(tree, jobs, new, job)
      BY <1>2, Compute
    <3> QED BY <1>1, <1>4, <3>1, <3>2, <3>3 DEF Stored
  <2>2. CASE ec' # OK
    <3>1. cells' = cells /\ job' = 0 /\ jobs' = jobs /\ mpc' = "failed"
      BY <1>6, <2>2 DEF SeqSimple
    <3>2. Store(tree, jobs, cells, 0)
      BY <1>3, Dropped DEF IInv, Stored
    <3> QED BY <1>1, <3>1, <3>2 DEF Stored
  <2> QED BY <2>1, <2>2
<1> QED BY <1>5, <1>6

LEMMA PickStep ==
  ASSUME IInv, NEW t \in Thread, PickJob(t)
  PROVE  /\ job' \in DOMAIN tree /\ tree' = tree /\ Stored'
         /\ \A i \in DOMAIN tree[job'].items : cells'[<<job', i>>] = 0
<1>1. mpc = "pick" /\ jobs[t] # <<>> /\ job' = jobs[t][Len(jobs[t])] /\ cells' = cells /\ tree' = tree
      /\ jobs' = [jobs EXCEPT ![t] = SubSeq(@, 1, Len(@) - 1)]
  BY DEF PickJob, FirstWithJob, callVars
<1>2. tree \in Trees /\ Store(tree, jobs, cells, 0)
  BY <1>1 DEF IInv, Kinds, Stored, Working
<1>3. /\ job' \in DOMAIN tree
      /\ \A i \in DOMAIN tree[job'].items : cells[<<job', i>>] = 0
      /\ Store(tree, jobs', cells, job')
  BY <1>1, <1>2, TakeNode
<1> QED BY <1>1, <1>3 DEF Stored

LEMMA StoredStep ==
  ASSUME IInv, Next
  PROVE  Stored'
<1>1. tree \in Trees /\ Store(tree, jobs, cells, job) /\ Store(tree, jobs, cells, 0) /\ Store(tree, NoJobs, cells, 0)
  BY Dropped DEF IInv, Kinds, Stored
<1>2. CASE Start
  <2>1. tree' \in Trees /\ jobs' = [NoJobs EXCEPT ![Master] = <<1>>] /\ cells' = Unwritten(tree)' /\ job' = 0
    BY <1>2 DEF Start, IInv, NoJobLeftOver, Working
  <2>2. Unwritten(tree)' = Unwritten(tree')
    BY DEF Unwritten, Cell
  <2> QED BY <2>1, <2>2, Fresh DEF Stored
<1>3. ASSUME NEW t \in Thread, PickJob(t)
      PROVE  Stored'
  BY <1>3, PickStep
<1>4. CASE SeqNested \/ SeqSimple
  BY <1>4, MasterStep
<1>5. CASE AllDone \/ SeqEnd \/ Join
  BY <1>5, <1>1 DEF AllDone, SeqEnd, Join, Stored, callVars
<1>6. CASE Throw
  <2>1. job = 0
    BY <1>6 DEF Throw, IInv, Working
  <2> QED BY <1>1, <1>6, <2>1 DEF Throw, Stored, callVars
<1>7. CASE Return
  BY <1>1, <1>7 DEF Return, Stored, callVars
<1>8. ASSUME NEW t \in Thread, PF(t)
      PROVE  Stored'
  <2>1. CASE PFTest(t) \/ PFAcquire(t) \/ PFUndo(t) \/ PFRelease(t) \/ PFEnd(t)
    BY <1>1, <2>1 DEF PFTest, PFAcquire, PFUndo, PFRelease, PFEnd, Stored, callVars
  <2> QED BY <1>8, <2>1, SimpleStep, AddStep DEF PF
<1> QED BY <1>2, <1>3, <1>4, <1>5, <1>6, <1>7, <1>8 DEF Next, Evaluate

\* An action of a thread leaves what the master has.
LEMMA ThreadStep ==
  ASSUME IInv, NEW t \in Thread, PF(t)
  PROVE  /\ mpc = "join" /\ mpc' = mpc /\ job' = job /\ tree' = tree
         /\ UNCHANGED <<threshold, shared, ec>>
         /\ tpc' \in [Thread -> PC] /\ pos' \in [Thread -> Nat]
         /\ \A u \in Thread \ {t} : tpc'[u] = tpc[u] /\ pos'[u] = pos[u]
<1>1. tpc[t] # "idle" /\ tpc \in [Thread -> PC] /\ pos \in [Thread -> Nat]
      /\ mpc' = mpc /\ job' = job /\ tree' = tree /\ UNCHANGED <<threshold, shared, ec>>
  BY DEF PF, PFSimple, PFTest, PFAcquire, PFUndo, PFAdd, PFRelease, PFEnd, callVars, IInv, Kinds
<1>2. \E p \in PC : tpc' = [tpc EXCEPT ![t] = p]
  BY DEF PF, PFSimple, PFTest, PFAcquire, PFUndo, PFAdd, PFRelease, PFEnd, PC
<1>3. pos' = pos \/ pos' = [pos EXCEPT ![t] = @ + 1]
  BY DEF PF, PFSimple, PFTest, PFAcquire, PFUndo, PFAdd, PFRelease, PFEnd
<1>4. pos' \in [Thread -> Nat] /\ \A u \in Thread \ {t} : pos'[u] = pos[u]
  BY <1>1, <1>3
<1>5. tpc' \in [Thread -> PC] /\ \A u \in Thread \ {t} : tpc'[u] = tpc[u]
  BY <1>1, <1>2
<1> QED BY <1>1, <1>4, <1>5 DEF IInv, Working

LEMMA ThreadAhead ==
  ASSUME IInv, NEW t \in Thread, PF(t)
  PROVE  ThreadsAhead'
<1>1. /\ mpc = "join" /\ mpc' = mpc /\ job' = job /\ tree' = tree
      /\ tpc' \in [Thread -> PC] /\ pos' \in [Thread -> Nat]
      /\ \A u \in Thread \ {t} : tpc'[u] = tpc[u] /\ pos'[u] = pos[u]
  BY ThreadStep
<1>2. tpc \in [Thread -> PC] /\ pos \in [Thread -> Nat] /\ pos[t] \in Nat
  BY DEF IInv, Kinds
<1>3. SUFFICES /\ Ahead(t)'
               /\ \/ cells' = cells
                  \/ AtItem(t) /\ \A i \in DOMAIN Items(job) :
                       i # pos[t] + 1 => cells'[<<job, i>>] = cells[<<job, i>>]
  <2>1. \A u \in Thread \ {t} : Ahead(u)'
    BY <1>1, <1>3, OthersAhead
  <2>2. \A u \in Thread : Ahead(u)'
    BY <1>3, <2>1
  <2> QED BY <2>2 DEF ThreadsAhead
<1>4. job \in DOMAIN tree \cup {0} /\ job # 0 /\ DOMAIN Items(job) = 1 .. Count /\ Count \in Nat
  BY <1>1, JobFacts DEF IInv, Working
<1>5. CASE PFSimple(t)
  <2>1. AtItem(t) /\ pos'[t] = pos[t] /\ tpc'[t] = "test" /\ tpc[t] = "item"
    BY <1>2, <1>5 DEF PFSimple, AtItem
  <2>2. Passed(t) = pos[t] /\ Passed(t)' = pos[t] + 1
    BY <2>1 DEF Passed
  <2>3. \A i \in DOMAIN Items(job) : i # pos[t] + 1 => cells'[<<job, i>>] = cells[<<job, i>>]
    BY <1>5, SimpleStep
  <2>4. \A i \in DOMAIN Items(job) : Passed(t)' < i => cells'[<<job, i>>] = cells[<<job, i>>]
    BY <1>2, <1>4, <2>2, <2>3
  <2>5. Passed(t) <= Passed(t)'
    BY <1>2, <2>2
  <2>6. Ahead(t)'
    BY <1>1, <2>1, <2>4, <2>5, OwnAhead
  <2> QED BY <2>1, <2>3, <2>6
<1>6. CASE PFAdd(t)
  <2>1. AtItem(t) /\ pos'[t] = pos[t] /\ tpc'[t] = "added" /\ tpc[t] = "add"
    BY <1>2, <1>6 DEF PFAdd, AtItem
  <2>2. Passed(t) = pos[t] /\ Passed(t)' = pos[t] + 1
    BY <2>1 DEF Passed
  <2>3. \A i \in DOMAIN Items(job) : i # pos[t] + 1 => cells'[<<job, i>>] = cells[<<job, i>>]
    BY <1>6, AddStep
  <2>4. \A i \in DOMAIN Items(job) : Passed(t)' < i => cells'[<<job, i>>] = cells[<<job, i>>]
    BY <1>2, <1>4, <2>2, <2>3
  <2>5. Passed(t) <= Passed(t)'
    BY <1>2, <2>2
  <2>6. Item(t).nested
    BY <2>1, ItemFacts
  <2>7. Ahead(t)'
    BY <1>1, <2>1, <2>4, <2>5, <2>6, OwnAhead
  <2> QED BY <2>1, <2>3, <2>7
<1>7. CASE (PFTest(t) /\ tpc'[t] = "idle") \/ PFEnd(t)
  <2>1. cells' = cells /\ tpc'[t] = "idle"
    BY <1>2, <1>7 DEF PFTest, PFEnd
  <2> QED BY <2>1 DEF Ahead
<1>8. CASE (PFTest(t) /\ tpc'[t] # "idle") \/ PFRelease(t)
  <2>1. cells' = cells /\ tpc'[t] = "item" /\ pos'[t] = pos[t] + 1 /\ tpc[t] \in {"test", "added"}
    BY <1>2, <1>8 DEF PFTest, PFRelease
  <2>2. AtItem(t)
    BY <2>1 DEF AtItem
  <2>3. Ahead(t)'
    BY <1>1, <2>1, <2>2, OwnAhead
  <2> QED BY <2>1, <2>3
<1>9. CASE PFAcquire(t) \/ PFUndo(t)
  <2>1. /\ cells' = cells /\ tpc'[t] \in {"add", "undo", "retry"} /\ pos'[t] = pos[t]
        /\ AtItem(t) /\ tpc[t] \notin {"test", "added"}
    BY <1>2, <1>9 DEF PFAcquire, PFUndo, AtItem
  <2>2. Item(t).nested
    BY <1>9, <2>1, ItemFacts DEF PFAcquire, PFUndo
  <2>3. Passed(t) = pos[t] /\ Passed(t)' = pos[t]
    BY <2>1 DEF Passed
  <2>4. Ahead(t)'
    BY <1>1, <1>2, <2>1, <2>2, <2>3, OwnAhead
  <2> QED BY <2>1, <2>4
<1> QED BY <1>5, <1>6, <1>7, <1>8, <1>9 DEF PF

LEMMA SharedAhead ==
  ASSUME IInv, NEW t \in Thread, PickJob(t)
  PROVE  ThreadsAhead' /\ MasterAhead'
<1>1. /\ job' \in DOMAIN tree /\ tree' = tree
      /\ \A i \in DOMAIN tree[job'].items : cells'[<<job', i>>] = 0
  BY PickStep
<1>2. Items(job)' = Items(job') /\ Count' = Len(Items(job')) /\ Items(job') = tree[job'].items
  BY <1>1 DEF Items, Count
<1>3. MasterAhead'
  BY <1>1, <1>2 DEF MasterAhead
<1>4. ASSUME mpc' = "join"
      PROVE  ThreadsAhead'
  <2>1. tpc' = [u \in Thread |-> "item"] /\ pos' = [u \in Thread |-> SliceFirst(u, Count')]
    BY <1>2, <1>4 DEF PickJob
  <2>2. Count' \in Nat
    BY <1>1, <1>2, TreeFacts DEF IInv, Kinds
  <2>3. ASSUME NEW u \in Thread
        PROVE  Ahead(u)'
    <3>1. tpc'[u] = "item" /\ pos'[u] = SliceFirst(u, Count)' /\ SliceFirst(u, Count)' \in Nat
      <4>1. SliceFirst(u, Count)' = SliceFirst(u, Count')
        BY DEF SliceFirst, SliceLen
      <4>2. SliceFirst(u, Count') \in Nat
        BY <2>2, SlicesDisjoint
      <4> QED BY <2>1, <4>1, <4>2
    <3>2. \A i \in DOMAIN Items(job)' : cells'[<<job', i>>] = 0
      BY <1>1, <1>2
    <3> QED BY <3>1, <3>2 DEF Ahead
  <2> QED BY <2>3 DEF ThreadsAhead
<1> QED BY <1>3, <1>4 DEF ThreadsAhead

LEMMA AheadStep ==
  ASSUME IInv, Next
  PROVE  ThreadsAhead' /\ MasterAhead'
<1>1. CASE Start
  BY <1>1 DEF Start, ThreadsAhead, MasterAhead
<1>2. CASE AllDone \/ SeqEnd \/ Join \/ Throw \/ Return
  BY <1>2 DEF AllDone, SeqEnd, Join, Throw, Return, ThreadsAhead, MasterAhead
<1>3. ASSUME NEW t \in Thread, PF(t)
      PROVE  ThreadsAhead' /\ MasterAhead'
  <2>1. mpc' = "join"
    BY <1>3, ThreadStep
  <2> QED BY <1>3, <2>1, ThreadAhead DEF MasterAhead
<1>4. CASE SeqNested \/ SeqSimple
  <2>1. mpc' # "join" /\ tree' = tree /\ mpc = "loop" /\ pos[Master] < Len(Items(job))
    BY <1>4 DEF SeqNested, SeqSimple, callVars
  <2>2. CASE mpc' = "loop"
    <3>1. /\ pos'[Master] = pos[Master] + 1 /\ job' = job
          /\ \A k \in DOMAIN Items(job) :
               k # pos[Master] + 1 => cells'[<<job, k>>] = cells[<<job, k>>]
      BY <1>4, <2>2, MasterStep
    <3>2. Items(job)' = Items(job) /\ DOMAIN Items(job) = 1 .. Count /\ Count \in Nat
      BY <2>1, <3>1, MasterItem, JobFacts DEF Items
    <3>3. pos[Master] \in Nat
      BY <2>1, MasterItem
    <3>4. ASSUME NEW i \in DOMAIN Items(job), pos[Master] + 1 < i
          PROVE  cells'[<<job, i>>] = 0
      <4>1. i # pos[Master] + 1 /\ pos[Master] < i
        BY <3>2, <3>3, <3>4
      <4>2. cells[<<job, i>>] = 0
        BY <2>1, <4>1 DEF IInv, MasterAhead
      <4> QED BY <3>1, <4>1, <4>2
    <3> QED BY <2>1, <3>1, <3>2, <3>4 DEF MasterAhead, ThreadsAhead
  <2>3. CASE mpc' # "loop"
    BY <2>1, <2>3 DEF MasterAhead, ThreadsAhead
  <2> QED BY <2>2, <2>3
<1> QED BY <1>1, <1>2, <1>3, <1>4, SharedAhead DEF Next, Evaluate

-----------------------------------------------------------------------------
(* Errors, job lists at the end, and the shape of the state.               *)

\* The error of an item that is not nested has a cause.
LEMMA CauseOf ==
  ASSUME IInv, NEW i, job \in DOMAIN tree, i \in DOMAIN tree[job].items,
         ~ItemOf(tree, job, i).nested
  PROVE  Cause(ItemOf(tree, job, i).result) /\ ItemOf(tree, job, i).result \in ErrorCode
  BY Codes DEF Cause, ItemOf, IInv, Kinds

\* What the items' codes are.
LEMMA ResultFacts ==
  ASSUME IInv
  PROVE  /\ \A t \in Thread : PFSimple(t) =>
              Cause(Item(t).result) /\ Item(t).result \in ErrorCode
         /\ SeqSimple => Cause(Item(Master).result) /\ Item(Master).result \in ErrorCode
<1>1. ASSUME NEW t \in Thread, PFSimple(t)
      PROVE  Cause(Item(t).result) /\ Item(t).result \in ErrorCode
  <2>1. AtItem(t) /\ ~Item(t).nested
    BY <1>1 DEF PFSimple, AtItem
  <2> QED BY <2>1, ItemFacts, CauseOf
<1>2. ASSUME SeqSimple
      PROVE  Cause(Item(Master).result) /\ Item(Master).result \in ErrorCode
  <2>1. mpc = "loop" /\ pos[Master] < Len(Items(job)) /\ ~Item(Master).nested
    BY <1>2 DEF SeqSimple
  <2> QED BY <2>1, MasterItem, CauseOf
<1> QED BY <1>1, <1>2

\* What a step does to the errors.
LEMMA ErrorStep ==
  ASSUME IInv, Next
  PROVE  ErrorHasCause' /\ ErrorIsReal'
<1>1. CASE Start \/ AllDone \/ SeqNested \/ SeqEnd \/ Throw \/ Return
  BY <1>1 DEF Start, AllDone, SeqNested, SeqEnd, Throw, Return, ErrorHasCause, ErrorIsReal
<1>2. ASSUME NEW t \in Thread, PickJob(t)
      PROVE  ErrorHasCause' /\ ErrorIsReal'
  BY <1>2 DEF PickJob, ErrorHasCause, ErrorIsReal
<1>3. CASE SeqSimple
  <2>1. mpc' # "join" /\ tree' = tree /\ ec' = Item(Master).result /\ (mpc' = "failed" => ec' # OK)
    BY <1>3 DEF SeqSimple, callVars
  <2>2. Cause(ec')
    BY <1>3, <2>1, ResultFacts
  <2> QED BY <2>1, <2>2 DEF ErrorHasCause, ErrorIsReal, Cause
<1>4. CASE Join
  <2>1. mpc' # "join" /\ tree' = tree /\ (mpc' = "failed" => ec' = error /\ error # OK /\ mpc = "join")
    BY <1>4 DEF Join, callVars
  <2> QED BY <2>1 DEF IInv, ErrorHasCause, ErrorIsReal, Cause
<1>5. ASSUME NEW t \in Thread, PF(t)
      PROVE  ErrorHasCause' /\ ErrorIsReal'
  <2>1. mpc' = "join" /\ mpc = "join" /\ tree' = tree
    BY <1>5, ThreadStep
  <2>2. CASE PFSimple(t)
    <3>1. error' = Item(t).result /\ Cause(Item(t).result)
      BY <2>2, ResultFacts DEF PFSimple
    <3> QED BY <2>1, <3>1 DEF ErrorHasCause, ErrorIsReal, Cause
  <2>3. CASE ~PFSimple(t)
    <3>1. error' = error
      BY <1>5, <2>3 DEF PF, PFTest, PFAcquire, PFUndo, PFAdd, PFRelease, PFEnd
    <3> QED BY <2>1, <3>1 DEF IInv, ErrorHasCause, ErrorIsReal, Cause
  <2> QED BY <2>2, <2>3
<1> QED BY <1>1, <1>2, <1>3, <1>4, <1>5 DEF Next, Evaluate

LEMMA LeftOverStep ==
  ASSUME IInv, Next
  PROVE  NoJobLeftOver'
<1>0. NoJobs' = NoJobs
  BY DEF NoJobs
<1>1. CASE Start \/ SeqNested \/ SeqSimple \/ SeqEnd \/ Join
  BY <1>1 DEF Start, SeqNested, SeqSimple, SeqEnd, Join, NoJobLeftOver
<1>2. CASE AllDone
  <2>1. jobs \in [Thread -> Seq(DOMAIN tree)] /\ jobs' = jobs /\ \A t \in Thread : jobs[t] = <<>>
    BY <1>2 DEF AllDone, IInv, Stored, Store
  <2> QED BY <1>0, <2>1 DEF NoJobLeftOver, NoJobs
<1>3. CASE Throw \/ Return
  BY <1>0, <1>3 DEF Throw, Return, IInv, NoJobLeftOver
<1>4. ASSUME NEW t \in Thread, PickJob(t) \/ PF(t)
      PROVE  NoJobLeftOver'
  <2>1. mpc' \in {"join", "loop"}
    BY <1>4, ThreadStep DEF PickJob
  <2> QED BY <2>1 DEF NoJobLeftOver
<1> QED BY <1>1, <1>2, <1>3, <1>4 DEF Next, Evaluate

LEMMA KindsStep ==
  ASSUME IInv, Next
  PROVE  Kinds' /\ Working'
<1>1. tree \in Trees /\ ErrorCode' = ErrorCode /\ Master \in Thread
  BY CoresType DEF IInv, Kinds, ErrorCode
<1>2. CASE Start
  BY <1>1, <1>2, Codes DEF Start, IInv, Kinds, Working
<1>3. CASE AllDone \/ SeqEnd \/ Throw \/ Return
  BY <1>1, <1>3, CoresType DEF AllDone, SeqEnd, Throw, Return, IInv, Kinds, Working, callVars
<1>4. CASE Join
  BY <1>1, <1>4 DEF Join, IInv, Kinds, Working, callVars
<1>5. CASE SeqNested
  BY <1>1, <1>5 DEF SeqNested, IInv, Kinds, Working, callVars
<1>6. CASE SeqSimple
  <2>1. ec' \in ErrorCode
    BY <1>6, ResultFacts DEF SeqSimple
  <2>2. pos' = pos \/ pos' = [pos EXCEPT ![Master] = @ + 1]
    BY <1>6 DEF SeqSimple
  <2>3. pos' \in [Thread -> Nat]
    BY <1>1, <2>2 DEF IInv, Kinds
  <2>4. (mpc' = mpc /\ job' = job) \/ (mpc' = "failed" /\ job' = 0)
    BY <1>6 DEF SeqSimple
  <2>5. UNCHANGED <<tree, threshold, shared, tpc, mine, error>> /\ mpc = "loop"
    BY <1>6 DEF SeqSimple, callVars
  <2> QED BY <1>1, <2>1, <2>3, <2>4, <2>5 DEF IInv, Kinds, Working
<1>7. ASSUME NEW t \in Thread, PickJob(t)
      PROVE  Kinds' /\ Working'
  <2>1. job' \in DOMAIN tree /\ tree' = tree /\ job' # 0
    BY <1>7, PickStep, TreeFacts DEF IInv, Kinds
  <2>2. Len(Items(job')) \in Nat
    BY <1>1, <2>1, TreeFacts DEF Items
  <2>3. UNCHANGED <<threshold, mine, ec>> /\ error' = OK /\ mpc = "pick" /\ mpc' \in {"join", "loop"}
    BY <1>7 DEF PickJob, callVars
  <2>4. CASE mpc' = "join"
    <3>1. /\ tpc' = [u \in Thread |-> "item"] /\ shared' = TRUE
          /\ pos' = [u \in Thread |-> SliceFirst(u, Len(Items(job')))]
      BY <1>7, <2>4 DEF PickJob
    <3>2. pos' \in [Thread -> Nat]
      BY <2>2, <3>1, SlicesDisjoint
    <3> QED BY <1>1, <2>1, <2>3, <2>4, <3>1, <3>2, Codes DEF IInv, Kinds, Working, PC
  <2>5. CASE mpc' = "loop"
    <3>1. tpc' = tpc /\ shared' = shared /\ pos' = [pos EXCEPT ![Master] = 0]
      BY <1>7, <2>5 DEF PickJob
    <3> QED BY <1>1, <2>1, <2>3, <2>5, <3>1, Codes DEF IInv, Kinds, Working
  <2> QED BY <2>3, <2>4, <2>5
<1>8. ASSUME NEW t \in Thread, PF(t)
      PROVE  Kinds' /\ Working'
  <2>1. /\ mpc = "join" /\ mpc' = mpc /\ job' = job /\ tree' = tree
        /\ UNCHANGED <<threshold, shared, ec>>
        /\ tpc' \in [Thread -> PC] /\ pos' \in [Thread -> Nat]
    BY <1>8, ThreadStep
  <2>2. error' \in ErrorCode /\ mine' \in [Thread -> ErrorCode]
    <3>1. CASE PFSimple(t)
      <4>1. error' = Item(t).result /\ mine' = [mine EXCEPT ![t] = Item(t).result]
            /\ Item(t).result \in ErrorCode
        BY <3>1, ResultFacts DEF PFSimple
      <4> QED BY <4>1 DEF IInv, Kinds
    <3>2. CASE ~PFSimple(t)
      <4>1. error' = error /\ mine' = mine
        BY <1>8, <3>2 DEF PF, PFTest, PFAcquire, PFUndo, PFAdd, PFRelease, PFEnd
      <4> QED BY <4>1 DEF IInv, Kinds
    <3> QED BY <3>1, <3>2
  <2> QED BY <1>1, <2>1, <2>2 DEF IInv, Kinds, Working
<1> QED BY <1>2, <1>3, <1>4, <1>5, <1>6, <1>7, <1>8 DEF Next, Evaluate

LEMMA InitHolds ==
  ASSUME Init
  PROVE  IInv
<1>1. Kinds /\ Working
  BY Codes DEF Init, Kinds, Working, PC
<1>2. Stored
  BY Fresh DEF Init, Stored
<1>3. Locked /\ OneAdder
  <2>1. Adding = {}
    BY DEF Init, Adding
  <2>2. Cardinality({}) = 0
    BY FS_EmptySet
  <2> QED BY <2>1, <2>2 DEF Init, Locked, OneAdder, InLock
<1>4. MasterAhead /\ ThreadsAhead /\ ErrorHasCause /\ ErrorIsReal /\ NoJobLeftOver
  BY DEF Init, MasterAhead, ThreadsAhead, ErrorHasCause, ErrorIsReal, NoJobLeftOver
<1> QED BY <1>1, <1>2, <1>3, <1>4 DEF IInv

LEMMA Stutter ==
  ASSUME IInv, UNCHANGED vars
  PROVE  IInv'
<1>1. UNCHANGED <<tree, threshold, mpc, job, error, ec, jobs, tpc, pos, mine, lock, cells, shared>>
  BY DEF vars, callVars
<1>2. Kinds' /\ Working' /\ Stored'
  BY <1>1 DEF IInv, Kinds, Working, Stored, ErrorCode
<1>3. Locked' /\ OneAdder' /\ NoJobLeftOver'
  BY <1>1 DEF IInv, Locked, Adding, OneAdder, InLock, NoJobLeftOver, NoJobs
<1>4. ErrorHasCause' /\ ErrorIsReal'
  BY <1>1 DEF IInv, ErrorHasCause, ErrorIsReal, Cause
<1>5. MasterAhead'
  BY <1>1 DEF IInv, MasterAhead, Items
<1>6. Count' = Count /\ Items(job)' = Items(job)
  BY <1>1 DEF Count, Items
<1>7. ThreadsAhead'
  BY <1>1, <1>6 DEF IInv, ThreadsAhead, Ahead, Passed, Item, SliceFirst, SliceLast
<1> QED BY <1>2, <1>3, <1>4, <1>5, <1>7 DEF IInv

LEMMA Invariant == Spec => []IInv
<1>1. Init => IInv
  BY InitHolds
<1>2. IInv /\ [Next]_vars => IInv'
  <2> SUFFICES ASSUME IInv, Next PROVE IInv'
    BY Stutter
  <2>1. Locked' /\ OneAdder'
    BY LockStep DEF IInv
  <2> QED BY <2>1, KindsStep, StoredStep, AheadStep, ErrorStep, LeftOverStep DEF IInv
<1> QED BY <1>1, <1>2, PTL DEF Spec

-----------------------------------------------------------------------------
(* Nothing is forgotten.  In an evaluation in which no error can be lost,  *)
(* a node is finished, computed now, queued, or waits for its item.        *)

Reliable == Flawless(tree) \/ ~shared

Finished(n) == \A i \in DOMAIN tree[n].items : cells[<<n, i>>] # 0
Awaits(n) == \E p, j : PointsTo(tree, p, j, n) /\ cells[<<p, j>>] = 0
Accounted(n) == Finished(n) \/ n = job \/ Queued(jobs, n) \/ Awaits(n)
NoneForgotten ==
  mpc \in {"pick", "loop", "join", "result"} => \A n \in DOMAIN tree : Accounted(n)

\* The items up to a position have been computed.
MasterBehind ==
  mpc = "loop" => \A i \in DOMAIN Items(job) : i <= pos[Master] => cells[<<job, i>>] # 0
Covered(t) == IF tpc[t] = "idle" THEN SliceLast(t, Count) ELSE Passed(t)
Behind(t) ==
  \A i \in DOMAIN Items(job) :
    SliceFirst(t, Count) < i /\ i <= Covered(t) => cells[<<job, i>>] # 0
ThreadsBehind == mpc = "join" => \A t \in Thread : Behind(t)

Complete == Reliable => NoneForgotten /\ MasterBehind /\ ThreadsBehind

\* What a thread holds in a register is the code of an item.
Remembered ==
  mpc = "join" => shared /\ \A t \in Thread : tpc[t] = "test" => Cause(mine[t])

CInv == IInv /\ Remembered /\ Complete

LEMMA Parent ==
  ASSUME NEW T \in Trees, NEW m \in DOMAIN T, m # 1
  PROVE  \E n, i : PointsTo(T, n, i, m) /\ n < m
<1>1. PICK n \in DOMAIN T : \E i \in DOMAIN T[n].items : T[n].items[i].nested /\ T[n].items[i].node = m
  BY ScalarAssumption DEF ScalarAssumption
<1>2. PICK i \in DOMAIN T[n].items : T[n].items[i].nested /\ T[n].items[i].node = m
  BY <1>1
<1>3. m > n
  BY <1>2, ScalarAssumption DEF ScalarAssumption
<1>4. n < m
  BY <1>3, TreeFacts
<1> QED BY <1>2, <1>4 DEF PointsTo, ItemOf

\* In the end nothing is left to be done.
LEMMA EndHolds ==
  ASSUME CInv, mpc = "result", Reliable
  PROVE  AllWritten
<1>1. tree \in Trees /\ DOMAIN tree = 1 .. Len(tree) /\ job = 0 /\ jobs = NoJobs
  BY TreeFacts DEF CInv, IInv, Kinds, Working, NoJobLeftOver
<1>2. \A n \in DOMAIN tree : Finished(n) \/ Awaits(n)
  <2>1. \A n : ~Queued(jobs, n)
    BY <1>1 DEF Queued, Entry, NoJobs
  <2>2. \A n \in DOMAIN tree : n # 0
    BY <1>1
  <2> QED BY <1>1, <2>1, <2>2 DEF CInv, Complete, NoneForgotten, Accounted
<1>3. \A n \in DOMAIN tree : Finished(n)
  <2> SUFFICES ASSUME NEW k \in DOMAIN tree, ~Finished(k) PROVE FALSE
    OBVIOUS
  <2> DEFINE B == {n \in DOMAIN tree : ~Finished(n)}
  <2>1. B \in SUBSET Nat /\ B # {}
    BY <1>1
  <2>2. PICK n \in B : \A m \in B : ~(m < n)
    <3> HIDE DEF B
    <3> QED BY <2>1, Least
  <2>3. PICK p, j : PointsTo(tree, p, j, n) /\ cells[<<p, j>>] = 0
    BY <1>2, <2>2 DEF Awaits
  <2>4. p \in DOMAIN tree /\ ~Finished(p)
    BY <2>3 DEF PointsTo, Finished
  <2>5. p < n
    BY <1>1, <2>3, Parents, Parent
  <2> QED BY <2>2, <2>4, <2>5
<1>4. cells \in [Cell(tree) -> Nat] /\ \A c \in Cell(tree) : cells[c] <= 1
  BY DEF CInv, IInv, Stored, Store
<1>5. ASSUME NEW c \in Cell(tree)
      PROVE  cells[c] = 1
  <2>1. c = <<c[1], c[2]>> /\ c[1] \in DOMAIN tree /\ c[2] \in DOMAIN tree[c[1]].items
    BY <1>1, CellFacts
  <2>2. cells[c] # 0
    BY <1>3, <2>1 DEF Finished
  <2> QED BY <1>4, <2>2
<1> QED BY <1>4, <1>5 DEF AllWritten

\* What has been computed stays computed, and a shared job has been shared.
LEMMA Monotone ==
  ASSUME IInv, Evaluate \/ \E t \in Thread : PF(t)
  PROVE  /\ tree' = tree /\ (Reliable' => Reliable)
         /\ \A c \in Cell(tree) : cells[c] # 0 => cells'[c] # 0
         /\ \A n \in DOMAIN tree : Finished(n) => Finished(n)'
<1>1. tree' = tree
  BY DEF Evaluate, PF, PickJob, AllDone, SeqNested, SeqSimple, SeqEnd, Join, Throw, Return,
         PFSimple, PFTest, PFAcquire, PFUndo, PFAdd, PFRelease, PFEnd, callVars
<1>2. shared => shared'
  <2>1. CASE \E t \in Thread : PickJob(t)
    BY <2>1 DEF PickJob
  <2>2. CASE ~\E t \in Thread : PickJob(t)
    BY <2>2 DEF Evaluate, PF, AllDone, SeqNested, SeqSimple, SeqEnd, Join, Throw, Return,
                PFSimple, PFTest, PFAcquire, PFUndo, PFAdd, PFRelease, PFEnd
  <2> QED BY <2>1, <2>2
<1>3. tree \in Trees /\ cells \in [Cell(tree) -> Nat]
  BY DEF IInv, Kinds, Stored, Store
<1>4. \/ cells' = cells
      \/ \E c \in Cell(tree) : cells' = Written(c)
      \/ \E t \in Thread : PFAdd(t)
  <2>1. ASSUME NEW t \in Thread, PFSimple(t)
        PROVE  cells' = cells \/ \E c \in Cell(tree) : cells' = Written(c)
    <3>1. <<job, pos[t] + 1>> \in Cell(tree)
      BY <1>3, <2>1, ItemFacts, CellFacts DEF PFSimple, AtItem
    <3> QED BY <2>1, <3>1 DEF PFSimple
  <2>2. ASSUME SeqNested \/ SeqSimple
        PROVE  cells' = cells \/ \E c \in Cell(tree) : cells' = Written(c)
    <3>1. <<job, pos[Master] + 1>> \in Cell(tree)
      BY <1>3, <2>2, MasterItem, CellFacts DEF SeqNested, SeqSimple
    <3> QED BY <2>2, <3>1 DEF SeqNested, SeqSimple
  <2>3. CASE \E t \in Thread : PickJob(t)
    BY <2>3 DEF PickJob
  <2>4. CASE AllDone \/ SeqEnd \/ Join \/ Throw \/ Return
    BY <2>4 DEF AllDone, SeqEnd, Join, Throw, Return
  <2>5. CASE \E t \in Thread : PFTest(t) \/ PFAcquire(t) \/ PFUndo(t) \/ PFRelease(t) \/ PFEnd(t)
    BY <2>5 DEF PFTest, PFAcquire, PFUndo, PFRelease, PFEnd
  <2> QED BY <2>1, <2>2, <2>3, <2>4, <2>5 DEF Evaluate, PF
<1>5. \A c \in Cell(tree) : cells[c] # 0 => cells'[c] # 0
  <2>1. CASE cells' = cells
    BY <2>1
  <2>2. ASSUME NEW d \in Cell(tree), cells' = Written(d)
        PROVE  \A c \in Cell(tree) : cells[c] # 0 => cells'[c] # 0
    BY <1>3, <2>2 DEF Written
  <2>3. ASSUME NEW t \in Thread, PFAdd(t)
        PROVE  \A c \in Cell(tree) : cells[c] # 0 => cells'[c] # 0
    <3> DEFINE n == Item(t).node
               i == <<job, pos[t] + 1>>
    <3>1. CASE tree[n].empty
      <4>1. cells' = [c \in DOMAIN cells |->
                        IF c = i \/ c[1] = n THEN cells[c] + 1 ELSE cells[c]]
        BY <2>3, <3>1 DEF PFAdd
      <4> HIDE DEF n, i
      <4> QED BY <1>3, <4>1
    <3>2. CASE ~tree[n].empty
      <4>1. cells' = Written(i)
        BY <2>3, <3>2 DEF PFAdd
      <4>2. i \in Cell(tree)
        BY <1>3, <2>3, ItemFacts, CellFacts DEF PFAdd, AtItem
      <4> QED BY <2>2, <4>1, <4>2
    <3> QED BY <3>1, <3>2
  <2> QED BY <1>4, <2>1, <2>2, <2>3
<1>6. ASSUME NEW n \in DOMAIN tree, Finished(n)
      PROVE  Finished(n)'
  <2>1. \A i \in DOMAIN tree[n].items : <<n, i>> \in Cell(tree)
    BY <1>3, CellFacts
  <2> QED BY <1>1, <1>5, <1>6, <2>1 DEF Finished
<1>7. Reliable' => Reliable
  BY <1>1, <1>2 DEF Reliable, Flawless
<1> QED BY <1>1, <1>5, <1>6, <1>7

\* In a flawless value nothing fails.
LEMMA NothingFails ==
  ASSUME Flawless(tree)
  PROVE  \A e : Cause(e) => e = OK
  BY DEF Cause, Flawless

LEMMA RememberedStep ==
  ASSUME CInv, Next
  PROVE  Remembered'
<1> USE DEF CInv
<1>1. CASE Start \/ AllDone \/ SeqNested \/ SeqSimple \/ SeqEnd \/ Join \/ Throw \/ Return
  BY <1>1 DEF Start, AllDone, SeqNested, SeqSimple, SeqEnd, Join, Throw, Return, Remembered
<1>2. ASSUME NEW t \in Thread, PickJob(t)
      PROVE  Remembered'
  BY <1>2 DEF PickJob, Remembered
<1>3. ASSUME NEW t \in Thread, PF(t)
      PROVE  Remembered'
  <2>1. /\ mpc = "join" /\ tree' = tree /\ UNCHANGED shared
        /\ \A u \in Thread \ {t} : tpc'[u] = tpc[u]
    BY <1>3, ThreadStep
  <2>2. mine \in [Thread -> ErrorCode] /\ tpc \in [Thread -> PC]
    BY DEF IInv, Kinds
  <2>3. \A e : Cause(e) => \E n \in DOMAIN tree' : \E i \in DOMAIN tree'[n].items :
                             ~tree'[n].items[i].nested /\ tree'[n].items[i].result = e
    BY <2>1 DEF Cause
  <2>4. CASE PFSimple(t)
    <3>1. mine' = [mine EXCEPT ![t] = Item(t).result] /\ Cause(Item(t).result)
      BY <2>4, ResultFacts DEF PFSimple
    <3>2. \A u \in Thread : tpc'[u] = "test" => Cause(mine'[u])
      BY <2>1, <2>2, <3>1 DEF Remembered
    <3> QED BY <2>1, <2>3, <3>2 DEF Remembered, Cause
  <2>5. CASE ~PFSimple(t)
    <3>1. mine' = mine /\ tpc'[t] # "test"
      BY <1>3, <2>2, <2>5 DEF PF, PFTest, PFAcquire, PFUndo, PFAdd, PFRelease, PFEnd
    <3>2. \A u \in Thread : tpc'[u] = "test" => Cause(mine'[u])
      BY <2>1, <3>1 DEF Remembered
    <3> QED BY <2>1, <2>3, <3>2 DEF Remembered, Cause
  <2> QED BY <2>4, <2>5
<1> QED BY <1>1, <1>2, <1>3 DEF Next, Evaluate

\* A list grows at the end and shrinks there.
LEMMA QueueGrows ==
  ASSUME NEW T \in Trees, NEW js \in [Thread -> Seq(DOMAIN T)], NEW m \in DOMAIN T, NEW t \in Thread
  PROVE  LET new == [js EXCEPT ![t] = Append(@, m)] IN
         Queued(new, m) /\ \A n : Queued(js, n) => Queued(new, n)
<1> DEFINE new == [js EXCEPT ![t] = Append(@, m)]
<1>1. js[t] \in Seq(DOMAIN T) /\ new[t] = Append(js[t], m) /\ \A u \in Thread \ {t} : new[u] = js[u]
  OBVIOUS
<1> HIDE DEF new
<1>2. /\ Len(js[t]) \in Nat
      /\ DOMAIN js[t] = 1 .. Len(js[t]) /\ DOMAIN Append(js[t], m) = 1 .. Len(js[t]) + 1
      /\ \A k \in 1 .. Len(js[t]) : Append(js[t], m)[k] = js[t][k]
      /\ Append(js[t], m)[Len(js[t]) + 1] = m
  BY <1>1, Appended
<1>3. Queued(new, m)
  <2>1. Len(js[t]) + 1 \in DOMAIN new[t] /\ new[t][Len(js[t]) + 1] = m
    BY <1>1, <1>2
  <2> QED BY <2>1 DEF Queued, Entry
<1>4. ASSUME NEW n, Queued(js, n)
      PROVE  Queued(new, n)
  <2>1. PICK u, k : Entry(js, u, k) /\ js[u][k] = n
    BY <1>4 DEF Queued
  <2>2. CASE u = t
    <3>1. k \in 1 .. Len(js[t]) /\ k \in DOMAIN Append(js[t], m)
      BY <1>2, <2>1, <2>2 DEF Entry
    <3>2. Entry(new, t, k) /\ new[t][k] = n
      BY <1>1, <1>2, <2>1, <2>2, <3>1 DEF Entry
    <3> QED BY <3>2 DEF Queued
  <2>3. CASE u # t
    <3>1. Entry(new, u, k) /\ new[u][k] = n
      BY <1>1, <2>1, <2>3 DEF Entry
    <3> QED BY <3>1 DEF Queued
  <2> QED BY <2>2, <2>3
<1> QED BY <1>3, <1>4 DEF new

LEMMA QueueShrinks ==
  ASSUME NEW T \in Trees, NEW js \in [Thread -> Seq(DOMAIN T)], NEW t \in Thread, js[t] # <<>>
  PROVE  \A n : Queued(js, n) =>
           n = js[t][Len(js[t])] \/ Queued([js EXCEPT ![t] = SubSeq(@, 1, Len(@) - 1)], n)
<1> DEFINE new == [js EXCEPT ![t] = SubSeq(@, 1, Len(@) - 1)]
           last == Len(js[t])
<1>1. js[t] \in Seq(DOMAIN T) /\ new[t] = SubSeq(js[t], 1, last - 1)
      /\ \A u \in Thread \ {t} : new[u] = js[u]
  OBVIOUS
<1>2. /\ last \in Nat \ {0}
      /\ DOMAIN js[t] = 1 .. last /\ DOMAIN SubSeq(js[t], 1, last - 1) = 1 .. last - 1
      /\ \A k \in 1 .. last - 1 : SubSeq(js[t], 1, last - 1)[k] = js[t][k]
  BY <1>1, Shortened
<1> HIDE DEF new, last
<1>3. ASSUME NEW n, Queued(js, n), n # js[t][last]
      PROVE  Queued(new, n)
  <2>1. PICK u, k : Entry(js, u, k) /\ js[u][k] = n
    BY <1>3 DEF Queued
  <2>2. CASE u = t
    <3>1. k \in 1 .. last /\ k # last
      BY <1>2, <1>3, <2>1, <2>2 DEF Entry
    <3>2. k \in 1 .. last - 1
      BY <1>2, <3>1
    <3>3. Entry(new, t, k) /\ new[t][k] = n
      BY <1>1, <1>2, <2>1, <2>2, <3>2 DEF Entry
    <3> QED BY <3>3 DEF Queued
  <2>3. CASE u # t
    <3>1. Entry(new, u, k) /\ new[u][k] = n
      BY <1>1, <2>1, <2>3 DEF Entry
    <3> QED BY <3>1 DEF Queued
  <2> QED BY <2>2, <2>3
<1> QED BY <1>3 DEF new, last

\* After an item has been computed only the node it points to may stop waiting.
LEMMA StillAwaits ==
  ASSUME IInv, NEW i, job \in DOMAIN tree, i \in DOMAIN tree[job].items, cells[<<job, i>>] = 0,
         NEW n, Awaits(n)
  PROVE  \/ PointsTo(tree, job, i, n)
         \/ \E p, j : PointsTo(tree, p, j, n) /\ cells[<<p, j>>] = 0 /\ <<p, j>> # <<job, i>>
                      /\ Written(<<job, i>>)[<<p, j>>] = 0
<1>1. PICK p, j : PointsTo(tree, p, j, n) /\ cells[<<p, j>>] = 0
  BY DEF Awaits
<1>2. CASE p = job /\ j = i
  BY <1>1, <1>2
<1>3. CASE ~(p = job /\ j = i)
  <2>1. <<p, j>> \in Cell(tree) \ {<<job, i>>}
    BY <1>1, <1>3, CellFacts DEF PointsTo, IInv, Kinds
  <2>2. Written(<<job, i>>)[<<p, j>>] = cells[<<p, j>>]
    BY <2>1, Compute
  <2> QED BY <1>1, <2>1, <2>2
<1> QED BY <1>2, <1>3

\* What a nested item points to is queued, or finished at once if it is empty.
LEMMA AddAccounts ==
  ASSUME IInv, NEW t \in Thread, PFAdd(t), NEW n \in DOMAIN tree, Accounted(n)
  PROVE  Accounted(n)' /\ cells'[<<job, pos[t] + 1>>] # 0
<1> DEFINE i == pos[t] + 1
           m == Item(t).node
<1>1. AtItem(t) /\ tree' = tree /\ job' = job /\ tpc[t] = "add"
  BY DEF PFAdd, AtItem, callVars
<1>2. /\ job \in DOMAIN tree /\ i \in DOMAIN tree[job].items /\ cells[<<job, i>>] = 0
      /\ PointsTo(tree, job, i, m)
  BY <1>1, ItemFacts DEF PointsTo
<1>3. /\ tree \in Trees /\ m \in DOMAIN tree /\ m # job
      /\ \A k : PointsTo(tree, job, i, k) => k = m
      /\ cells \in [Cell(tree) -> Nat] /\ jobs \in [Thread -> Seq(DOMAIN tree)]
      /\ <<job, i>> \in Cell(tree)
  BY <1>2, Parents, CellFacts DEF IInv, Kinds, Stored, Store, PointsTo
<1>4. Finished(n) => Finished(n)'
  BY Monotone DEF PF
<1>5. CASE ~tree[m].empty
  <2>1. cells' = Written(<<job, i>>) /\ jobs' = [jobs EXCEPT ![t] = Append(@, m)]
    BY <1>5 DEF PFAdd
  <2>2. Queued(jobs', m) /\ \A k : Queued(jobs, k) => Queued(jobs', k)
    BY <1>3, <2>1, QueueGrows
  <2>3. cells'[<<job, i>>] # 0
    BY <1>2, <2>1, Compute
  <2>4. Awaits(n) => n = m \/ \E p, j : PointsTo(tree, p, j, n) /\ cells'[<<p, j>>] = 0
    <3> HIDE DEF i, m
    <3>1. Awaits(n) => \/ PointsTo(tree, job, i, n)
                       \/ \E p, j : PointsTo(tree, p, j, n) /\ Written(<<job, i>>)[<<p, j>>] = 0
      BY <1>2, StillAwaits
    <3>2. PointsTo(tree, job, i, n) => n = m
      BY <1>3
    <3> QED BY <2>1, <3>1, <3>2
  <2>5. Awaits(n) => Queued(jobs', n) \/ Awaits(n)'
    BY <1>1, <2>2, <2>4 DEF Awaits
  <2> QED BY <1>1, <1>4, <2>2, <2>3, <2>5 DEF Accounted
<1>6. CASE tree[m].empty
  <2>1. /\ jobs' = jobs
        /\ cells' = [c \in DOMAIN cells |->
                       IF c = <<job, i>> \/ c[1] = m THEN cells[c] + 1 ELSE cells[c]]
    BY <1>6 DEF PFAdd
  <2> HIDE DEF i, m
  <2>2. \A c \in Cell(tree) :
          /\ c = <<job, i>> \/ c[1] = m => cells'[c] # 0
          /\ c # <<job, i>> /\ c[1] # m => cells'[c] = cells[c]
    BY <1>3, <2>1
  <2>3. cells'[<<job, i>>] # 0
    BY <1>3, <2>2
  <2>4. n = m => Finished(n)'
    <3> SUFFICES ASSUME n = m, NEW k \in DOMAIN tree[m].items
                 PROVE  cells'[<<m, k>>] # 0
      BY <1>1 DEF Finished
    <3>1. <<m, k>> \in Cell(tree) /\ <<m, k>>[1] = m
      BY <1>3, CellFacts
    <3> QED BY <2>2, <3>1
  <2>5. Awaits(n) => n = m \/ Awaits(n)'
    <3> SUFFICES ASSUME Awaits(n), n # m PROVE Awaits(n)'
      OBVIOUS
    <3>1. PICK p, j : PointsTo(tree, p, j, n) /\ cells[<<p, j>>] = 0 /\ <<p, j>> # <<job, i>>
      BY <1>2, <1>3, StillAwaits
    <3>2. p # m
      BY <1>3, <1>6, <3>1, TreeFacts DEF PointsTo
    <3>3. <<p, j>> \in Cell(tree) /\ <<p, j>>[1] = p
      BY <1>3, <3>1, CellFacts DEF PointsTo
    <3>4. cells'[<<p, j>>] = 0
      BY <2>2, <3>1, <3>2, <3>3
    <3> QED BY <1>1, <3>1, <3>4 DEF Awaits
  <2> QED BY <1>1, <1>4, <2>1, <2>3, <2>4, <2>5 DEF Accounted, i
<1> QED BY <1>5, <1>6

\* Nodes stay accounted for while the job and the lists stay.
LEMMA UnchangedAccounts ==
  ASSUME IInv, Evaluate \/ \E t \in Thread : PF(t), NEW n \in DOMAIN tree, Accounted(n),
         job' = job, jobs' = jobs,
         Awaits(n) => \E p, j : PointsTo(tree, p, j, n) /\ cells'[<<p, j>>] = 0
  PROVE  Accounted(n)'
<1>1. tree' = tree /\ (Finished(n) => Finished(n)')
  BY Monotone
<1> QED BY <1>1 DEF Accounted, Awaits

\* An item that is not nested keeps no node waiting.
LEMMA SimpleKeeps ==
  ASSUME IInv, NEW i, job \in DOMAIN tree, i \in DOMAIN tree[job].items, cells[<<job, i>>] = 0,
         ~ItemOf(tree, job, i).nested, cells' = cells \/ cells' = Written(<<job, i>>),
         NEW n, Awaits(n)
  PROVE  \E p, j : PointsTo(tree, p, j, n) /\ cells'[<<p, j>>] = 0
<1>1. ~PointsTo(tree, job, i, n)
  BY DEF PointsTo
<1>2. CASE cells' = cells
  BY <1>2 DEF Awaits
<1>3. CASE cells' = Written(<<job, i>>)
  BY <1>1, <1>3, StillAwaits
<1> QED BY <1>2, <1>3

LEMMA ThreadAccounts ==
  ASSUME CInv, NEW t \in Thread, PF(t), Reliable
  PROVE  NoneForgotten' /\ MasterBehind'
<1>1. mpc = "join" /\ mpc' = mpc /\ job' = job /\ tree' = tree /\ IInv
  BY ThreadStep DEF CInv
<1> SUFFICES ASSUME NEW n \in DOMAIN tree PROVE Accounted(n)'
  BY <1>1 DEF NoneForgotten, MasterBehind
<1>2. Accounted(n)
  BY <1>1 DEF CInv, Complete, NoneForgotten
<1>3. CASE PFAdd(t)
  BY <1>1, <1>2, <1>3, AddAccounts
<1>4. CASE PFSimple(t)
  <2> DEFINE i == pos[t] + 1
  <2>1. job \in DOMAIN tree /\ i \in DOMAIN tree[job].items /\ cells[<<job, i>>] = 0
        /\ ~ItemOf(tree, job, i).nested
    BY <1>1, <1>4, ItemFacts DEF PFSimple, AtItem
  <2>2. (cells' = cells \/ cells' = Written(<<job, i>>)) /\ jobs' = jobs
    BY <1>4 DEF PFSimple
  <2>3. Awaits(n) => \E p, j : PointsTo(tree, p, j, n) /\ cells'[<<p, j>>] = 0
    BY <1>1, <2>1, <2>2, SimpleKeeps
  <2> QED BY <1>1, <1>2, <2>2, <2>3, UnchangedAccounts
<1>5. CASE PFTest(t) \/ PFAcquire(t) \/ PFUndo(t) \/ PFRelease(t) \/ PFEnd(t)
  <2>1. cells' = cells /\ jobs' = jobs
    BY <1>5 DEF PFTest, PFAcquire, PFUndo, PFRelease, PFEnd
  <2>2. Awaits(n) => \E p, j : PointsTo(tree, p, j, n) /\ cells'[<<p, j>>] = 0
    BY <2>1 DEF Awaits
  <2> QED BY <1>1, <1>2, <2>1, <2>2, UnchangedAccounts
<1> QED BY <1>3, <1>4, <1>5 DEF PF

\* A thread leaves no item of its slice behind.
LEMMA ThreadBehind ==
  ASSUME CInv, NEW t \in Thread, PF(t), Reliable
  PROVE  ThreadsBehind'
<1>1. /\ mpc = "join" /\ mpc' = mpc /\ job' = job /\ tree' = tree /\ IInv
      /\ tpc' \in [Thread -> PC] /\ pos' \in [Thread -> Nat]
      /\ \A u \in Thread \ {t} : tpc'[u] = tpc[u] /\ pos'[u] = pos[u]
  BY ThreadStep DEF CInv
<1>2. tpc \in [Thread -> PC] /\ pos \in [Thread -> Nat] /\ pos[t] \in Nat /\ tree \in Trees
  BY <1>1 DEF IInv, Kinds
<1>3. Count' = Count /\ Items(job)' = Items(job) /\ Items(job) = tree[job].items
      /\ job \in DOMAIN tree /\ Count \in Nat /\ DOMAIN Items(job) = 1 .. Count
  BY <1>1, JobFacts DEF Count, Items, IInv, Working
<1>4. \A u \in Thread : SliceFirst(u, Count)' = SliceFirst(u, Count) /\ SliceLast(u, Count)' = SliceLast(u, Count)
  BY <1>3 DEF SliceFirst, SliceLast
<1>5. \A i \in DOMAIN Items(job) : cells[<<job, i>>] # 0 => cells'[<<job, i>>] # 0
  BY <1>1, <1>2, <1>3, Monotone, CellFacts
<1>6. \A u \in Thread : Behind(u)
  BY <1>1 DEF CInv, Complete, ThreadsBehind
<1>7. ASSUME NEW u \in Thread, Covered(u)' = Covered(u)
      PROVE  Behind(u)'
  BY <1>1, <1>3, <1>4, <1>5, <1>6, <1>7 DEF Behind
<1>8. ASSUME NEW u \in Thread \ {t}
      PROVE  Behind(u)'
  <2>1. Covered(u)' = Covered(u)
    BY <1>1, <1>4 DEF Covered, Passed
  <2> QED BY <1>7, <2>1
<1>9. Flawless(tree)
  BY <1>1 DEF CInv, Remembered, Reliable
<1>10. ASSUME tpc[t] # "idle", Covered(t)' = pos[t] + 1, Covered(t) = pos[t],
              cells'[<<job, pos[t] + 1>>] # 0
       PROVE  Behind(t)'
  <2> SUFFICES ASSUME NEW i \in DOMAIN Items(job), SliceFirst(t, Count) < i, i <= pos[t] + 1
               PROVE  cells'[<<job, i>>] # 0
    BY <1>1, <1>3, <1>4, <1>10 DEF Behind
  <2>1. i <= pos[t] \/ i = pos[t] + 1
    BY <1>2, <1>3
  <2> QED BY <1>5, <1>6, <1>10, <2>1 DEF Behind
<1>11. Behind(t)'
  <2>1. CASE PFSimple(t)
    <3>1. tpc[t] = "item" /\ tpc'[t] = "test" /\ pos' = pos
      BY <1>2, <2>1 DEF PFSimple
    <3>2. Item(t).result = OK
      BY <1>1, <1>9, <2>1, ResultFacts, NothingFails
    <3>3. cells' = Written(<<job, pos[t] + 1>>)
      BY <2>1, <3>2 DEF PFSimple
    <3>4. cells'[<<job, pos[t] + 1>>] # 0
      <4>1. AtItem(t)
        BY <2>1 DEF PFSimple, AtItem
      <4> QED BY <1>1, <3>1, <3>3, <4>1, ItemFacts, Compute
    <3> QED BY <1>10, <3>1, <3>4 DEF Covered, Passed
  <2>2. CASE PFAdd(t)
    <3>1. tpc[t] = "add" /\ tpc'[t] = "added" /\ pos' = pos
      BY <1>2, <2>2 DEF PFAdd
    <3>2. cells'[<<job, pos[t] + 1>>] # 0
      BY <1>1, <1>3, <2>2, AddAccounts DEF CInv, Complete, NoneForgotten
    <3> QED BY <1>10, <3>1, <3>2 DEF Covered, Passed
  <2>3. CASE PFTest(t)
    <3>1. error = OK /\ mine[t] = OK /\ tpc[t] = "test"
      BY <1>1, <1>9, <2>3, NothingFails DEF PFTest, CInv, Remembered, IInv, ErrorHasCause
    <3>2. tpc'[t] = "item" /\ pos'[t] = pos[t] + 1
      BY <1>2, <2>3, <3>1 DEF PFTest
    <3> QED BY <1>7, <3>1, <3>2 DEF Covered, Passed
  <2>4. CASE PFAcquire(t) \/ PFUndo(t)
    <3>1. pos' = pos /\ tpc[t] \in {"item", "retry", "undo"} /\ tpc'[t] \in {"add", "undo", "retry"}
      BY <1>2, <2>4 DEF PFAcquire, PFUndo
    <3> QED BY <1>7, <3>1 DEF Covered, Passed
  <2>5. CASE PFRelease(t)
    <3>1. tpc[t] = "added" /\ tpc'[t] = "item" /\ pos'[t] = pos[t] + 1
      BY <1>2, <2>5 DEF PFRelease
    <3> QED BY <1>7, <3>1 DEF Covered, Passed
  <2>6. CASE PFEnd(t)
    <3>1. tpc[t] = "item" /\ tpc'[t] = "idle" /\ cells' = cells /\ pos[t] >= SliceLast(t, Count)
      BY <1>2, <2>6 DEF PFEnd, AtEnd, Count
    <3>2. Covered(t) = pos[t] /\ Covered(t)' = SliceLast(t, Count) /\ SliceLast(t, Count) \in Nat
      BY <1>3, <1>4, <3>1, SlicesDisjoint DEF Covered, Passed
    <3> SUFFICES ASSUME NEW i \in DOMAIN Items(job), SliceFirst(t, Count) < i, i <= SliceLast(t, Count)
                 PROVE  cells'[<<job, i>>] # 0
      BY <1>1, <1>3, <1>4, <3>2 DEF Behind
    <3>3. i <= Covered(t)
      BY <1>2, <1>3, <3>1, <3>2
    <3> QED BY <1>6, <3>1, <3>3 DEF Behind
  <2> QED BY <2>1, <2>2, <2>3, <2>4, <2>5, <2>6 DEF PF
<1>12. \A u \in Thread : Behind(u)'
  BY <1>8, <1>11
<1> QED BY <1>12 DEF ThreadsBehind

LEMMA StartAccounts ==
  ASSUME CInv, Start
  PROVE  Complete'
<1>1. /\ tree' \in Trees /\ cells' = Unwritten(tree') /\ mpc' = "pick" /\ mpc = "start"
      /\ jobs' = [jobs EXCEPT ![Master] = <<1>>]
  <2>1. Unwritten(tree)' = Unwritten(tree')
    BY DEF Unwritten, Cell
  <2> QED BY <2>1 DEF Start
<1>2. jobs = NoJobs
  BY <1>1 DEF CInv, IInv, NoJobLeftOver
<1>3. Queued(jobs', 1)
  <2>1. jobs'[Master] = <<1>> /\ 1 \in DOMAIN <<1>> /\ <<1>>[1] = 1
    BY <1>1, <1>2, CoresType DEF NoJobs
  <2> QED BY <2>1, CoresType DEF Queued, Entry
<1>4. ASSUME NEW n \in DOMAIN tree', n # 1
      PROVE  Awaits(n)'
  <2>1. PICK p, j : PointsTo(tree', p, j, n)
    BY <1>1, <1>4, Parent
  <2>2. <<p, j>> \in Cell(tree')
    BY <1>1, <2>1, CellFacts DEF PointsTo
  <2>3. cells'[<<p, j>>] = 0
    BY <1>1, <2>2 DEF Unwritten
  <2> QED BY <2>1, <2>3 DEF Awaits
<1>5. \A n \in DOMAIN tree' : Accounted(n)'
  BY <1>3, <1>4 DEF Accounted
<1> QED BY <1>1, <1>5 DEF Complete, NoneForgotten, MasterBehind, ThreadsBehind

LEMMA PickAccounts ==
  ASSUME CInv, NEW t \in Thread, PickJob(t), Reliable
  PROVE  NoneForgotten' /\ MasterBehind' /\ ThreadsBehind'
<1>1. /\ job' \in DOMAIN tree /\ tree' = tree /\ IInv /\ tree \in Trees
      /\ cells' = cells /\ mpc = "pick" /\ job = 0
  BY PickStep DEF PickJob, CInv, IInv, Kinds, Working
<1>2. Items(job)' = Items(job') /\ Count' = Len(Items(job')) /\ Items(job') = tree[job'].items
      /\ DOMAIN tree[job'].items = 1 .. Len(tree[job'].items) /\ Len(tree[job'].items) \in Nat
  BY <1>1, TreeFacts DEF Items, Count
<1>3. ASSUME NEW n \in DOMAIN tree
      PROVE  Accounted(n)'
  <2>1. Accounted(n) /\ n # job
    BY <1>1, TreeFacts DEF CInv, Complete, NoneForgotten
  <2>2. Queued(jobs, n) => n = job' \/ Queued(jobs', n)
    <3>1. jobs[t] # <<>> /\ job' = jobs[t][Len(jobs[t])]
          /\ jobs' = [jobs EXCEPT ![t] = SubSeq(@, 1, Len(@) - 1)]
      BY DEF PickJob, FirstWithJob
    <3>2. jobs \in [Thread -> Seq(DOMAIN tree)]
      BY <1>1 DEF IInv, Stored, Store
    <3> QED BY <1>1, <3>1, <3>2, QueueShrinks
  <2>3. Finished(n) => Finished(n)'
    BY <1>1 DEF Finished
  <2>4. Awaits(n) => Awaits(n)'
    BY <1>1 DEF Awaits
  <2> QED BY <2>1, <2>2, <2>3, <2>4 DEF Accounted
<1>4. MasterBehind'
  <2>1. mpc' = "loop" => pos'[Master] = 0
    BY <1>1, CoresType DEF PickJob, IInv, Kinds
  <2>2. \A i \in DOMAIN Items(job)' : ~(i <= 0)
    BY <1>2
  <2> QED BY <2>1, <2>2 DEF MasterBehind
<1>5. ASSUME mpc' = "join", NEW u \in Thread
      PROVE  Behind(u)'
  <2>1. tpc' = [v \in Thread |-> "item"] /\ pos' = [v \in Thread |-> SliceFirst(v, Len(Items(job')))]
    BY <1>5 DEF PickJob
  <2>2. tpc'[u] = "item" /\ pos'[u] = SliceFirst(u, Count)'
    BY <1>2, <2>1 DEF SliceFirst, SliceLen
  <2>3. SliceFirst(u, Count') \in Nat /\ SliceFirst(u, Count') = SliceFirst(u, Count)'
    BY <1>2, SlicesDisjoint DEF SliceFirst, SliceLen
  <2>4. Covered(u)' = SliceFirst(u, Count)'
    BY <2>2 DEF Covered, Passed
  <2>5. \A i \in DOMAIN Items(job)' : ~(SliceFirst(u, Count)' < i /\ i <= Covered(u)')
    BY <1>2, <2>3, <2>4
  <2> QED BY <2>5 DEF Behind
<1> QED BY <1>1, <1>3, <1>4, <1>5 DEF NoneForgotten, ThreadsBehind

\* The job is finished when the loop has reached its end, and when all threads
\* have: every item is in a slice.
LEMMA JobFinished ==
  ASSUME CInv, Reliable, SeqEnd \/ Join
  PROVE  Finished(job)
<1>1. IInv /\ job \in DOMAIN tree /\ Count \in Nat /\ DOMAIN Items(job) = 1 .. Count /\ Items(job) = tree[job].items
  BY JobFacts DEF CInv, IInv, Working, SeqEnd, Join
<1> SUFFICES ASSUME NEW i \in 1 .. Count PROVE cells[<<job, i>>] # 0
  BY <1>1 DEF Finished
<1>2. CASE SeqEnd
  <2>1. mpc = "loop" /\ pos[Master] >= Count /\ pos[Master] \in Nat
    BY <1>1, <1>2, CoresType DEF SeqEnd, Count, IInv, Kinds
  <2> QED BY <1>1, <2>1 DEF CInv, Complete, MasterBehind
<1>3. CASE Join
  <2>1. PICK t \in Thread : SliceFirst(t, Count) < i /\ i <= SliceLast(t, Count)
    BY <1>1, SlicesCover
  <2>2. Behind(t) /\ tpc[t] = "idle"
    BY <1>3 DEF Join, CInv, Complete, ThreadsBehind
  <2> QED BY <1>1, <2>1, <2>2 DEF Behind, Covered
<1> QED BY <1>2, <1>3

LEMMA MasterAccounts ==
  ASSUME CInv, Reliable, AllDone \/ SeqNested \/ SeqSimple \/ SeqEnd \/ Join \/ Throw \/ Return
  PROVE  NoneForgotten' /\ MasterBehind' /\ ThreadsBehind'
<1>1. IInv /\ tree \in Trees /\ tree' = tree
  BY Monotone DEF CInv, IInv, Kinds, Evaluate
<1>2. \A n \in DOMAIN tree : n # 0
  BY <1>1, TreeFacts
<1>3. mpc' # "join" /\ ThreadsBehind'
  BY DEF AllDone, SeqNested, SeqSimple, SeqEnd, Join, Throw, Return, ThreadsBehind
<1>4. CASE Throw \/ Return
  BY <1>4 DEF Throw, Return, NoneForgotten, MasterBehind, ThreadsBehind
<1>5. CASE AllDone \/ SeqEnd \/ Join
  <2>1. mpc \in {"pick", "loop", "join"} /\ mpc' # "loop" /\ cells' = cells /\ jobs' = jobs /\ job' = 0
    BY <1>5 DEF AllDone, SeqEnd, Join
  <2>2. ASSUME NEW n \in DOMAIN tree
        PROVE  Accounted(n)'
    <3>1. Accounted(n) /\ (Finished(n) => Finished(n)') /\ (Awaits(n) => Awaits(n)')
      BY <1>1, <2>1 DEF CInv, Complete, NoneForgotten, Finished, Awaits
    <3>2. n = job => Finished(n)
      <4>1. CASE AllDone
        BY <1>2, <4>1 DEF AllDone, CInv, IInv, Working
      <4>2. CASE SeqEnd \/ Join
        BY <4>2, JobFinished
      <4> QED BY <1>5, <4>1, <4>2
    <3> QED BY <2>1, <3>1, <3>2 DEF Accounted
  <2> QED BY <1>1, <1>3, <2>1, <2>2 DEF NoneForgotten, MasterBehind
<1>6. CASE SeqNested \/ SeqSimple
  <2> DEFINE i == pos[Master] + 1
  <2>1. mpc = "loop" /\ pos[Master] < Len(Items(job))
    BY <1>6 DEF SeqNested, SeqSimple
  <2>2. job \in DOMAIN tree /\ i \in DOMAIN tree[job].items /\ cells[<<job, i>>] = 0
        /\ Item(Master) = ItemOf(tree, job, i) /\ pos[Master] \in Nat
    BY <1>1, <2>1, MasterItem
  <2>3. CASE mpc' # "loop"
    <3>1. mpc' = "failed"
      BY <1>6, <2>1, <2>3 DEF SeqNested, SeqSimple
    <3> QED BY <1>3, <3>1 DEF NoneForgotten, MasterBehind
  <2>4. CASE mpc' = "loop"
    <3>1. cells' = Written(<<job, i>>) /\ job' = job /\ pos'[Master] = pos[Master] + 1
      <4>1. job' = job /\ pos'[Master] = pos[Master] + 1
        BY <1>1, <1>6, <2>4, MasterStep
      <4>2. cells' = Written(<<job, i>>)
        BY <1>6, <2>1, <2>4 DEF SeqNested, SeqSimple
      <4> QED BY <4>1, <4>2
    <3>2. ASSUME NEW n \in DOMAIN tree
          PROVE  Accounted(n)'
      <4>1. Accounted(n)
        BY <2>1 DEF CInv, Complete, NoneForgotten
      <4>2. CASE SeqSimple
        <5>1. ~ItemOf(tree, job, i).nested /\ jobs' = jobs
          BY <2>2, <4>2 DEF SeqSimple
        <5>2. Awaits(n) => \E p, j : PointsTo(tree, p, j, n) /\ cells'[<<p, j>>] = 0
          BY <1>1, <2>2, <3>1, <5>1, SimpleKeeps
        <5> QED BY <1>1, <3>1, <4>1, <4>2, <5>1, <5>2, UnchangedAccounts DEF Evaluate
      <4>3. CASE SeqNested
        <5> DEFINE m == Item(Master).node
        <5>1. PointsTo(tree, job, i, m) /\ jobs' = [jobs EXCEPT ![Master] = Append(@, m)]
          BY <2>2, <4>3 DEF SeqNested, PointsTo
        <5>2. m \in DOMAIN tree /\ jobs \in [Thread -> Seq(DOMAIN tree)]
              /\ \A k : PointsTo(tree, job, i, k) => k = m
          BY <1>1, <5>1, Parents DEF IInv, Stored, Store, PointsTo
        <5>3. Queued(jobs', m) /\ \A k : Queued(jobs, k) => Queued(jobs', k)
          BY <1>1, <5>1, <5>2, CoresType, QueueGrows
        <5> HIDE DEF i, m
        <5>4. Awaits(n) => \/ PointsTo(tree, job, i, n)
                           \/ \E p, j : PointsTo(tree, p, j, n) /\ Written(<<job, i>>)[<<p, j>>] = 0
          BY <1>1, <2>2, StillAwaits
        <5>5. Awaits(n) => n = m \/ Awaits(n)'
          BY <1>1, <3>1, <5>2, <5>4 DEF Awaits
        <5>6. Finished(n) => Finished(n)'
          BY <1>1, <4>3, Monotone DEF Evaluate
        <5> QED BY <3>1, <4>1, <5>3, <5>5, <5>6 DEF Accounted
      <4> QED BY <1>6, <4>2, <4>3
    <3>3. ASSUME NEW k \in DOMAIN Items(job), k <= pos[Master] + 1
          PROVE  cells'[<<job, k>>] # 0
      <4>1. CASE k = i
        BY <1>1, <2>2, <3>1, <4>1, Compute
      <4>2. CASE k # i
        <5>1. k \in Nat
          BY <1>1, <2>2, JobFacts, TreeFacts
        <5>2. k <= pos[Master]
          BY <2>2, <3>3, <4>2, <5>1
        <5>3. cells[<<job, k>>] # 0
          BY <2>1, <5>2 DEF CInv, Complete, MasterBehind
        <5> QED BY <1>1, <2>2, <3>1, <4>2, <5>3, ComputeOne
      <4> QED BY <4>1, <4>2
    <3>4. Items(job)' = Items(job)
      BY <1>1, <3>1 DEF Items
    <3> QED BY <1>1, <1>3, <3>1, <3>2, <3>3, <3>4 DEF NoneForgotten, MasterBehind
  <2> QED BY <2>3, <2>4
<1> QED BY <1>4, <1>5, <1>6

LEMMA Completion == Spec => []CInv
<1>1. Init => CInv
  <2> SUFFICES ASSUME Init PROVE CInv
    OBVIOUS
  <2>1. mpc = "start"
    BY DEF Init
  <2> QED BY <2>1, InitHolds DEF CInv, Remembered, Complete, NoneForgotten, MasterBehind, ThreadsBehind
<1>2. CInv /\ IInv' /\ [Next]_vars => CInv'
  <2>1. ASSUME CInv, IInv', Next
        PROVE  CInv'
    <3>1. Remembered'
      BY <2>1, RememberedStep
    <3>2. CASE Start
      BY <2>1, <3>1, <3>2, StartAccounts DEF CInv
    <3>3. CASE Evaluate \/ \E t \in Thread : PF(t)
      <4> SUFFICES ASSUME Reliable PROVE NoneForgotten' /\ MasterBehind' /\ ThreadsBehind'
        BY <2>1, <3>1, <3>3, Monotone DEF CInv, Complete
      <4>1. CASE \E t \in Thread : PF(t)
        BY <2>1, <4>1, ThreadAccounts, ThreadBehind
      <4>2. CASE \E t \in Thread : PickJob(t)
        BY <2>1, <4>2, PickAccounts
      <4>3. CASE AllDone \/ SeqNested \/ SeqSimple \/ SeqEnd \/ Join \/ Throw \/ Return
        BY <2>1, <4>3, MasterAccounts
      <4> QED BY <3>3, <4>1, <4>2, <4>3 DEF Evaluate
    <3> QED BY <2>1, <3>2, <3>3 DEF Next
  <2>2. ASSUME CInv, IInv', UNCHANGED vars
        PROVE  CInv'
    <3>1. UNCHANGED <<tree, threshold, mpc, job, error, ec, jobs, tpc, pos, mine, lock, cells, shared>>
      BY <2>2 DEF vars, callVars
    <3>2. Remembered'
      BY <2>2, <3>1 DEF CInv, Remembered, Cause
    <3>3. NoneForgotten' <=> NoneForgotten
      BY <3>1 DEF NoneForgotten, Accounted, Finished, Awaits
    <3>4. MasterBehind' <=> MasterBehind
      BY <3>1 DEF MasterBehind, Items
    <3>5. \A t \in Thread : Behind(t)' <=> Behind(t)
      <4>1. Count' = Count /\ Items(job)' = Items(job)
        BY <3>1 DEF Count, Items
      <4> QED BY <3>1, <4>1 DEF Behind, Covered, Passed, SliceFirst, SliceLast
    <3>6. Reliable' <=> Reliable
      BY <3>1 DEF Reliable, Flawless
    <3> QED BY <2>2, <3>1, <3>2, <3>3, <3>4, <3>5, <3>6 DEF CInv, Complete, ThreadsBehind
  <2> QED BY <2>1, <2>2
<1> QED BY <1>1, <1>2, Invariant, PTL DEF Spec

-----------------------------------------------------------------------------
(* The theorems.                                                           *)

LEMMA TypeHolds ==
  ASSUME IInv
  PROVE  TypeOK
<1>1. Kinds /\ tree \in Trees
  BY DEF IInv, Kinds
<1>2. DOMAIN tree = 1 .. Len(tree) /\ Len(tree) \in Nat
  BY <1>1, TreeFacts
<1>3. jobs \in [Thread -> Seq(1 .. Len(tree))] /\ cells \in [Cell(tree) -> Nat]
  BY <1>2 DEF IInv, Stored, Store
<1>4. job \in NodeOrNone
  BY <1>2 DEF IInv, Stored, Store, NodeOrNone
<1>5. lock \in 0 .. Cores
  <2>1. Adding \in SUBSET Thread
    BY DEF Adding
  <2> QED BY <2>1, ThreadsFinite DEF IInv, Locked
<1>6. {error, ec} \cup {mine[t] : t \in Thread} \subseteq ErrorCode
  BY <1>1 DEF Kinds
<1> QED BY <1>1, <1>3, <1>4, <1>5, <1>6 DEF TypeOK, Kinds, PC

LEMMA QueueHolds ==
  ASSUME IInv
  PROVE  QueuedJobsAreFresh
<1>1. tree \in Trees /\ Store(tree, jobs, cells, job)
  BY DEF IInv, Kinds, Stored
<1>2. QueuedOnce(jobs) /\ cells \in [Cell(tree) -> Nat]
      /\ \A m : Queued(jobs, m) => Blank(tree, cells, job, m)
  BY <1>1 DEF Store
<1>3. \A t \in Thread : \A i, j \in DOMAIN jobs[t] : jobs[t][i] = jobs[t][j] => i = j
  BY <1>2 DEF QueuedOnce, Entry
<1>4. \A t \in Thread : \A n : n \in Queue(t) <=> \E k \in DOMAIN jobs[t] : jobs[t][k] = n
  BY DEF Queue
<1>5. ASSUME NEW t \in Thread, NEW u \in Thread, t # u
      PROVE  Queue(t) \cap Queue(u) = {}
  <2> SUFFICES ASSUME NEW n \in Queue(t), n \in Queue(u) PROVE FALSE
    OBVIOUS
  <2>1. PICK k \in DOMAIN jobs[t], l \in DOMAIN jobs[u] : jobs[t][k] = n /\ jobs[u][l] = n
    BY <1>4
  <2> QED BY <1>2, <1>5, <2>1 DEF QueuedOnce, Entry
<1>6. ASSUME NEW t \in Thread, NEW n \in Queue(t)
      PROVE  n # job /\ \A c \in DOMAIN cells : c[1] = n => cells[c] = 0
  <2>1. Blank(tree, cells, job, n)
    BY <1>2, <1>4 DEF Queued, Entry
  <2>2. ASSUME NEW c \in DOMAIN cells, c[1] = n
        PROVE  cells[c] = 0
    <3>1. c \in Cell(tree)
      BY <1>2
    <3>2. c = <<n, c[2]>> /\ c[2] \in DOMAIN tree[n].items
      BY <1>1, <2>2, <3>1, CellFacts
    <3> QED BY <2>1, <3>2 DEF Blank
  <2> QED BY <2>1, <2>2 DEF Blank
<1> QED BY <1>3, <1>5, <1>6 DEF QueuedJobsAreFresh

\* The shape of the state of do_scalar_B().
THEOREM TypeCorrect == Spec => []TypeOK
  BY Invariant, TypeHolds, PTL

\* jobs_lock of PF_scalar_B() excludes: at most one thread has it.
THEOREM LockExcludes == Spec => []OneAdder
<1>1. IInv => OneAdder
  BY DEF IInv
<1> QED BY <1>1, Invariant, PTL

\* Neither the sequential loop nor the slices of the threads, nor a job that is
\* queued, computes a cell of a result again.
THEOREM NothingIsComputedTwice == Spec => []CellsWrittenOnce
<1>1. IInv => CellsWrittenOnce
  BY DEF IInv, Stored, Store, CellsWrittenOnce
<1> QED BY <1>1, Invariant, PTL

\* The lists of do_scalar_B() hold what remains to be done.
THEOREM JobsAreFresh == Spec => []QueuedJobsAreFresh
  BY Invariant, QueueHolds, PTL

\* The assertion of eval_scalar_B(): an evaluation that ends leaves no job.
THEOREM ListsAreEmptied == Spec => []NoJobLeftOver
<1>1. IInv => NoJobLeftOver
  BY DEF IInv
<1> QED BY <1>1, Invariant, PTL

\* The error that eval_scalar_B() throws is that of an item.
THEOREM ErrorsAreReal == Spec => []ErrorIsReal
<1>1. IInv => ErrorIsReal
  BY DEF IInv
<1> QED BY <1>1, Invariant, PTL

\* Every cell of every value of the result of a function that does not fail has
\* been computed when eval_scalar_B() returns, however the work was shared.
THEOREM FlawlessResults == Spec => []FlawlessIsComplete
<1>1. CInv => FlawlessIsComplete
  BY EndHolds DEF FlawlessIsComplete, Reliable
<1> QED BY <1>1, Completion, PTL

\* A value that the master returns without having shared a job is complete: the
\* sequential loop of do_scalar_B() loses no error.
THEOREM SequentialResults == Spec => []AloneIsComplete
<1>1. CInv => AloneIsComplete
  BY EndHolds DEF AloneIsComplete, Reliable
<1> QED BY <1>1, Completion, PTL
=============================================================================
