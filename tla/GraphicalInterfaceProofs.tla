------------------------ MODULE GraphicalInterfaceProofs ------------------------
(***************************************************************************)
(* What the graphical user interface shows and asks for, for any number of *)
(* sources: levels belong to the sources they are published for, what was  *)
(* asked for last stands, and what is shown as selected is what is changed. *)
(***************************************************************************)
EXTENDS GraphicalInterface, FiniteSetTheorems, WellFoundedInduction, TLAPS

------------------------------------------------------------------------------
(* Lists whose elements come in the order of increasing numbers            *)

LEMMA LeastElement ==
  ASSUME NEW S, S \subseteq Nat, S # {}
  PROVE  \E n \in S : \A k \in S : n <= k
<1> DEFINE Less == {p \in Nat \X Nat : p[1] < p[2]}
<1>1. IsWellFoundedOn(Less, Nat)
  BY NatLessThanWellFounded, Zenon DEF OpToRel
<1> HIDE DEF Less
<1>2. PICK n \in S : \A k \in S : ~ (<<k, n>> \in Less)
  BY <1>1, WFMin
<1>3. ASSUME NEW k \in S PROVE n <= k
  <2>1. n \in Nat /\ k \in Nat
    OBVIOUS
  <2>2. ~ (k < n)
    BY <1>2, <2>1 DEF Less
  <2> QED
    BY <2>1, <2>2
<1> QED
  BY <1>3

Increases(f, N) == \A j, k \in 1 .. N : j < k => f[j] < f[k]

\* An increasing function of 1 .. N into itself never is below its argument:
\* not at the first one, and if not at k then not at k + 1.
LEMMA NeverBelow ==
  ASSUME NEW N \in Nat, NEW f \in [1 .. N -> 1 .. N], Increases(f, N)
  PROVE  \A k \in 1 .. N : k <= f[k]
<1> DEFINE Below == {k \in 1 .. N : f[k] < k}
<1>1. SUFFICES ASSUME Below # {} PROVE FALSE
  OBVIOUS
<1>2. PICK k \in Below : \A j \in Below : k <= j
  <2>1. Below \subseteq Nat
    OBVIOUS
  <2> HIDE DEF Below
  <2> QED
    BY <1>1, <2>1, LeastElement
<1>3. k \in 1 .. N /\ f[k] \in 1 .. N /\ f[k] < k
  OBVIOUS
<1>4. k # 1
  BY <1>3
<1>5. PICK j \in 1 .. N : j = k - 1
  BY <1>3, <1>4
<1>6. f[j] \in 1 .. N /\ f[j] >= j
  BY <1>2, <1>3, <1>5
<1>7. f[j] < f[k]
  BY <1>3, <1>5 DEF Increases
<1> QED
  BY <1>3, <1>5, <1>6, <1>7

\* Nor above: not at the last one, and if not at k + 1 then not at k.
LEMMA NeverAbove ==
  ASSUME NEW N \in Nat, NEW f \in [1 .. N -> 1 .. N], Increases(f, N)
  PROVE  \A k \in 1 .. N : f[k] <= k
<1> DEFINE Above == {m \in 0 .. N - 1 : f[N - m] > N - m}
<1>1. SUFFICES ASSUME NEW i \in 1 .. N, f[i] > i PROVE FALSE
  OBVIOUS
<1>2. Above # {}
  <2>1. N - i \in 0 .. N - 1 /\ N - (N - i) = i
    OBVIOUS
  <2> QED
    BY <1>1, <2>1
<1>3. PICK m \in Above : \A j \in Above : m <= j
  <2>1. Above \subseteq Nat
    OBVIOUS
  <2> HIDE DEF Above
  <2> QED
    BY <1>2, <2>1, LeastElement
<1>4. PICK k \in 1 .. N : k = N - m
  BY <1>3
<1>5. f[k] \in 1 .. N /\ f[k] > k
  BY <1>4
<1>6. m # 0
  BY <1>4, <1>5
<1>7. PICK l \in 1 .. N : l = k + 1 /\ l = N - (m - 1)
  BY <1>3, <1>4, <1>6
<1>8. m - 1 \notin Above /\ m - 1 \in 0 .. N - 1
  <2>1. m \in 0 .. N - 1 /\ m - 1 \in 0 .. N - 1 /\ ~ (m <= m - 1)
    BY <1>3, <1>6
  <2> HIDE DEF Above
  <2> QED
    BY <1>3, <2>1
<1>9. f[l] \in 1 .. N /\ f[l] <= l
  BY <1>7, <1>8
<1>10. f[k] < f[l]
  BY <1>7 DEF Increases
<1> QED
  BY <1>5, <1>7, <1>9, <1>10

\* Two lists of the same length, both increasing: if all that is in the first
\* is in the second, they are equal.
LEMMA SameNumbers ==
  ASSUME NEW N \in Nat, NEW a, NEW b,
         \A k \in 1 .. N : a[k] \in Int /\ b[k] \in Int,
         Increases(a, N), Increases(b, N),
         \A k \in 1 .. N : \E j \in 1 .. N : a[k] = b[j]
  PROVE  \A k \in 1 .. N : a[k] = b[k]
<1> DEFINE f == [k \in 1 .. N |-> CHOOSE j \in 1 .. N : a[k] = b[j]]
<1>1. f \in [1 .. N -> 1 .. N] /\ \A k \in 1 .. N : a[k] = b[f[k]]
  OBVIOUS
<1> HIDE DEF f
<1>2. ASSUME NEW j \in 1 .. N, NEW k \in 1 .. N, j < k PROVE f[j] < f[k]
  <2>1. f[j] \in 1 .. N /\ f[k] \in 1 .. N /\ a[j] = b[f[j]] /\ a[k] = b[f[k]]
    BY <1>1
  <2>2. a[j] < a[k]
    BY <1>2 DEF Increases
  <2>3. ~ (f[k] <= f[j])
    <3>1. SUFFICES ASSUME f[k] <= f[j] PROVE FALSE
      OBVIOUS
    <3>2. CASE f[k] = f[j]
      BY <2>1, <2>2, <3>2
    <3>3. CASE f[k] < f[j]
      <4>1. b[f[k]] < b[f[j]]
        BY <2>1, <3>3 DEF Increases
      <4> QED
        BY <2>1, <2>2, <4>1
    <3> QED
      BY <2>1, <3>1, <3>2, <3>3
  <2> QED
    BY <2>1, <2>3
<1>3. Increases(f, N)
  BY <1>2 DEF Increases
<1>4. f \in [1 .. N -> 1 .. N]
  BY <1>1
<1>5. \A k \in 1 .. N : k <= f[k]
  BY <1>3, <1>4, NeverBelow
<1>6. \A k \in 1 .. N : f[k] <= k
  BY <1>3, <1>4, NeverAbove
<1>7. \A k \in 1 .. N : f[k] = k
  BY <1>4, <1>5, <1>6
<1> QED
  BY <1>1, <1>7
------------------------------------------------------------------------------
(* The levels of the sources                                               *)

Sources == [n : Nat, id : Nat, address : Addresses]
Commands == [op : {"add", "rem"}, source : Sources]

QueriesTypes ==
  /\ _source_map \in Seq(Sources) /\ _source_list \in Seq(Sources)
  /\ pending \in Seq(Commands)
  /\ made \in Nat /\ highest_id \in Nat
  /\ query_command \in {"pushed", "executed"}
  /\ _source_levels \in Seq(Nat) /\ _discard_source_levels \in BOOLEAN
  /\ reused \in BOOLEAN

IsIn(source, s) == \E k \in DOMAIN s : s[k] = source

\* Command k adds, or removes, the source.
Adds(k, source) == pending[k].op = "add" /\ pending[k].source = source
Removes(k, source) == pending[k].op = "rem" /\ pending[k].source = source

IsKnown(source) ==
  \/ IsIn(source, _source_map)
  \/ IsIn(source, _source_list)
  \/ \E k \in DOMAIN pending : pending[k].source = source

\* The memory of a source is used for no other one as long as anybody knows it.
MadeInv ==
  \A s \in Sources : IsKnown(s) =>
    /\ s.n <= made
    /\ \A t \in Sources : IsKnown(t) /\ (s.n = t.n \/ s.address = t.address) => s = t

\* In the order they were made.
Ordered(s) == \A j, k \in DOMAIN s : j < k => s[j].n < s[k].n

\* What is still to be added was made after all that is in the list; everything in the
\* map is in the list or is to be added, and nothing that is to be removed.
ListInv ==
  /\ Ordered(_source_map) /\ Ordered(_source_list)
  /\ \A k \in DOMAIN pending : pending[k].op = "add" =>
       /\ \A i \in DOMAIN _source_list : _source_list[i].n < pending[k].source.n
       /\ \A j \in DOMAIN pending : j < k /\ pending[j].op = "add" =>
            pending[j].source.n < pending[k].source.n
  /\ \A i \in DOMAIN _source_map :
       \/ IsIn(_source_map[i], _source_list)
       \/ \E k \in DOMAIN pending : Adds(k, _source_map[i])

\* Each removal is of a source that is in the list by then, and in the map no more.
RemovalInv ==
  \A k \in DOMAIN pending : pending[k].op = "rem" =>
    /\ ~ IsIn(pending[k].source, _source_map)
    /\ \/ IsIn(pending[k].source, _source_list)
       \/ \E j \in DOMAIN pending : j < k /\ Adds(j, pending[k].source)
    /\ \A j \in DOMAIN pending : j < k => ~ Removes(j, pending[k].source)

\* Between query() and update() the levels are those of sources that were in the list,
\* in their order; what is in the map was among them or was made later; and only the
\* last of them has the address that was noted.
LevelsInv ==
  query_command = "executed" /\ ~ _discard_source_levels /\ ~ reused =>
    /\ Increases(_source_levels, Len(_source_levels))
    /\ \A k \in DOMAIN _source_levels : _source_levels[k] <= made
    /\ \A i \in DOMAIN _source_map :
         /\ \/ \E k \in DOMAIN _source_levels : _source_map[i].n = _source_levels[k]
            \/ \A k \in DOMAIN _source_levels : _source_levels[k] < _source_map[i].n
         /\ _source_map[i].address = _last_source =>
              /\ _source_levels # <<>>
              /\ _source_map[i].n = _source_levels[Len(_source_levels)]

QueriesInv ==
  QueriesTypes /\ MadeInv /\ ListInv /\ RemovalInv /\ LevelsInv /\ LevelsBelong

LEMMA Positions ==
  ASSUME NEW S, NEW s \in Seq(S)
  PROVE  /\ DOMAIN s = 1 .. Len(s) /\ Len(s) \in Nat
         /\ \A k \in DOMAIN s : s[k] \in S
OBVIOUS

LEMMA Joined ==
  ASSUME NEW S, NEW u \in Seq(S), NEW v \in Seq(S)
  PROVE  /\ u \o v \in Seq(S) /\ DOMAIN (u \o v) = 1 .. Len(u) + Len(v)
         /\ \A k \in 1 .. Len(u) : (u \o v)[k] = u[k]
         /\ \A k \in 1 .. Len(v) : (u \o v)[Len(u) + k] = v[k]
OBVIOUS

\* A list without one of its elements: it keeps its order, and nothing else is lost.
LEMMA WithoutOne ==
  ASSUME NEW s \in Seq(Sources), NEW source, IsIn(source, s), Ordered(s)
  PROVE  /\ Without(s, source) \in Seq(Sources)
         /\ Ordered(Without(s, source))
         /\ \A x : IsIn(x, Without(s, source)) <=> IsIn(x, s) /\ x # source
<1>1. DOMAIN s = 1 .. Len(s) /\ Len(s) \in Nat /\ \A k \in 1 .. Len(s) : s[k] \in Sources
  BY Positions
<1>2. PICK p \in 1 .. Len(s) : s[p] = source /\ p = CHOOSE k \in DOMAIN s : s[k] = source
  BY <1>1 DEF IsIn
<1>3. \A k \in 1 .. Len(s) : s[k].n \in Nat
  BY <1>1 DEF Sources
<1>4. \A k \in 1 .. Len(s) : s[k] = source => k = p
  <2>1. SUFFICES ASSUME NEW k \in 1 .. Len(s), s[k] = source, k # p PROVE FALSE
    OBVIOUS
  <2>2. k < p \/ p < k
    BY <2>1
  <2>3. s[k].n < s[p].n \/ s[p].n < s[k].n
    BY <1>1, <2>2 DEF Ordered
  <2> QED
    BY <1>2, <1>3, <2>1, <2>3
<1>5. PICK u \in Seq(Sources) : /\ u = SubSeq(s, 1, p - 1) /\ Len(u) = p - 1
                                /\ \A k \in 1 .. p - 1 : u[k] = s[k]
  <2>1. /\ SubSeq(s, 1, p - 1) \in Seq(Sources) /\ Len(SubSeq(s, 1, p - 1)) = p - 1
        /\ \A k \in 1 .. p - 1 : SubSeq(s, 1, p - 1)[k] = s[k]
    BY <1>1, <1>2
  <2> QED
    BY <2>1
<1>6. PICK v \in Seq(Sources) : /\ v = SubSeq(s, p + 1, Len(s)) /\ Len(v) = Len(s) - p
                                /\ \A k \in 1 .. Len(s) - p : v[k] = s[k + p]
  <2>1. /\ SubSeq(s, p + 1, Len(s)) \in Seq(Sources) /\ Len(SubSeq(s, p + 1, Len(s))) = Len(s) - p
        /\ \A k \in 1 .. Len(s) - p : SubSeq(s, p + 1, Len(s))[k] = s[k + p]
    BY <1>1, <1>2
  <2> QED
    BY <2>1
<1>7. PICK t \in Seq(Sources) : t = Without(s, source) /\ t = u \o v
  <2>1. Without(s, source) = u \o v
    BY <1>2, <1>5, <1>6 DEF Without, RemoveAt
  <2> QED
    BY <2>1, Joined
<1>8. /\ DOMAIN t = 1 .. Len(s) - 1
      /\ \A k \in 1 .. p - 1 : t[k] = u[k]
      /\ \A k \in 1 .. Len(s) - p : t[p - 1 + k] = v[k]
  <2>1. /\ DOMAIN (u \o v) = 1 .. Len(u) + Len(v)
        /\ \A k \in 1 .. Len(u) : (u \o v)[k] = u[k]
        /\ \A k \in 1 .. Len(v) : (u \o v)[Len(u) + k] = v[k]
    BY Joined
  <2>2. Len(u) + Len(v) = Len(s) - 1
    <3>1. Len(u) = p - 1 /\ Len(v) = Len(s) - p /\ Len(s) \in Nat
      BY <1>1, <1>5, <1>6
    <3> QED
      BY <3>1
  <2> QED
    BY <1>5, <1>6, <1>7, <2>1, <2>2
<1>9. \A k \in 1 .. p - 1 : k \in DOMAIN t /\ t[k] = s[k]
  BY <1>1, <1>5, <1>8
<1>10. \A k \in p .. Len(s) - 1 : k \in DOMAIN t /\ t[k] = s[k + 1]
  <2>1. SUFFICES ASSUME NEW k \in p .. Len(s) - 1 PROVE k \in DOMAIN t /\ t[k] = s[k + 1]
    OBVIOUS
  <2>2. PICK i \in 1 .. Len(s) - p : i = k - (p - 1)
    BY <1>1
  <2>3. p - 1 + i = k /\ i + p = k + 1 /\ k \in 1 .. Len(s) - 1
    BY <1>1, <2>2
  <2> QED
    BY <1>6, <1>8, <2>3
<1>11. \A k \in DOMAIN t : \E i \in 1 .. Len(s) :
         t[k] = s[i] /\ i # p /\ i = IF k < p THEN k ELSE k + 1
  <2>1. SUFFICES ASSUME NEW k \in DOMAIN t
                 PROVE  \E i \in 1 .. Len(s) :
                          t[k] = s[i] /\ i # p /\ i = IF k < p THEN k ELSE k + 1
    OBVIOUS
  <2>2. k \in 1 .. Len(s) - 1
    BY <1>8
  <2>3. CASE k < p
    <3>1. k \in 1 .. p - 1 /\ k \in 1 .. Len(s)
      BY <1>1, <2>2, <2>3
    <3> QED
      BY <1>9, <2>3, <3>1
  <2>4. CASE ~ (k < p)
    <3>1. PICK i \in 1 .. Len(s) : i = k + 1 /\ k \in p .. Len(s) - 1
      BY <1>1, <2>2, <2>4
    <3>2. t[k] = s[i] /\ i # p
      BY <1>10, <2>4, <3>1
    <3> QED
      BY <2>4, <3>1, <3>2
  <2> QED
    BY <2>3, <2>4
<1>12. Ordered(t)
  <2>1. SUFFICES ASSUME NEW j \in DOMAIN t, NEW k \in DOMAIN t, j < k PROVE t[j].n < t[k].n
    BY DEF Ordered
  <2>2. PICK i \in 1 .. Len(s) : t[j] = s[i] /\ i = IF j < p THEN j ELSE j + 1
    BY <1>11
  <2>3. PICK l \in 1 .. Len(s) : t[k] = s[l] /\ l = IF k < p THEN k ELSE k + 1
    BY <1>11
  <2>4. i < l
    BY <1>2, <1>8, <2>1, <2>2, <2>3
  <2> QED
    BY <1>1, <2>2, <2>3, <2>4 DEF Ordered
<1>13. ASSUME NEW x PROVE IsIn(x, t) <=> IsIn(x, s) /\ x # source
  <2>1. ASSUME IsIn(x, t) PROVE IsIn(x, s) /\ x # source
    BY <1>1, <1>2, <1>4, <1>11, <2>1 DEF IsIn
  <2>2. ASSUME IsIn(x, s), x # source PROVE IsIn(x, t)
    <3>1. PICK i \in 1 .. Len(s) : s[i] = x
      BY <1>1, <2>2 DEF IsIn
    <3>2. i # p
      BY <1>2, <2>2, <3>1
    <3>3. CASE i < p
      <4>1. i \in 1 .. p - 1
        BY <3>3
      <4> QED
        BY <1>9, <3>1, <4>1 DEF IsIn
    <3>4. CASE i > p
      <4>1. PICK k \in p .. Len(s) - 1 : k + 1 = i
        <5>1. i - 1 \in p .. Len(s) - 1 /\ (i - 1) + 1 = i
          BY <1>1, <3>4
        <5> QED
          BY <5>1
      <4> QED
        BY <1>10, <3>1, <4>1 DEF IsIn
    <3> QED
      BY <1>2, <3>2, <3>3, <3>4
  <2> QED
    BY <2>1, <2>2
<1> QED
  BY <1>7, <1>12, <1>13

LEMMA WithOneMore ==
  ASSUME NEW S, NEW s \in Seq(S), NEW x \in S
  PROVE  /\ Append(s, x) \in Seq(S) /\ Len(Append(s, x)) = Len(s) + 1
         /\ DOMAIN Append(s, x) = 1 .. Len(s) + 1
         /\ \A k \in DOMAIN s : Append(s, x)[k] = s[k]
         /\ Append(s, x)[Len(s) + 1] = x
         /\ \A y : IsIn(y, Append(s, x)) <=> IsIn(y, s) \/ y = x
<1>1. DOMAIN s = 1 .. Len(s) /\ Len(s) \in Nat
  BY Positions
<1>2. /\ Append(s, x) \in Seq(S) /\ Len(Append(s, x)) = Len(s) + 1
      /\ DOMAIN Append(s, x) = 1 .. Len(s) + 1
      /\ \A k \in DOMAIN s : Append(s, x)[k] = s[k]
      /\ Append(s, x)[Len(s) + 1] = x
  BY <1>1
<1> DEFINE t == Append(s, x)
<1> HIDE DEF t
<1>3. \A k \in DOMAIN t : k \in DOMAIN s \/ k = Len(s) + 1
  BY <1>1, <1>2 DEF t
<1>4. DOMAIN s \subseteq DOMAIN t /\ Len(s) + 1 \in DOMAIN t
  BY <1>1, <1>2 DEF t
<1>5. ASSUME NEW y PROVE IsIn(y, t) <=> IsIn(y, s) \/ y = x
  BY <1>2, <1>3, <1>4 DEF IsIn, t
<1> QED
  BY <1>2, <1>5 DEF t

\* The first command is gone, the others move up.
LEMMA WithoutFirst ==
  ASSUME NEW S, NEW s \in Seq(S), s # <<>>
  PROVE  /\ Tail(s) \in Seq(S) /\ Head(s) = s[1] /\ 1 \in DOMAIN s
         /\ \A k \in DOMAIN Tail(s) : k + 1 \in DOMAIN s /\ Tail(s)[k] = s[k + 1] /\ k \in Nat \ {0}
         /\ \A k \in DOMAIN s : k = 1 \/ \E i \in DOMAIN Tail(s) : k = i + 1 /\ Tail(s)[i] = s[k]
<1>1. DOMAIN s = 1 .. Len(s) /\ Len(s) \in Nat
  BY Positions
<1>2. Len(s) > 0
  BY <1>1
<1>3. /\ Tail(s) \in Seq(S) /\ Len(Tail(s)) = Len(s) - 1
      /\ \A i \in 1 .. Len(s) - 1 : Tail(s)[i] = s[i + 1]
  BY <1>1, <1>2
<1>4. DOMAIN Tail(s) = 1 .. Len(s) - 1
  BY <1>3, Positions
<1>5. \A k \in DOMAIN s : k = 1 \/ \E i \in DOMAIN Tail(s) : k = i + 1 /\ Tail(s)[i] = s[k]
  <2>1. SUFFICES ASSUME NEW k \in DOMAIN s, k # 1
                 PROVE  \E i \in DOMAIN Tail(s) : k = i + 1 /\ Tail(s)[i] = s[k]
    OBVIOUS
  <2>2. PICK i \in 1 .. Len(s) - 1 : k = i + 1
    BY <1>1, <2>1
  <2> QED
    BY <1>3, <1>4, <2>2
<1> QED
  BY <1>1, <1>2, <1>3, <1>4, <1>5

LEMMA QueriesTyped == QueriesTypes =>
  /\ DOMAIN _source_map = 1 .. Len(_source_map) /\ Len(_source_map) \in Nat
  /\ DOMAIN _source_list = 1 .. Len(_source_list) /\ Len(_source_list) \in Nat
  /\ DOMAIN pending = 1 .. Len(pending) /\ Len(pending) \in Nat
  /\ DOMAIN _source_levels = 1 .. Len(_source_levels) /\ Len(_source_levels) \in Nat
  /\ \A k \in DOMAIN _source_map : _source_map[k] \in Sources /\ _source_map[k].n \in Nat
  /\ \A k \in DOMAIN _source_list : _source_list[k] \in Sources /\ _source_list[k].n \in Nat
  /\ \A k \in DOMAIN pending :
       /\ pending[k].op \in {"add", "rem"}
       /\ pending[k].source \in Sources /\ pending[k].source.n \in Nat
  /\ \A k \in DOMAIN _source_levels : _source_levels[k] \in Nat
<1>1. \A s \in Sources : s.n \in Nat
  BY DEF Sources
<1>2. \A cmd \in Commands : cmd.op \in {"add", "rem"} /\ cmd.source \in Sources
  BY DEF Commands
<1> QED
  BY <1>1, <1>2, Positions DEF QueriesTypes

LEMMA NobodyNew ==
  ASSUME MadeInv, made' = made, \A s \in Sources : IsKnown(s)' => IsKnown(s)
  PROVE  MadeInv'
BY DEF MadeInv

\* The memory of a source that is known is in use.
LEMMA KnownInUse ==
  ASSUME QueriesTypes, NEW s \in Sources, IsKnown(s)
  PROVE  s.address \in InUse
<1>1. s \in ToSet(_source_map) \cup ToSet(_source_list) \cup { cmd.source : cmd \in ToSet(pending) }
  BY DEF IsKnown, IsIn, ToSet
<1> QED
  BY <1>1 DEF InUse

SourceMade(address) == [n |-> made + 1, id |-> highest_id + 1, address |-> address]

LEMMA AddSourceStep == QueriesInv /\ AddSource => QueriesInv'
<1> SUFFICES ASSUME QueriesInv, AddSource PROVE QueriesInv'
  OBVIOUS
<1> USE DEF QueriesInv
<1>1. PICK address \in Addresses \ InUse :
        /\ _source_map' = Append(_source_map, SourceMade(address))
        /\ pending' = Append(pending, [op |-> "add", source |-> SourceMade(address)])
        /\ reused' = (reused \/ address = _last_source)
  BY DEF AddSource, SourceMade
<1>2. /\ made' = made + 1 /\ highest_id' = highest_id + 1
      /\ UNCHANGED <<_source_list, query_command, _source_levels, _discard_source_levels,
                     _last_source, published>>
  BY DEF AddSource
<1>3. PICK new \in Sources :
        new = SourceMade(address) /\ new.n = made + 1 /\ new.address = address
  <2>1. PICK n \in Nat, id \in Nat : n = made + 1 /\ id = highest_id + 1
    BY DEF QueriesTypes
  <2>2. SourceMade(address) = [n |-> n, id |-> id, address |-> address]
    BY <2>1 DEF SourceMade
  <2>3. [n |-> n, id |-> id, address |-> address] \in Sources
    BY DEF Sources
  <2> QED
    BY <2>1, <2>2, <2>3
<1>4. PICK cmd \in Commands :
        /\ cmd = [op |-> "add", source |-> SourceMade(address)]
        /\ cmd.op = "add" /\ cmd.source = new
  <2>1. [op |-> "add", source |-> new] \in Commands
    BY DEF Commands
  <2> QED
    BY <1>3, <2>1
<1>5. /\ DOMAIN _source_map = 1 .. Len(_source_map) /\ Len(_source_map) \in Nat
      /\ DOMAIN pending = 1 .. Len(pending) /\ Len(pending) \in Nat
      /\ made \in Nat
      /\ \A k \in DOMAIN _source_map : _source_map[k] \in Sources /\ _source_map[k].n \in Nat
      /\ \A k \in DOMAIN _source_list : _source_list[k] \in Sources /\ _source_list[k].n \in Nat
      /\ \A k \in DOMAIN pending : pending[k].source \in Sources /\ pending[k].source.n \in Nat
      /\ \A k \in DOMAIN _source_levels : _source_levels[k] \in Nat
  BY QueriesTyped DEF QueriesTypes
<1>6. /\ _source_map' \in Seq(Sources) /\ DOMAIN _source_map' = 1 .. Len(_source_map) + 1
      /\ \A k \in DOMAIN _source_map : _source_map'[k] = _source_map[k]
      /\ _source_map'[Len(_source_map) + 1] = new
      /\ \A y : IsIn(y, _source_map') <=> IsIn(y, _source_map) \/ y = new
  BY <1>1, <1>3, WithOneMore DEF QueriesTypes
<1>7. /\ pending' \in Seq(Commands) /\ DOMAIN pending' = 1 .. Len(pending) + 1
      /\ \A k \in DOMAIN pending : pending'[k] = pending[k]
      /\ pending'[Len(pending) + 1] = cmd
  BY <1>1, <1>4, WithOneMore DEF QueriesTypes
<1>8. \A k \in DOMAIN pending' : k \in DOMAIN pending \/ k = Len(pending) + 1
  BY <1>5, <1>7
<1>9. \A k \in DOMAIN _source_map' : k \in DOMAIN _source_map \/ k = Len(_source_map) + 1
  BY <1>5, <1>6
<1>10. \A s \in Sources : IsKnown(s)' => IsKnown(s) \/ s = new
  <2>1. \A s : IsIn(s, _source_list') => IsIn(s, _source_list)
    BY <1>2
  <2>2. \A k \in DOMAIN pending' : pending'[k].source = new \/ (k \in DOMAIN pending /\ pending'[k] = pending[k])
    BY <1>4, <1>7, <1>8
  <2> QED
    BY <1>6, <2>1, <2>2 DEF IsKnown
<1>11. \A s \in Sources : IsKnown(s) => s.n <= made /\ s.n # new.n /\ s.address # new.address
  <2>1. SUFFICES ASSUME NEW s \in Sources, IsKnown(s)
                 PROVE  s.n <= made /\ s.n # new.n /\ s.address # new.address
    OBVIOUS
  <2>2. s.n <= made /\ s.n \in Nat
    BY <2>1 DEF MadeInv, Sources
  <2>3. s.address # new.address
    BY <1>1, <1>3, <2>1, KnownInUse
  <2> QED
    BY <1>3, <1>5, <2>2, <2>3
<1>12. /\ \A i \in DOMAIN _source_map : _source_map[i].n <= made
       /\ \A i \in DOMAIN _source_list : _source_list[i].n <= made
       /\ \A k \in DOMAIN pending : pending[k].source.n <= made
  BY <1>5 DEF MadeInv, IsKnown, IsIn
<1>13. ~ IsIn(new, _source_map) /\ ~ IsIn(new, _source_list)
       /\ \A k \in DOMAIN pending : pending[k].source # new
  BY <1>11 DEF IsKnown
<1>14. QueriesTypes'
  BY <1>1, <1>2, <1>6, <1>7 DEF QueriesTypes
<1>15. MadeInv'
  <2>1. SUFFICES ASSUME NEW s \in Sources, IsKnown(s)'
                 PROVE  /\ s.n <= made'
                        /\ \A t \in Sources : IsKnown(t)' /\ (s.n = t.n \/ s.address = t.address) => s = t
    BY DEF MadeInv
  <2>2. s.n <= made' /\ s.n \in Nat
    BY <1>2, <1>3, <1>5, <1>10, <1>11, <2>1 DEF Sources
  <2>3. ASSUME NEW t \in Sources, IsKnown(t)', s.n = t.n \/ s.address = t.address
        PROVE  s = t
    <3>1. (IsKnown(s) \/ s = new) /\ (IsKnown(t) \/ t = new)
      BY <1>10, <2>1, <2>3
    <3> QED
      BY <1>11, <2>3, <3>1 DEF MadeInv
  <2> QED
    BY <2>2, <2>3
<1>16. ListInv'
  <2>1. Ordered(_source_map)'
    <3>1. SUFFICES ASSUME NEW j \in DOMAIN _source_map', NEW k \in DOMAIN _source_map', j < k
                   PROVE  _source_map'[j].n < _source_map'[k].n
      BY DEF Ordered
    <3>2. CASE k \in DOMAIN _source_map
      <4>1. j \in DOMAIN _source_map
        BY <1>5, <1>6, <3>1, <3>2
      <4> QED
        BY <1>6, <3>1, <3>2, <4>1 DEF ListInv, Ordered
    <3>3. CASE k = Len(_source_map) + 1
      <4>1. j \in DOMAIN _source_map
        BY <1>5, <1>6, <3>1, <3>3
      <4> QED
        BY <1>3, <1>5, <1>6, <1>12, <3>3, <4>1
    <3> QED
      BY <1>9, <3>2, <3>3
  <2>2. Ordered(_source_list)'
    BY <1>2 DEF ListInv
  <2>3. ASSUME NEW k \in DOMAIN pending', pending'[k].op = "add"
        PROVE  /\ \A i \in DOMAIN _source_list' : _source_list'[i].n < pending'[k].source.n
               /\ \A j \in DOMAIN pending' : j < k /\ pending'[j].op = "add" =>
                    pending'[j].source.n < pending'[k].source.n
    <3>1. CASE k \in DOMAIN pending
      <4>1. \A j \in DOMAIN pending' : j < k => j \in DOMAIN pending
        BY <1>5, <1>7, <3>1
      <4> QED
        BY <1>2, <1>7, <2>3, <3>1, <4>1 DEF ListInv
    <3>2. CASE k = Len(pending) + 1
      <4>1. pending'[k].source.n = made + 1
        BY <1>3, <1>4, <1>7, <3>2
      <4>2. \A j \in DOMAIN pending' : j < k => j \in DOMAIN pending /\ pending'[j] = pending[j]
        BY <1>5, <1>7, <3>2
      <4>3. \A i \in DOMAIN _source_list' : _source_list'[i].n < made + 1
        BY <1>2, <1>5, <1>12
      <4>4. \A j \in DOMAIN pending' : j < k => pending'[j].source.n < made + 1
        BY <1>5, <1>12, <4>2
      <4> QED
        BY <4>1, <4>3, <4>4
    <3> QED
      BY <1>8, <3>1, <3>2
  <2>4. ASSUME NEW i \in DOMAIN _source_map'
        PROVE  \/ IsIn(_source_map'[i], _source_list')
               \/ \E k \in DOMAIN pending' : Adds(k, _source_map[i])'
    <3>1. CASE i \in DOMAIN _source_map
      <4>1. _source_map'[i] = _source_map[i]
        BY <1>6, <3>1
      <4>2. \A k \in DOMAIN pending : k \in DOMAIN pending' /\ pending'[k] = pending[k]
        BY <1>5, <1>7
      <4> QED
        BY <1>2, <3>1, <4>1, <4>2 DEF ListInv, Adds
    <3>2. CASE i = Len(_source_map) + 1
      <4>1. PICK l \in DOMAIN pending' : pending'[l] = cmd
        BY <1>5, <1>7
      <4> QED
        BY <1>4, <1>6, <3>2, <4>1 DEF Adds
    <3> QED
      BY <1>9, <3>1, <3>2
  <2> QED
    BY <2>1, <2>2, <2>3, <2>4 DEF ListInv
<1>17. RemovalInv'
  <2>1. SUFFICES ASSUME NEW k \in DOMAIN pending', pending'[k].op = "rem"
                 PROVE  /\ ~ IsIn(pending'[k].source, _source_map')
                        /\ \/ IsIn(pending'[k].source, _source_list')
                           \/ \E j \in DOMAIN pending' : j < k /\ Adds(j, pending[k].source)'
                        /\ \A j \in DOMAIN pending' : j < k => ~ Removes(j, pending[k].source)'
    BY DEF RemovalInv
  <2>2. k \in DOMAIN pending /\ pending'[k] = pending[k]
    BY <1>4, <1>7, <1>8, <2>1
  <2>3. \A j \in DOMAIN pending' : j < k => j \in DOMAIN pending /\ pending'[j] = pending[j]
    BY <1>5, <1>7, <2>2
  <2>4. \A j \in DOMAIN pending : j \in DOMAIN pending' /\ pending'[j] = pending[j]
    BY <1>5, <1>7
  <2>5. ~ IsIn(pending'[k].source, _source_map')
    BY <1>6, <1>13, <2>1, <2>2 DEF RemovalInv
  <2>6. \/ IsIn(pending'[k].source, _source_list')
        \/ \E j \in DOMAIN pending' : j < k /\ Adds(j, pending[k].source)'
    BY <1>2, <2>1, <2>2, <2>4 DEF RemovalInv, Adds
  <2>7. \A j \in DOMAIN pending' : j < k => ~ Removes(j, pending[k].source)'
    BY <2>1, <2>2, <2>3 DEF RemovalInv, Removes
  <2> QED
    BY <2>5, <2>6, <2>7
<1>18. LevelsInv'
  <2>1. SUFFICES ASSUME query_command' = "executed", ~ _discard_source_levels', ~ reused'
                 PROVE  LevelsInv'
    BY DEF LevelsInv
  <2>2. query_command = "executed" /\ ~ _discard_source_levels /\ ~ reused /\ address # _last_source
    BY <1>1, <1>2, <2>1
  <2>3. \A k \in DOMAIN _source_levels : _source_levels[k] <= made /\ _source_levels[k] < new.n
    BY <1>3, <1>5, <2>2 DEF LevelsInv
  <2>4. \A k \in DOMAIN _source_levels' : _source_levels'[k] <= made'
    BY <1>2, <1>5, <2>3
  <2>5. Increases(_source_levels', Len(_source_levels'))
    BY <1>2, <2>2 DEF LevelsInv
  <2>6. ASSUME NEW i \in DOMAIN _source_map'
        PROVE  /\ \/ \E k \in DOMAIN _source_levels' : _source_map'[i].n = _source_levels'[k]
                  \/ \A k \in DOMAIN _source_levels' : _source_levels'[k] < _source_map'[i].n
               /\ _source_map'[i].address = _last_source' =>
                    /\ _source_levels' # <<>>
                    /\ _source_map'[i].n = _source_levels'[Len(_source_levels')]
    <3>1. CASE i \in DOMAIN _source_map
      BY <1>2, <1>6, <2>2, <3>1 DEF LevelsInv
    <3>2. CASE i = Len(_source_map) + 1
      BY <1>2, <1>3, <1>6, <2>2, <2>3, <3>2
    <3> QED
      BY <1>9, <3>1, <3>2
  <2> QED
    BY <2>4, <2>5, <2>6 DEF LevelsInv
<1>19. LevelsBelong'
  BY <1>1, <1>2 DEF LevelsBelong
<1> QED
  BY <1>14, <1>15, <1>16, <1>17, <1>18, <1>19

LEMMA RemSourceStep == QueriesInv /\ RemSource => QueriesInv'
<1> SUFFICES ASSUME QueriesInv, RemSource PROVE QueriesInv'
  OBVIOUS
<1> USE DEF QueriesInv
<1>1. PICK source \in ToSet(_source_map) :
        /\ _source_map' = Without(_source_map, source)
        /\ pending' = Append(pending, [op |-> "rem", source |-> source])
  BY DEF RemSource
<1>2. UNCHANGED <<highest_id, made, _source_list, query_command, _source_levels,
                  _discard_source_levels, _last_source, published, reused>>
  BY DEF RemSource
<1>3. /\ DOMAIN _source_map = 1 .. Len(_source_map) /\ Len(_source_map) \in Nat
      /\ DOMAIN pending = 1 .. Len(pending) /\ Len(pending) \in Nat
      /\ \A k \in DOMAIN _source_map : _source_map[k] \in Sources
  BY QueriesTyped
<1>4. IsIn(source, _source_map) /\ source \in Sources
  BY <1>1, <1>3 DEF IsIn, ToSet
<1>5. PICK cmd \in Commands :
        cmd = [op |-> "rem", source |-> source] /\ cmd.op = "rem" /\ cmd.source = source
  <2>1. [op |-> "rem", source |-> source] \in Commands
    BY <1>4 DEF Commands
  <2> QED
    BY <2>1
<1>6. /\ _source_map' \in Seq(Sources) /\ Ordered(_source_map')
      /\ \A x : IsIn(x, _source_map') <=> IsIn(x, _source_map) /\ x # source
  BY <1>1, <1>4, WithoutOne DEF QueriesTypes, ListInv
<1>7. \A i \in DOMAIN _source_map' : \E l \in DOMAIN _source_map : _source_map'[i] = _source_map[l]
  BY <1>6 DEF IsIn
<1>8. /\ pending' \in Seq(Commands) /\ DOMAIN pending' = 1 .. Len(pending) + 1
      /\ \A k \in DOMAIN pending : pending'[k] = pending[k]
      /\ pending'[Len(pending) + 1] = cmd
  BY <1>1, <1>5, WithOneMore DEF QueriesTypes
<1>9. \A k \in DOMAIN pending' : k \in DOMAIN pending \/ k = Len(pending) + 1
  BY <1>3, <1>8
<1>10. \A k \in DOMAIN pending : k \in DOMAIN pending' /\ pending'[k] = pending[k]
  BY <1>3, <1>8
<1>11. \A j, k \in DOMAIN pending' : j < k => j \in DOMAIN pending /\ pending'[j] = pending[j]
  BY <1>3, <1>8, <1>9
<1>12. QueriesTypes'
  BY <1>2, <1>6, <1>8 DEF QueriesTypes
<1>13. MadeInv'
  <2>1. ASSUME NEW s \in Sources, IsKnown(s)' PROVE IsKnown(s)
    <3>1. CASE IsIn(s, _source_map')
      BY <1>6, <3>1 DEF IsKnown
    <3>2. CASE IsIn(s, _source_list')
      BY <1>2, <3>2 DEF IsKnown
    <3>3. ASSUME NEW k \in DOMAIN pending', pending'[k].source = s PROVE IsKnown(s)
      BY <1>4, <1>5, <1>8, <1>9, <1>10, <3>3 DEF IsKnown
    <3> QED
      BY <2>1, <3>1, <3>2, <3>3 DEF IsKnown
  <2> QED
    BY <1>2, <2>1, NobodyNew
<1>14. ListInv'
  <2>1. Ordered(_source_list)'
    BY <1>2 DEF ListInv
  <2>2. ASSUME NEW k \in DOMAIN pending', pending'[k].op = "add"
        PROVE  /\ \A i \in DOMAIN _source_list' : _source_list'[i].n < pending'[k].source.n
               /\ \A j \in DOMAIN pending' : j < k /\ pending'[j].op = "add" =>
                    pending'[j].source.n < pending'[k].source.n
    <3>1. k \in DOMAIN pending /\ pending'[k] = pending[k]
      BY <1>5, <1>8, <1>9, <2>2
    <3>2. \A i \in DOMAIN _source_list' : _source_list'[i].n < pending'[k].source.n
      BY <1>2, <2>2, <3>1 DEF ListInv
    <3>3. ASSUME NEW j \in DOMAIN pending', j < k, pending'[j].op = "add"
          PROVE  pending'[j].source.n < pending'[k].source.n
      <4>1. j \in DOMAIN pending /\ pending'[j] = pending[j]
        BY <1>11, <2>2, <3>3
      <4> QED
        BY <2>2, <3>1, <3>3, <4>1 DEF ListInv
    <3> QED
      BY <3>2, <3>3
  <2>3. ASSUME NEW i \in DOMAIN _source_map'
        PROVE  \/ IsIn(_source_map'[i], _source_list')
               \/ \E k \in DOMAIN pending' : Adds(k, _source_map[i])'
    <3>1. PICK l \in DOMAIN _source_map : _source_map'[i] = _source_map[l]
      BY <1>7
    <3>2. IsIn(_source_map[l], _source_list) \/ \E k \in DOMAIN pending : Adds(k, _source_map[l])
      BY DEF ListInv
    <3>3. CASE IsIn(_source_map[l], _source_list)
      BY <1>2, <3>1, <3>3
    <3>4. ASSUME NEW k \in DOMAIN pending, Adds(k, _source_map[l])
          PROVE  k \in DOMAIN pending' /\ Adds(k, _source_map[i])'
      BY <1>10, <3>1, <3>4 DEF Adds
    <3> QED
      BY <3>2, <3>3, <3>4
  <2> QED
    BY <1>6, <2>1, <2>2, <2>3 DEF ListInv
<1>15. RemovalInv'
  <2>1. SUFFICES ASSUME NEW k \in DOMAIN pending', pending'[k].op = "rem"
                 PROVE  /\ ~ IsIn(pending'[k].source, _source_map')
                        /\ \/ IsIn(pending'[k].source, _source_list')
                           \/ \E j \in DOMAIN pending' : j < k /\ Adds(j, pending[k].source)'
                        /\ \A j \in DOMAIN pending' : j < k => ~ Removes(j, pending[k].source)'
    BY DEF RemovalInv
  <2>2. CASE k \in DOMAIN pending
    <3>1. pending'[k] = pending[k]
      BY <1>10, <2>2
    <3>2. ~ IsIn(pending'[k].source, _source_map')
      BY <1>6, <2>1, <2>2, <3>1 DEF RemovalInv
    <3>3. \/ IsIn(pending'[k].source, _source_list')
          \/ \E j \in DOMAIN pending' : j < k /\ Adds(j, pending[k].source)'
      BY <1>2, <1>10, <2>1, <2>2, <3>1 DEF RemovalInv, Adds
    <3>4. \A j \in DOMAIN pending' : j < k => ~ Removes(j, pending[k].source)'
      BY <1>11, <2>1, <2>2, <3>1 DEF RemovalInv, Removes
    <3> QED
      BY <3>2, <3>3, <3>4
  <2>3. CASE k = Len(pending) + 1
    <3>1. pending'[k].source = source
      BY <1>5, <1>8, <2>3
    <3>2. \/ IsIn(source, _source_list)
          \/ \E j \in DOMAIN pending : Adds(j, source)
      BY <1>4 DEF ListInv, IsIn
    <3>3. \A j \in DOMAIN pending : ~ Removes(j, source)
      BY <1>4 DEF RemovalInv, Removes
    <3>4. \A j \in DOMAIN pending : j < k
      BY <1>3, <2>3
    <3>5. \/ IsIn(pending'[k].source, _source_list')
          \/ \E j \in DOMAIN pending' : j < k /\ Adds(j, pending[k].source)'
      BY <1>2, <1>10, <3>1, <3>2, <3>4 DEF Adds
    <3>6. \A j \in DOMAIN pending' : j < k => ~ Removes(j, pending[k].source)'
      BY <1>11, <3>1, <3>3 DEF Removes
    <3> QED
      BY <1>6, <3>1, <3>5, <3>6
  <2> QED
    BY <1>9, <2>2, <2>3
<1>16. LevelsInv'
  <2>1. SUFFICES ASSUME query_command' = "executed", ~ _discard_source_levels', ~ reused'
                 PROVE  LevelsInv'
    BY DEF LevelsInv
  <2>2. query_command = "executed" /\ ~ _discard_source_levels /\ ~ reused
    BY <1>2, <2>1
  <2> QED
    BY <1>2, <1>7, <2>2 DEF LevelsInv
<1>17. LevelsBelong'
  BY <1>2 DEF LevelsBelong
<1> QED
  BY <1>12, <1>13, <1>14, <1>15, <1>16, <1>17

LEMMA ExecuteCommandStep == QueriesInv /\ ExecuteCommand => QueriesInv'
<1> SUFFICES ASSUME QueriesInv, ExecuteCommand PROVE QueriesInv'
  OBVIOUS
<1> USE DEF QueriesInv
<1>1. PICK cmd \in Commands : cmd = Head(pending) /\ cmd = pending[1] /\ 1 \in DOMAIN pending
  <2>1. pending # <<>> /\ pending \in Seq(Commands)
    BY DEF ExecuteCommand, QueriesTypes
  <2>2. Head(pending) = pending[1] /\ 1 \in DOMAIN pending
    BY <2>1, WithoutFirst
  <2> QED
    BY <2>1, <2>2, Positions
<1>2. _source_list' = IF cmd.op = "add" THEN Append(_source_list, cmd.source)
                      ELSE Without(_source_list, cmd.source)
  BY <1>1 DEF ExecuteCommand
<1>3. UNCHANGED <<_source_map, highest_id, made, query_command, _source_levels,
                  _discard_source_levels, _last_source, published, reused>>
  BY DEF ExecuteCommand
<1>4. /\ pending' \in Seq(Commands)
      /\ \A k \in DOMAIN pending' : k + 1 \in DOMAIN pending /\ pending'[k] = pending[k + 1]
      /\ \A k \in DOMAIN pending : k = 1 \/ \E i \in DOMAIN pending' : k = i + 1 /\ pending'[i] = pending[k]
      /\ DOMAIN pending' \subseteq Nat \ {0}
  <2>1. pending # <<>> /\ pending \in Seq(Commands) /\ pending' = Tail(pending)
    BY DEF ExecuteCommand, QueriesTypes
  <2> QED
    BY <2>1, WithoutFirst
<1>5. /\ DOMAIN _source_list = 1 .. Len(_source_list) /\ Len(_source_list) \in Nat
      /\ \A k \in DOMAIN pending : pending[k].op \in {"add", "rem"} /\ pending[k].source \in Sources
      /\ \A k \in DOMAIN pending : pending[k].source.n \in Nat /\ k \in Nat
      /\ \A k \in DOMAIN _source_list : _source_list[k].n \in Nat
  BY QueriesTyped
<1>6. PICK source \in Sources : source = cmd.source /\ source = pending[1].source /\ source.n \in Nat
  BY <1>1, <1>5
<1>7. /\ _source_list' \in Seq(Sources) /\ Ordered(_source_list')
      /\ cmd.op = "add" => \A x : IsIn(x, _source_list') <=> IsIn(x, _source_list) \/ x = source
      /\ cmd.op = "rem" => \A x : IsIn(x, _source_list') <=> IsIn(x, _source_list) /\ x # source
  <2>1. CASE cmd.op = "add"
    <3>1. \A i \in DOMAIN _source_list : _source_list[i].n < source.n
      BY <1>1, <1>6, <2>1 DEF ListInv
    <3>2. /\ _source_list' \in Seq(Sources) /\ DOMAIN _source_list' = 1 .. Len(_source_list) + 1
          /\ \A k \in DOMAIN _source_list : _source_list'[k] = _source_list[k]
          /\ _source_list'[Len(_source_list) + 1] = source
          /\ \A y : IsIn(y, _source_list') <=> IsIn(y, _source_list) \/ y = source
      BY <1>2, <1>6, <2>1, WithOneMore DEF QueriesTypes
    <3>3. \A k \in DOMAIN _source_list' : k \in DOMAIN _source_list \/ k = Len(_source_list) + 1
      BY <1>5, <3>2
    <3>4. \A j, k \in DOMAIN _source_list' : j < k => j \in DOMAIN _source_list
      BY <1>5, <3>2
    <3>5. Ordered(_source_list')
      <4>1. SUFFICES ASSUME NEW j \in DOMAIN _source_list', NEW k \in DOMAIN _source_list', j < k
                     PROVE  _source_list'[j].n < _source_list'[k].n
        BY DEF Ordered
      <4>2. j \in DOMAIN _source_list /\ _source_list'[j] = _source_list[j]
        BY <3>2, <3>4, <4>1
      <4>3. CASE k \in DOMAIN _source_list
        BY <3>2, <4>1, <4>2, <4>3 DEF ListInv, Ordered
      <4>4. CASE k = Len(_source_list) + 1
        BY <3>1, <3>2, <4>2, <4>4
      <4> QED
        BY <3>3, <4>3, <4>4
    <3> QED
      BY <2>1, <3>2, <3>5
  <2>2. CASE cmd.op = "rem"
    <3>1. IsIn(source, _source_list)
      <4>1. ~ \E j \in DOMAIN pending : j < 1
        BY QueriesTyped
      <4> QED
        BY <1>1, <1>6, <2>2, <4>1 DEF RemovalInv
    <3>2. _source_list' = Without(_source_list, source)
      BY <1>2, <1>6, <2>2
    <3> QED
      BY <2>2, <3>1, <3>2, WithoutOne DEF QueriesTypes, ListInv
  <2> QED
    BY <1>1, <1>5, <2>1, <2>2
<1>8. QueriesTypes'
  BY <1>3, <1>4, <1>7 DEF QueriesTypes
<1>9. \A x : IsIn(x, _source_list') => IsIn(x, _source_list) \/ x = source
  BY <1>1, <1>5, <1>7
<1>10. MadeInv'
  <2>1. ASSUME NEW s \in Sources, IsKnown(s)' PROVE IsKnown(s)
    <3>1. CASE IsIn(s, _source_map')
      BY <1>3, <3>1 DEF IsKnown
    <3>2. CASE IsIn(s, _source_list')
      BY <1>1, <1>6, <1>9, <3>2 DEF IsKnown
    <3>3. ASSUME NEW k \in DOMAIN pending', pending'[k].source = s PROVE IsKnown(s)
      BY <1>4, <3>3 DEF IsKnown
    <3> QED
      BY <2>1, <3>1, <3>2, <3>3 DEF IsKnown
  <2> QED
    BY <1>3, <2>1, NobodyNew
<1>11. ListInv'
  <2>1. Ordered(_source_map)'
    BY <1>3 DEF ListInv
  <2>2. ASSUME NEW k \in DOMAIN pending', pending'[k].op = "add"
        PROVE  /\ \A i \in DOMAIN _source_list' : _source_list'[i].n < pending'[k].source.n
               /\ \A j \in DOMAIN pending' : j < k /\ pending'[j].op = "add" =>
                    pending'[j].source.n < pending'[k].source.n
    <3>1. PICK l \in DOMAIN pending : l = k + 1 /\ pending'[k] = pending[l] /\ 1 < l
      BY <1>4
    <3>2. ASSUME NEW i \in DOMAIN _source_list' PROVE _source_list'[i].n < pending'[k].source.n
      <4>1. CASE IsIn(_source_list'[i], _source_list)
        BY <2>2, <3>1, <4>1 DEF ListInv, IsIn
      <4>2. CASE ~ IsIn(_source_list'[i], _source_list)
        <5>1. _source_list'[i] = source /\ cmd.op = "add"
          BY <1>1, <1>5, <1>7, <1>9, <4>2 DEF IsIn
        <5> QED
          BY <1>1, <1>6, <2>2, <3>1, <5>1 DEF ListInv
      <4> QED
        BY <4>1, <4>2
    <3>3. ASSUME NEW j \in DOMAIN pending', j < k, pending'[j].op = "add"
          PROVE  pending'[j].source.n < pending'[k].source.n
      <4>1. PICK m \in DOMAIN pending : m = j + 1 /\ pending'[j] = pending[m]
        BY <1>4
      <4>2. m < l
        BY <1>4, <3>1, <3>3, <4>1
      <4> QED
        BY <2>2, <3>1, <3>3, <4>1, <4>2 DEF ListInv
    <3> QED
      BY <3>2, <3>3
  <2>3. ASSUME NEW i \in DOMAIN _source_map'
        PROVE  \/ IsIn(_source_map'[i], _source_list')
               \/ \E k \in DOMAIN pending' : Adds(k, _source_map[i])'
    <3>1. /\ _source_map' = _source_map
          /\ i \in DOMAIN _source_map
      BY <1>3
    <3>2. IsIn(_source_map[i], _source_list) \/ \E k \in DOMAIN pending : Adds(k, _source_map[i])
      BY <3>1 DEF ListInv
    <3>3. CASE IsIn(_source_map[i], _source_list)
      <4>1. cmd.op = "rem" => _source_map[i] # source
        BY <1>1, <1>6, <3>1 DEF RemovalInv, IsIn
      <4> QED
        BY <1>1, <1>5, <1>7, <3>1, <3>3, <4>1
    <3>4. ASSUME NEW k \in DOMAIN pending, Adds(k, _source_map[i])
          PROVE  \/ IsIn(_source_map'[i], _source_list')
                 \/ \E l \in DOMAIN pending' : Adds(l, _source_map[i])'
      <4>1. CASE k = 1
        BY <1>1, <1>6, <1>7, <3>1, <3>4, <4>1 DEF Adds
      <4>2. CASE k # 1
        <5>1. PICK l \in DOMAIN pending' : pending'[l] = pending[k]
          BY <1>4, <4>2
        <5> QED
          BY <3>1, <3>4, <5>1 DEF Adds
      <4> QED
        BY <4>1, <4>2
    <3> QED
      BY <3>2, <3>3, <3>4
  <2> QED
    BY <1>7, <2>1, <2>2, <2>3 DEF ListInv
<1>12. RemovalInv'
  <2>1. SUFFICES ASSUME NEW k \in DOMAIN pending', pending'[k].op = "rem"
                 PROVE  /\ ~ IsIn(pending'[k].source, _source_map')
                        /\ \/ IsIn(pending'[k].source, _source_list')
                           \/ \E j \in DOMAIN pending' : j < k /\ Adds(j, pending[k].source)'
                        /\ \A j \in DOMAIN pending' : j < k => ~ Removes(j, pending[k].source)'
    BY DEF RemovalInv
  <2>2. PICK l \in DOMAIN pending : l = k + 1 /\ pending'[k] = pending[l] /\ 1 < l
    BY <1>4
  <2>3. ~ IsIn(pending'[k].source, _source_map')
    BY <1>3, <2>1, <2>2 DEF RemovalInv
  <2>4. ASSUME IsIn(pending[l].source, _source_list) PROVE IsIn(pending'[k].source, _source_list')
    <3>1. cmd.op = "rem" => pending[l].source # source
      BY <1>1, <1>6, <2>1, <2>2 DEF RemovalInv, Removes
    <3> QED
      BY <1>1, <1>5, <1>7, <2>2, <2>4, <3>1
  <2>5. ASSUME NEW j \in DOMAIN pending, j < l, Adds(j, pending[l].source)
        PROVE  \/ IsIn(pending'[k].source, _source_list')
               \/ \E i \in DOMAIN pending' : i < k /\ Adds(i, pending[k].source)'
    <3>1. CASE j = 1
      BY <1>1, <1>6, <1>7, <2>2, <2>5, <3>1 DEF Adds
    <3>2. CASE j # 1
      <4>1. PICK i \in DOMAIN pending' : j = i + 1 /\ pending'[i] = pending[j]
        BY <1>4, <3>2
      <4>2. i < k
        BY <1>4, <2>2, <2>5, <4>1
      <4> QED
        BY <2>2, <2>5, <4>1, <4>2 DEF Adds
    <3> QED
      BY <3>1, <3>2
  <2>6. \/ IsIn(pending[l].source, _source_list)
        \/ \E j \in DOMAIN pending : j < l /\ Adds(j, pending[l].source)
    BY <2>1, <2>2 DEF RemovalInv
  <2>7. ASSUME NEW j \in DOMAIN pending', j < k PROVE ~ Removes(j, pending[k].source)'
    <3>1. PICK m \in DOMAIN pending : m = j + 1 /\ pending'[j] = pending[m]
      BY <1>4
    <3>2. m < l
      BY <1>4, <2>2, <2>7, <3>1
    <3>3. ~ Removes(m, pending[l].source)
      BY <2>1, <2>2, <3>2 DEF RemovalInv
    <3> QED
      BY <2>2, <3>1, <3>3 DEF Removes
  <2> QED
    BY <2>3, <2>4, <2>5, <2>6, <2>7
<1>13. LevelsInv'
  BY <1>3 DEF LevelsInv
<1>14. LevelsBelong'
  BY <1>3 DEF LevelsBelong
<1> QED
  BY <1>8, <1>10, <1>11, <1>12, <1>13, <1>14

LEMMA ResetIdsStep == QueriesInv /\ ResetIds => QueriesInv'
<1> SUFFICES ASSUME QueriesInv, ResetIds PROVE QueriesInv'
  OBVIOUS
<1>1. /\ highest_id' = 0
      /\ UNCHANGED <<_source_map, made, _source_list, pending, query_command, _source_levels,
                     _discard_source_levels, _last_source, published, reused>>
  BY DEF ResetIds
<1>2. QueriesTypes'
  BY <1>1 DEF QueriesInv, QueriesTypes
<1>3. MadeInv'
  BY <1>1 DEF QueriesInv, MadeInv, IsKnown
<1>4. ListInv' /\ RemovalInv'
  BY <1>1 DEF QueriesInv, ListInv, RemovalInv, Adds, Removes
<1>5. LevelsInv' /\ LevelsBelong'
  BY <1>1 DEF QueriesInv, LevelsInv, LevelsBelong
<1> QED
  BY <1>2, <1>3, <1>4, <1>5 DEF QueriesInv

LEMMA queryStep == QueriesInv /\ query => QueriesInv'
<1> SUFFICES ASSUME QueriesInv, query PROVE QueriesInv'
  OBVIOUS
<1> USE DEF QueriesInv
<1>1. /\ query_command' = "executed" /\ published' = {} /\ reused' = FALSE
      /\ UNCHANGED <<_source_map, highest_id, made, _source_list, pending>>
  BY DEF query
<1>2. /\ DOMAIN _source_list = 1 .. Len(_source_list) /\ Len(_source_list) \in Nat
      /\ \A k \in DOMAIN _source_list : _source_list[k] \in Sources /\ _source_list[k].n \in Nat
      /\ \A k \in DOMAIN _source_map : _source_map[k] \in Sources /\ _source_map[k].n \in Nat
      /\ \A k \in DOMAIN pending : pending[k].source \in Sources /\ pending[k].source.n \in Nat
  BY QueriesTyped
<1>3. MadeInv' /\ ListInv' /\ RemovalInv' /\ LevelsBelong'
  <2>1. MadeInv'
    BY <1>1 DEF MadeInv, IsKnown
  <2>2. ListInv' /\ RemovalInv'
    BY <1>1 DEF ListInv, RemovalInv, Adds, Removes
  <2>3. LevelsBelong'
    BY <1>1 DEF LevelsBelong
  <2> QED
    BY <2>1, <2>2, <2>3
<1>4. CASE Len(_source_levels) = Len(_source_list)
  <2>1. /\ _source_levels' = [k \in DOMAIN _source_list |-> _source_list[k].n]
        /\ _last_source' = IF _source_list = <<>> THEN "none" ELSE Last(_source_list).address
        /\ _discard_source_levels' = FALSE
    BY <1>4 DEF query
  <2>2. /\ _source_levels' \in Seq(Nat) /\ Len(_source_levels') = Len(_source_list)
        /\ DOMAIN _source_levels' = 1 .. Len(_source_list)
        /\ \A k \in DOMAIN _source_list : _source_levels'[k] = _source_list[k].n
    <3>1. \A k \in 1 .. Len(_source_list) : _source_list[k].n \in Nat
      BY <1>2
    <3>2. _source_levels' = [k \in 1 .. Len(_source_list) |-> _source_list[k].n]
      BY <1>2, <2>1
    <3> QED
      BY <1>2, <3>1, <3>2
  <2>3. QueriesTypes'
    BY <1>1, <2>1, <2>2 DEF QueriesTypes
  <2>4. \A k \in DOMAIN _source_list : IsKnown(_source_list[k]) /\ _source_list[k].n <= made
    BY <1>2 DEF IsKnown, IsIn, MadeInv
  <2>5. Increases(_source_levels', Len(_source_levels'))
    BY <1>2, <2>2 DEF ListInv, Ordered, Increases
  <2>6. \A k \in DOMAIN _source_levels' : _source_levels'[k] <= made'
    BY <1>1, <1>2, <2>2, <2>4
  <2>7. ASSUME NEW i \in DOMAIN _source_map
        PROVE  \/ \E k \in DOMAIN _source_levels' : _source_map[i].n = _source_levels'[k]
               \/ \A k \in DOMAIN _source_levels' : _source_levels'[k] < _source_map[i].n
    <3>1. CASE IsIn(_source_map[i], _source_list)
      BY <1>2, <2>2, <3>1 DEF IsIn
    <3>2. ASSUME NEW k \in DOMAIN pending, Adds(k, _source_map[i])
          PROVE  \A j \in DOMAIN _source_levels' : _source_levels'[j] < _source_map[i].n
      BY <1>2, <2>2, <3>2 DEF ListInv, Adds
    <3> QED
      BY <3>1, <3>2 DEF ListInv
  <2>8. ASSUME NEW i \in DOMAIN _source_map, _source_map[i].address = _last_source'
        PROVE  /\ _source_levels' # <<>>
               /\ _source_map[i].n = _source_levels'[Len(_source_levels')]
    <3>1. _source_map[i].address \in Addresses
      BY <1>2 DEF Sources
    <3>2. _source_list # <<>> /\ _last_source' = _source_list[Len(_source_list)].address
      BY <2>1, <2>8, <3>1, AddressesAssumption DEF Last
    <3>3. Len(_source_list) \in DOMAIN _source_list
      BY <1>2, <3>2 DEF QueriesTypes
    <3>4. IsKnown(_source_map[i])
      BY DEF IsKnown, IsIn
    <3>5. _source_map[i] = _source_list[Len(_source_list)]
      BY <1>2, <2>4, <2>8, <3>2, <3>3, <3>4 DEF MadeInv
    <3> QED
      BY <2>2, <3>3, <3>5
  <2>9. LevelsInv'
    BY <1>1, <2>5, <2>6, <2>7, <2>8 DEF LevelsInv
  <2> QED
    BY <1>3, <2>3, <2>9
<1>5. CASE Len(_source_levels) # Len(_source_list)
  <2>1. _discard_source_levels' = TRUE /\ UNCHANGED _source_levels
    BY <1>5 DEF query
  <2>2. QueriesTypes'
    BY <1>1, <2>1 DEF QueriesTypes
  <2>3. LevelsInv'
    BY <2>1 DEF LevelsInv
  <2> QED
    BY <1>3, <2>2, <2>3
<1> QED
  BY <1>4, <1>5

\* The last source of the map is the last one of the list when the levels were read, so
\* that each one in the map was among them; there are as many of them, therefore all.
LEMMA UpdateLevelsStep == QueriesInv /\ UpdateLevels => QueriesInv'
<1> SUFFICES ASSUME QueriesInv, UpdateLevels PROVE QueriesInv'
  OBVIOUS
<1> USE DEF QueriesInv
<1>1. /\ query_command = "executed" /\ query_command' = "pushed"
      /\ published' = IF SameSources THEN Published(_source_levels, _source_map) ELSE {}
      /\ _source_levels' = [k \in DOMAIN _source_map |->
                              IF k \in DOMAIN _source_levels THEN _source_levels[k] ELSE 0]
      /\ UNCHANGED <<_source_map, highest_id, made, _source_list, pending,
                     _discard_source_levels, _last_source, reused>>
  BY DEF UpdateLevels
<1>2. /\ DOMAIN _source_map = 1 .. Len(_source_map) /\ Len(_source_map) \in Nat
      /\ DOMAIN _source_levels = 1 .. Len(_source_levels)
      /\ \A k \in DOMAIN _source_map : _source_map[k].n \in Nat
      /\ \A k \in DOMAIN _source_levels : _source_levels[k] \in Nat
  BY QueriesTyped
<1>3. QueriesTypes'
  <2>1. \A k \in 1 .. Len(_source_map) :
          (IF k \in DOMAIN _source_levels THEN _source_levels[k] ELSE 0) \in Nat
    BY <1>2
  <2>2. _source_levels' \in Seq(Nat)
    BY <1>1, <1>2, <2>1
  <2> QED
    BY <1>1, <2>2 DEF QueriesTypes
<1>4. MadeInv'
  BY <1>1 DEF MadeInv, IsKnown
<1>5. ListInv' /\ RemovalInv'
  BY <1>1 DEF ListInv, RemovalInv, Adds, Removes
<1>6. LevelsInv'
  BY <1>1 DEF LevelsInv
<1>7. LevelsBelong'
  <2>1. SUFFICES ASSUME SameSources, ~ reused, NEW k \in DOMAIN _source_map
                 PROVE  _source_levels[k] = _source_map[k].n
    BY <1>1 DEF LevelsBelong, Published
  <2>2. PICK N \in Nat : /\ N = Len(_source_map) /\ N = Len(_source_levels) /\ k \in 1 .. N
                         /\ N \in DOMAIN _source_map /\ _source_map # <<>>
    <3>1. Len(_source_levels) = Len(_source_map)
      BY <2>1 DEF SameSources
    <3>2. k \in 1 .. Len(_source_map) /\ Len(_source_map) \in DOMAIN _source_map
      BY <1>2
    <3>3. _source_map # <<>>
      BY <3>2 DEF QueriesTypes
    <3> QED
      BY <1>2, <3>1, <3>2, <3>3
  <2>3. PICK a : a = [i \in 1 .. N |-> _source_map[i].n]
    OBVIOUS
  <2>4. PICK b : b = _source_levels
    OBVIOUS
  <2>5. ~ _discard_source_levels /\ _last_source = _source_map[N].address
    BY <2>1, <2>2 DEF SameSources, Last
  <2>6. /\ Increases(b, N)
        /\ \A i \in 1 .. N : \/ \E j \in 1 .. N : a[i] = b[j]
                             \/ \A j \in 1 .. N : b[j] < a[i]
        /\ a[N] = b[N]
    BY <1>1, <1>2, <2>1, <2>2, <2>3, <2>4, <2>5 DEF LevelsInv
  <2>7. \A i \in 1 .. N : a[i] \in Int /\ b[i] \in Int
    BY <1>2, <2>2, <2>3, <2>4
  <2>8. Increases(a, N)
    BY <1>2, <2>2, <2>3 DEF Increases, ListInv, Ordered
  <2>9. ASSUME NEW i \in 1 .. N PROVE \E j \in 1 .. N : a[i] = b[j]
    <3>1. N \in 1 .. N /\ (i = N \/ i < N)
      BY <2>2
    <3>2. a[i] <= a[N]
      BY <2>7, <2>8, <3>1 DEF Increases
    <3>3. ~ (b[N] < a[i])
      BY <2>6, <2>7, <3>1, <3>2
    <3> QED
      BY <2>6, <3>1, <3>3
  <2>10. \A i \in 1 .. N : a[i] = b[i]
    BY <2>6, <2>7, <2>8, <2>9, SameNumbers
  <2> QED
    BY <2>2, <2>3, <2>4, <2>10
<1> QED
  BY <1>3, <1>4, <1>5, <1>6, <1>7

LEMMA QueriesInitially == QueriesInit => QueriesInv
<1> SUFFICES ASSUME QueriesInit PROVE QueriesInv
  OBVIOUS
<1>1. DOMAIN _source_map = {} /\ DOMAIN _source_list = {} /\ DOMAIN pending = {}
  BY DEF QueriesInit
<1>2. QueriesTypes
  <2>1. \A S : <<>> \in Seq(S)
    OBVIOUS
  <2>2. /\ _source_map \in Seq(Sources) /\ _source_list \in Seq(Sources)
        /\ pending \in Seq(Commands) /\ _source_levels \in Seq(Nat)
    BY <2>1 DEF QueriesInit
  <2>3. /\ made \in Nat /\ highest_id \in Nat /\ query_command \in {"pushed", "executed"}
        /\ _discard_source_levels \in BOOLEAN /\ reused \in BOOLEAN
    BY DEF QueriesInit
  <2> QED
    BY <2>2, <2>3 DEF QueriesTypes
<1>3. MadeInv /\ ListInv /\ RemovalInv
  BY <1>1 DEF MadeInv, IsKnown, IsIn, ListInv, Ordered, RemovalInv
<1>4. LevelsInv /\ LevelsBelong
  BY DEF QueriesInit, LevelsInv, LevelsBelong
<1> QED
  BY <1>2, <1>3, <1>4 DEF QueriesInv

LEMMA QueriesUnchanged == QueriesInv /\ UNCHANGED queries => QueriesInv'
<1> SUFFICES ASSUME QueriesInv, UNCHANGED queries PROVE QueriesInv'
  OBVIOUS
<1>1. UNCHANGED <<_source_map, highest_id, made, _source_list, pending, query_command,
                  _source_levels, _discard_source_levels, _last_source, published, reused>>
  BY DEF queries
<1>2. QueriesTypes'
  BY <1>1 DEF QueriesInv, QueriesTypes
<1>3. MadeInv'
  BY <1>1 DEF QueriesInv, MadeInv, IsKnown
<1>4. ListInv' /\ RemovalInv'
  BY <1>1 DEF QueriesInv, ListInv, RemovalInv, Adds, Removes
<1>5. LevelsInv' /\ LevelsBelong'
  BY <1>1 DEF QueriesInv, LevelsInv, LevelsBelong
<1> QED
  BY <1>2, <1>3, <1>4, <1>5 DEF QueriesInv

LEMMA QueriesStep == QueriesInv /\ [QueriesNext]_queries => QueriesInv'
BY AddSourceStep, RemSourceStep, ResetIdsStep, ExecuteCommandStep, queryStep,
   UpdateLevelsStep, QueriesUnchanged DEF QueriesNext

LEMMA QueriesInvariant ==
  QueriesInv /\ [InterfaceNext]_<<vars, control_vars, transport_vars, queries, part>> => QueriesInv'
<1>1. InterfaceNext => [QueriesNext]_queries
  BY Zenon DEF InterfaceNext
<1>2. UNCHANGED <<vars, control_vars, transport_vars, queries, part>> => UNCHANGED queries
  OBVIOUS
<1> QED
  BY <1>1, <1>2, QueriesStep

\* A level is published for the source it was read from, unless a new source has got
\* the memory of the last one that was read: for any number of sources, while sources
\* come and go between query() and update() (controller.h:417, 458).
THEOREM LevelsAlwaysBelong == InterfaceSpec => []LevelsBelong
<1>1. InterfaceInit => QueriesInv
  BY QueriesInitially DEF InterfaceInit
<1>2. QueriesInv /\ [InterfaceNext]_<<vars, control_vars, transport_vars, queries, part>> => QueriesInv'
  BY QueriesInvariant
<1>3. QueriesInv => LevelsBelong
  BY DEF QueriesInv
<1> QED
  BY <1>1, <1>2, <1>3, PTL DEF InterfaceSpec

\* The realtime thread finds whatever it is told to remove ("RemCommand: Item not found!",
\* rtlist.h:232): it has executed the command that adds it before.
RemovalFindsSource ==
  pending # <<>> /\ Head(pending).op = "rem" => IsIn(Head(pending).source, _source_list)

\* The list of sources that the realtime thread has is as the map was some commands ago,
\* so that no command throws in the realtime thread (rtlist.h:223).
THEOREM RemovalsFound == InterfaceSpec => []RemovalFindsSource
<1>1. InterfaceInit => QueriesInv
  BY QueriesInitially DEF InterfaceInit
<1>2. QueriesInv /\ [InterfaceNext]_<<vars, control_vars, transport_vars, queries, part>> => QueriesInv'
  BY QueriesInvariant
<1>3. QueriesInv => RemovalFindsSource
  <2>1. SUFFICES ASSUME QueriesInv, pending # <<>>, Head(pending).op = "rem"
                 PROVE  IsIn(Head(pending).source, _source_list)
    BY DEF RemovalFindsSource
  <2>2. /\ Head(pending) = pending[1] /\ 1 \in DOMAIN pending
        /\ \A j \in DOMAIN pending : ~ (j < 1)
    BY <2>1, WithoutFirst, QueriesTyped DEF QueriesInv, QueriesTypes
  <2> QED
    BY <2>1, <2>2 DEF QueriesInv, RemovalInv
<1> QED
  BY <1>1, <1>2, <1>3, PTL DEF InterfaceSpec

------------------------------------------------------------------------------
(* What was asked for                                                      *)

ControlTypes ==
  /\ members \in [SourceIds -> [Members -> BOOLEAN]]
  /\ asked \in [SourceIds -> [Members -> BOOLEAN]]
  /\ boxes \in [Members -> BOOLEAN]
  /\ marked \in [ids : SUBSET SourceIds, last : SourceIds \cup {0}]
  /\ updating \in [at : {"none", "fixed", "mute"}, fixed : BOOLEAN, mute : BOOLEAN]
  /\ toggling \in [member : {"none", "solo"} \cup Members, todo : SUBSET SourceIds,
                   id : SourceIds \cup {0}, value : BOOLEAN]
  /\ toggling.member \in Members => toggling.todo # {}

\* The GUI thread is in one handler at a time.
OneHandler == updating.at = "none" \/ toggling.member = "none"

\* The copy that the dialog is updated with is what was asked for, unless somebody has
\* asked for something else since.
CopyInv ==
  updating.at # "none" => \A m \in Members :
    marked.last \in SourceIds /\ (updating[m] = asked[marked.last][m] \/ <<marked.last, m>> \in overtaken)

ControlsInv == ControlTypes /\ OneHandler /\ CopyInv /\ RequestStands

Flags == [SourceIds -> [Members -> BOOLEAN]]
SetTo(f, id, m, v) == [f EXCEPT ![id][m] = v]

LEMMA OneIsSet ==
  ASSUME NEW f \in Flags, NEW id \in SourceIds, NEW m \in Members, NEW v \in BOOLEAN
  PROVE  /\ SetTo(f, id, m, v) \in Flags
         /\ \A i \in SourceIds, k \in Members :
              SetTo(f, id, m, v)[i][k] = IF i = id /\ k = m THEN v ELSE f[i][k]
<1>1. PICK old \in [Members -> BOOLEAN] : old = f[id]
  BY DEF Flags
<1>2. PICK new \in [Members -> BOOLEAN] :
        new = [old EXCEPT ![m] = v] /\ \A k \in Members : new[k] = IF k = m THEN v ELSE old[k]
  <2>1. [old EXCEPT ![m] = v] \in [Members -> BOOLEAN]
    OBVIOUS
  <2>2. \A k \in Members : [old EXCEPT ![m] = v][k] = IF k = m THEN v ELSE old[k]
    OBVIOUS
  <2> QED
    BY <2>1, <2>2
<1>3. SetTo(f, id, m, v) = [f EXCEPT ![id] = new]
  BY <1>1, <1>2 DEF SetTo
<1> QED
  BY <1>1, <1>2, <1>3 DEF Flags

\* setChecked() with the slot it calls.
LEMMA BoxIsSet ==
  ASSUME ControlTypes, marked.last \in SourceIds, NEW m \in Members, NEW v \in BOOLEAN,
         setChecked(m, v)
  PROVE  /\ members' \in Flags /\ boxes' \in [Members -> BOOLEAN]
         /\ \A i \in SourceIds, k \in Members :
              members'[i][k] = IF boxes[m] # v /\ i = marked.last /\ k = m THEN v ELSE members[i][k]
<1>1. boxes' \in [Members -> BOOLEAN] /\ members \in Flags
  BY DEF setChecked, ControlTypes, Flags
<1>2. members' = IF boxes[m] = v THEN members ELSE Written(m, v)
  BY DEF setChecked
<1>3. CASE boxes[m] = v
  BY <1>1, <1>2, <1>3
<1>4. CASE boxes[m] # v
  <2>1. Written(m, v) = SetTo(members, marked.last, m, v)
    BY <1>1 DEF Written, Shown, SetTo, Flags
  <2> QED
    BY <1>1, <1>2, <1>4, <2>1, OneIsSet
<1> QED
  BY <1>3, <1>4

\* While the dialog is updated.
LEMMA UpdateStep == ControlsInv /\ (Update \/ UpdateFixed \/ UpdateMute) => ControlsInv'
<1> SUFFICES ASSUME ControlsInv, Update \/ UpdateFixed \/ UpdateMute PROVE ControlsInv'
  OBVIOUS
<1>1. ControlTypes /\ OneHandler /\ CopyInv /\ RequestStands /\ members \in Flags /\ asked \in Flags
  BY DEF ControlsInv, ControlTypes, Flags
<1>2. UNCHANGED <<marked, toggling, asked, overtaken>>
  BY DEF Update, UpdateFixed, UpdateMute
<1>3. "fixed" \in Members /\ "mute" \in Members /\ \A m \in Members : m = "fixed" \/ m = "mute"
  BY DEF Members
<1>4. CASE Update
  <2>1. /\ marked.last \in SourceIds /\ toggling.member = "none"
        /\ updating' = [at |-> "fixed", fixed |-> members[marked.last].fixed,
                        mute |-> members[marked.last].mute]
        /\ UNCHANGED <<members, boxes>>
    BY <1>4 DEF Update, Idle
  <2>2. PICK a \in BOOLEAN : a = members[marked.last].fixed
    BY <1>1, <1>3, <2>1 DEF Flags
  <2>3. PICK b \in BOOLEAN : b = members[marked.last].mute
    BY <1>1, <1>3, <2>1 DEF Flags
  <2>4. updating' = [at |-> "fixed", fixed |-> a, mute |-> b]
    BY <2>1, <2>2, <2>3
  <2>5. ControlTypes'
    BY <1>1, <1>2, <2>1, <2>4 DEF ControlTypes
  <2>6. OneHandler'
    BY <1>2, <2>1 DEF OneHandler
  <2>7. RequestStands'
    BY <1>1, <1>2, <2>1 DEF RequestStands
  <2>8. \A m \in Members : updating'[m] = members[marked.last][m]
    BY <1>3, <2>2, <2>3, <2>4
  <2>9. CopyInv'
    BY <1>1, <1>2, <2>1, <2>8 DEF CopyInv, RequestStands
  <2> QED
    BY <2>5, <2>6, <2>7, <2>9 DEF ControlsInv
<1>5. ASSUME NEW m \in Members, updating.at # "none", setChecked(m, updating[m]),
             updating' \in [at : {"none", "fixed", "mute"}, fixed : BOOLEAN, mute : BOOLEAN],
             updating'.at # "none" => \A k \in Members : updating'[k] = updating[k]
      PROVE  ControlsInv'
  <2>1. PICK v \in BOOLEAN : v = updating[m]
    BY <1>1, <1>3 DEF ControlTypes
  <2>2. /\ toggling.member = "none" /\ marked.last \in SourceIds
        /\ updating[m] = asked[marked.last][m] \/ <<marked.last, m>> \in overtaken
    BY <1>1, <1>5 DEF OneHandler, CopyInv
  <2>3. /\ members' \in Flags /\ boxes' \in [Members -> BOOLEAN]
        /\ \A i \in SourceIds, k \in Members :
             members'[i][k] = IF boxes[m] # v /\ i = marked.last /\ k = m THEN v ELSE members[i][k]
    BY <1>1, <1>5, <2>1, <2>2, BoxIsSet
  <2>4. ControlTypes'
    BY <1>1, <1>2, <1>5, <2>3 DEF ControlTypes, Flags
  <2>5. OneHandler'
    BY <1>2, <2>2 DEF OneHandler
  <2>6. CopyInv'
    BY <1>1, <1>2, <1>5 DEF CopyInv
  <2>7. RequestStands'
    BY <1>1, <1>2, <2>1, <2>2, <2>3 DEF RequestStands
  <2> QED
    BY <2>4, <2>5, <2>6, <2>7 DEF ControlsInv
<1>6. CASE UpdateFixed
  <2>1. /\ updating.at = "fixed" /\ setChecked("fixed", updating["fixed"])
        /\ updating' = [updating EXCEPT !.at = "mute"]
    BY <1>6 DEF UpdateFixed
  <2>2. updating \in [at : {"none", "fixed", "mute"}, fixed : BOOLEAN, mute : BOOLEAN]
    BY <1>1 DEF ControlTypes
  <2>3. updating' \in [at : {"none", "fixed", "mute"}, fixed : BOOLEAN, mute : BOOLEAN]
    BY <2>1, <2>2
  <2>4. updating'["fixed"] = updating["fixed"] /\ updating'["mute"] = updating["mute"]
    BY <2>1, <2>2
  <2> QED
    BY <1>3, <1>5, <2>1, <2>3, <2>4
<1>7. CASE UpdateMute
  <2>1. /\ updating.at = "mute" /\ setChecked("mute", updating["mute"])
        /\ updating' = NotUpdating
    BY <1>7 DEF UpdateMute
  <2>2. /\ updating' \in [at : {"none", "fixed", "mute"}, fixed : BOOLEAN, mute : BOOLEAN]
        /\ updating'.at = "none"
    BY <2>1 DEF NotUpdating
  <2> QED
    BY <1>3, <1>5, <2>1, <2>2
<1> QED
  BY <1>4, <1>6, <1>7

\* Whoever makes a request gets what was asked for.
LEMMA RequestStep ==
  ASSUME ControlsInv, NEW id \in SourceIds, NEW m \in Members, NEW v \in BOOLEAN,
         members' = SetTo(members, id, m, v), asked' = SetTo(asked, id, m, v),
         \A p : p \in overtaken /\ p # <<id, m>> => p \in overtaken'
  PROVE  members' \in Flags /\ asked' \in Flags /\ RequestStands'
         /\ \A i \in SourceIds, k \in Members : ~ (i = id /\ k = m) => asked'[i][k] = asked[i][k]
<1>1. members \in Flags /\ asked \in Flags /\ RequestStands
  BY DEF ControlsInv, ControlTypes, Flags
<1>2. /\ members' \in Flags /\ asked' \in Flags
      /\ \A i \in SourceIds, k \in Members :
           /\ members'[i][k] = IF i = id /\ k = m THEN v ELSE members[i][k]
           /\ asked'[i][k] = IF i = id /\ k = m THEN v ELSE asked[i][k]
  BY <1>1, OneIsSet
<1>3. \A i \in SourceIds, k \in Members : ~ (i = id /\ k = m) => <<i, k>> # <<id, m>>
  OBVIOUS
<1>4. RequestStands'
  BY <1>1, <1>2, <1>3 DEF RequestStands
<1> QED
  BY <1>2, <1>4

LEMMA OtherRequestStep == ControlsInv /\ OtherRequest => ControlsInv'
<1> SUFFICES ASSUME ControlsInv, OtherRequest PROVE ControlsInv'
  OBVIOUS
<1>1. PICK id \in SourceIds, m \in Members, v \in BOOLEAN :
        /\ members' = SetTo(members, id, m, v) /\ asked' = SetTo(asked, id, m, v)
        /\ overtaken' = IF updating.at # "none" /\ id = marked.last
                        THEN overtaken \cup {<<id, m>>} ELSE overtaken \ {<<id, m>>}
  BY DEF OtherRequest, SetTo
<1>2. UNCHANGED <<marked, boxes, updating, toggling>>
  BY DEF OtherRequest
<1>3. \A p : p \in overtaken /\ p # <<id, m>> => p \in overtaken'
  BY <1>1
<1>4. /\ members' \in Flags /\ asked' \in Flags /\ RequestStands'
      /\ \A i \in SourceIds, k \in Members : ~ (i = id /\ k = m) => asked'[i][k] = asked[i][k]
  BY <1>1, <1>3, RequestStep
<1>5. ControlTypes'
  BY <1>2, <1>4 DEF ControlsInv, ControlTypes, Flags
<1>6. OneHandler'
  BY <1>2 DEF ControlsInv, OneHandler
<1>7. CopyInv'
  <2>1. SUFFICES ASSUME updating.at # "none", NEW k \in Members
                 PROVE  /\ marked.last \in SourceIds
                        /\ \/ updating[k] = asked'[marked.last][k]
                           \/ <<marked.last, k>> \in overtaken'
    BY <1>2 DEF CopyInv
  <2>2. /\ marked.last \in SourceIds
        /\ updating[k] = asked[marked.last][k] \/ <<marked.last, k>> \in overtaken
    BY <2>1 DEF ControlsInv, CopyInv
  <2>3. CASE marked.last = id /\ k = m
    BY <1>1, <2>1, <2>2, <2>3
  <2>4. CASE ~ (marked.last = id /\ k = m)
    <3>1. <<marked.last, k>> # <<id, m>>
      BY <2>4
    <3> QED
      BY <1>3, <1>4, <2>2, <2>4, <3>1
  <2> QED
    BY <2>3, <2>4
<1> QED
  BY <1>4, <1>5, <1>6, <1>7 DEF ControlsInv

\* A click on a box, which is not done while the dialog is updated.
LEMMA ClickBoxStep == ASSUME ControlsInv, NEW m \in Members, ClickBox(m) PROVE ControlsInv'
<1>1. /\ updating.at = "none" /\ marked.last \in SourceIds /\ setChecked(m, ~ boxes[m])
      /\ asked' = [asked EXCEPT ![marked.last][m] = ~ boxes[m]]
      /\ overtaken' = overtaken \ {<<marked.last, m>>}
      /\ UNCHANGED <<marked, updating, toggling>>
  BY DEF ClickBox, Idle
<1>2. PICK v \in BOOLEAN : v = ~ boxes[m] /\ boxes[m] # v
  BY Zenon DEF ControlsInv, ControlTypes
<1>3. ControlTypes /\ RequestStands /\ members \in Flags /\ asked \in Flags
  BY DEF ControlsInv, ControlTypes, Flags
<1>4. setChecked(m, v) /\ asked' = SetTo(asked, marked.last, m, v)
  BY <1>1, <1>2 DEF SetTo
<1>5. /\ members' \in Flags /\ boxes' \in [Members -> BOOLEAN]
      /\ \A i \in SourceIds, k \in Members :
           members'[i][k] = IF boxes[m] # v /\ i = marked.last /\ k = m THEN v ELSE members[i][k]
  BY <1>1, <1>3, <1>4, BoxIsSet
<1>6. /\ asked' \in Flags
      /\ \A i \in SourceIds, k \in Members :
           asked'[i][k] = IF i = marked.last /\ k = m THEN v ELSE asked[i][k]
  <2>1. PICK id \in SourceIds, f \in Flags : id = marked.last /\ f = asked
    BY <1>1, <1>3
  <2>2. /\ SetTo(f, id, m, v) \in Flags
        /\ \A i \in SourceIds, k \in Members :
             SetTo(f, id, m, v)[i][k] = IF i = id /\ k = m THEN v ELSE f[i][k]
    BY OneIsSet
  <2> QED
    BY <1>4, <2>1, <2>2
<1>7. ControlTypes'
  BY <1>1, <1>3, <1>5, <1>6 DEF ControlTypes, Flags
<1>8. OneHandler' /\ CopyInv'
  BY <1>1 DEF OneHandler, CopyInv
<1>9. RequestStands'
  <2>1. SUFFICES ASSUME NEW i \in SourceIds, NEW k \in Members
                 PROVE  members'[i][k] = asked'[i][k] \/ <<i, k>> \in overtaken'
    BY DEF RequestStands
  <2>2. CASE i = marked.last /\ k = m
    BY <1>2, <1>5, <1>6, <2>2
  <2>3. CASE ~ (i = marked.last /\ k = m)
    <3>1. <<i, k>> # <<marked.last, m>>
      BY <2>3
    <3> QED
      BY <1>1, <1>3, <1>5, <1>6, <2>3, <3>1 DEF RequestStands
  <2> QED
    BY <2>2, <2>3
<1> QED
  BY <1>7, <1>8, <1>9 DEF ControlsInv

Marks == [ids : SUBSET SourceIds, last : SourceIds \cup {0}]
Toggles == [member : {"none", "solo"} \cup Members, todo : SUBSET SourceIds,
            id : SourceIds \cup {0}, value : BOOLEAN]

\* A key that is pressed.
LEMMA KeyStep == ControlsInv /\ (Mark \/ ToggleKey \/ SoloKey) => ControlsInv'
<1> SUFFICES ASSUME ControlsInv, Mark \/ ToggleKey \/ SoloKey PROVE ControlsInv'
  OBVIOUS
<1>1. updating.at = "none" /\ UNCHANGED <<members, boxes, updating, asked, overtaken>>
  BY DEF Mark, ToggleKey, SoloKey, Idle
<1>2. marked \in Marks /\ toggling \in Toggles /\ (toggling.member \in Members => toggling.todo # {})
  BY DEF ControlsInv, ControlTypes, Marks, Toggles
<1>3. /\ marked' \in Marks /\ toggling' \in Toggles
      /\ toggling'.member \in Members => toggling'.todo # {}
  <2>1. CASE Mark
    <3>1. PICK ids \in SUBSET SourceIds, last \in SourceIds : marked' = [ids |-> ids, last |-> last]
      BY <2>1 DEF Mark
    <3>2. marked' \in Marks
      BY <3>1 DEF Marks
    <3> QED
      BY <1>2, <2>1, <3>2 DEF Mark
  <2>2. CASE ToggleKey
    <3>1. PICK member \in Members :
            toggling' = [NotToggling EXCEPT !.member = member, !.todo = marked.ids]
      BY <2>2 DEF ToggleKey
    <3>2. PICK ids \in SUBSET SourceIds : ids = marked.ids /\ ids # {}
      BY <1>2, <2>2 DEF ToggleKey, Marks
    <3>3. toggling' = [member |-> member, todo |-> ids, id |-> 0, value |-> FALSE]
      BY <3>1, <3>2 DEF NotToggling
    <3>4. toggling' \in Toggles /\ toggling'.todo = ids
      BY <3>3 DEF Toggles
    <3> QED
      BY <1>2, <2>2, <3>2, <3>4 DEF ToggleKey
  <2>3. CASE SoloKey
    <3>1. toggling' = [member |-> "solo", todo |-> SourceIds, id |-> 0, value |-> FALSE]
      BY <2>3 DEF SoloKey, NotToggling
    <3>2. toggling' \in Toggles /\ toggling'.member = "solo"
      BY <3>1 DEF Toggles
    <3> QED
      BY <1>2, <2>3, <3>2 DEF SoloKey, Members
  <2> QED
    BY <2>1, <2>2, <2>3
<1>4. ControlTypes'
  BY <1>1, <1>3 DEF ControlsInv, ControlTypes, Marks, Toggles
<1>5. OneHandler' /\ CopyInv'
  BY <1>1 DEF OneHandler, CopyInv
<1>6. RequestStands'
  BY <1>1 DEF ControlsInv, RequestStands
<1> QED
  BY <1>4, <1>5, <1>6 DEF ControlsInv

LEMMA ReadMemberStep == ControlsInv /\ ReadMember => ControlsInv'
<1> SUFFICES ASSUME ControlsInv, ReadMember PROVE ControlsInv'
  OBVIOUS
<1>1. /\ toggling.member \in Members
      /\ UNCHANGED <<members, marked, boxes, updating, asked, overtaken>>
  BY DEF ReadMember
<1>2. PICK id : /\ id = CHOOSE i \in toggling.todo : \A j \in toggling.todo : i <= j
                /\ toggling' = [toggling EXCEPT !.id = id, !.value = members[id][toggling.member]]
  BY DEF ReadMember
<1>3. toggling \in Toggles /\ toggling.todo # {}
  BY <1>1 DEF ControlsInv, ControlTypes, Toggles
<1>4. PICK todo \in SUBSET SourceIds : todo = toggling.todo
  BY <1>3 DEF Toggles
<1>5. id \in SourceIds
  <2>1. todo \subseteq Nat /\ todo # {}
    BY <1>3, <1>4, SourceIdsAssumption
  <2>2. \E i \in todo : \A j \in todo : i <= j
    BY <2>1, LeastElement
  <2> QED
    BY <1>2, <1>4, <2>2
<1>6. PICK v \in BOOLEAN : v = members[id][toggling.member]
  BY <1>1, <1>5 DEF ControlsInv, ControlTypes
<1>7. toggling' = [toggling EXCEPT !.id = id, !.value = v]
  BY <1>2, <1>6
<1>8. /\ toggling' \in Toggles
      /\ toggling'.todo = toggling.todo /\ toggling'.member = toggling.member
  BY <1>3, <1>5, <1>7 DEF Toggles
<1>9. ControlTypes'
  BY <1>1, <1>3, <1>8 DEF ControlsInv, ControlTypes, Toggles
<1>10. OneHandler' /\ CopyInv' /\ RequestStands'
  BY <1>1, <1>8 DEF ControlsInv, OneHandler, CopyInv, RequestStands
<1> QED
  BY <1>9, <1>10 DEF ControlsInv

\* What is written is what was asked for; one source less is left to do.
LEMMA WriteStep == ControlsInv /\ (WriteOpposite \/ Solo) => ControlsInv'
<1> SUFFICES ASSUME ControlsInv, WriteOpposite \/ Solo PROVE ControlsInv'
  OBVIOUS
<1>1. toggling \in Toggles /\ (toggling.member \in Members => toggling.todo # {})
  BY DEF ControlsInv, ControlTypes, Toggles
<1>2. UNCHANGED <<marked, boxes, updating>> /\ updating.at = "none"
  <2>1. toggling.member # "none"
    BY DEF WriteOpposite, Solo, Members
  <2> QED
    BY <2>1 DEF WriteOpposite, Solo, ControlsInv, OneHandler
<1>3. PICK id \in SourceIds, m \in Members, v \in BOOLEAN :
        Request(id, m, v) /\ toggling' = Continued(id)
  <2>1. CASE WriteOpposite
    <3>1. PICK value \in BOOLEAN : value = ~ toggling.value
      BY Zenon
    <3>2. toggling.id \in SourceIds /\ toggling.member \in Members
      BY <1>1, <2>1 DEF WriteOpposite, Toggles
    <3>3. Request(toggling.id, toggling.member, value) /\ toggling' = Continued(toggling.id)
      BY <2>1, <3>1 DEF WriteOpposite
    <3> QED
      BY <3>2, <3>3
  <2>2. CASE Solo
    <3>1. PICK id \in toggling.todo :
            Request(id, "mute", ~ Soloed(id)) /\ toggling' = Continued(id)
      BY <2>2 DEF Solo
    <3>2. PICK value \in BOOLEAN : value = ~ Soloed(id)
      BY Zenon
    <3>3. id \in SourceIds /\ "mute" \in Members
      BY <1>1 DEF Toggles, Members
    <3> QED
      BY <3>1, <3>2, <3>3
  <2> QED
    BY <2>1, <2>2
<1>4. /\ members' = SetTo(members, id, m, v) /\ asked' = SetTo(asked, id, m, v)
      /\ overtaken' = overtaken \ {<<id, m>>}
  BY <1>3 DEF Request, SetTo
<1>5. members' \in Flags /\ asked' \in Flags /\ RequestStands'
  BY <1>4, RequestStep
<1>6. toggling' \in Toggles /\ (toggling'.member \in Members => toggling'.todo # {})
  <2>1. CASE toggling.todo = {id}
    <3>1. toggling' = [member |-> "none", todo |-> {}, id |-> 0, value |-> FALSE]
      BY <1>3, <2>1 DEF Continued, NotToggling
    <3>2. toggling' \in Toggles /\ toggling'.member = "none"
      BY <3>1 DEF Toggles
    <3> QED
      BY <3>2 DEF Members
  <2>2. CASE toggling.todo # {id}
    <3>1. toggling' = [toggling EXCEPT !.todo = @ \ {id}, !.id = 0, !.value = FALSE]
      BY <1>3, <2>2 DEF Continued
    <3>2. PICK todo \in SUBSET SourceIds : todo = toggling.todo \ {id}
      BY <1>1 DEF Toggles
    <3>3. toggling' = [toggling EXCEPT !.todo = todo, !.id = 0, !.value = FALSE]
      BY <3>1, <3>2
    <3>4. toggling' \in Toggles /\ toggling'.member = toggling.member /\ toggling'.todo = todo
      BY <1>1, <3>3 DEF Toggles
    <3> QED
      BY <1>1, <2>2, <3>2, <3>4
  <2> QED
    BY <2>1, <2>2
<1>7. ControlTypes'
  BY <1>2, <1>5, <1>6 DEF ControlsInv, ControlTypes, Toggles, Flags
<1>8. OneHandler' /\ CopyInv'
  BY <1>2 DEF OneHandler, CopyInv
<1> QED
  BY <1>5, <1>7, <1>8 DEF ControlsInv

LEMMA ControlsUnchanged == ControlsInv /\ UNCHANGED control_vars => ControlsInv'
<1> SUFFICES ASSUME ControlsInv, UNCHANGED control_vars PROVE ControlsInv'
  OBVIOUS
<1>1. UNCHANGED <<members, marked, boxes, updating, toggling, asked, overtaken>>
  BY DEF control_vars
<1>2. ControlTypes'
  BY <1>1 DEF ControlsInv, ControlTypes
<1> QED
  BY <1>1, <1>2 DEF ControlsInv, OneHandler, CopyInv, RequestStands

LEMMA ControlsStep == ControlsInv /\ [ControlsNext]_control_vars => ControlsInv'
BY UpdateStep, OtherRequestStep, ClickBoxStep, KeyStep, ReadMemberStep, WriteStep,
   ControlsUnchanged DEF ControlsNext

LEMMA ControlsInitially == ControlsInit => ControlsInv
<1> SUFFICES ASSUME ControlsInit PROVE ControlsInv
  OBVIOUS
<1>1. NewMembers \in [Members -> BOOLEAN]
  BY DEF NewMembers
<1>2. members \in Flags /\ asked = members /\ boxes \in [Members -> BOOLEAN]
  BY <1>1 DEF ControlsInit, Flags
<1>3. marked \in Marks
  BY DEF ControlsInit, Marks
<1>4. updating \in [at : {"none", "fixed", "mute"}, fixed : BOOLEAN, mute : BOOLEAN]
      /\ updating.at = "none"
  BY DEF ControlsInit, NotUpdating
<1>5. toggling \in Toggles /\ toggling.member \notin Members
  <2>1. toggling = [member |-> "none", todo |-> {}, id |-> 0, value |-> FALSE]
    BY DEF ControlsInit, NotToggling
  <2>2. toggling \in Toggles /\ toggling.member = "none"
    BY <2>1 DEF Toggles
  <2> QED
    BY <2>2 DEF Members
<1>6. ControlTypes
  BY <1>2, <1>3, <1>4, <1>5 DEF ControlTypes, Flags, Marks, Toggles
<1> QED
  BY <1>2, <1>4, <1>6 DEF ControlsInv, OneHandler, CopyInv, RequestStands

\* What was asked for last, by keys, in the dialog or by other clients, stands, whatever
\* the dialog's boxes emit when they are updated (qsourceproperties.cpp:295), unless
\* somebody has asked for it while the dialog was being updated.
THEOREM RequestsStand == InterfaceSpec => []RequestStands
<1>1. InterfaceInit => ControlsInv
  BY ControlsInitially DEF InterfaceInit
<1>2. ControlsInv /\ [InterfaceNext]_<<vars, control_vars, transport_vars, queries, part>> => ControlsInv'
  <2>1. InterfaceNext => [ControlsNext]_control_vars
    BY Zenon DEF InterfaceNext
  <2>2. UNCHANGED <<vars, control_vars, transport_vars, queries, part>> => UNCHANGED control_vars
    OBVIOUS
  <2> QED
    BY <2>1, <2>2, ControlsStep
<1>3. ControlsInv => RequestStands
  BY DEF ControlsInv
<1> QED
  BY <1>1, <1>2, <1>3, PTL DEF InterfaceSpec

------------------------------------------------------------------------------
(* The selected sources.  In a scene whose list has only grown since it was *)
(* loaded IDs are places in the list; the selection is right whatever       *)
(* happens in between.                                                      *)

ScenePart ==
  /\ _highest_id \in Nat
  /\ IsFiniteSet(sources)
  /\ ~ disturbed => sources = 1 .. _highest_id

\* What holds of a selection s, wherever it is made.
Kept(s) ==
  /\ s = [map |-> s.map, last |-> s.last, reference |-> s.reference]
  /\ s.map = [i \in DOMAIN s.map |-> s.map[i]]
  /\ DOMAIN s.map \subseteq Nat /\ IsFiniteSet(DOMAIN s.map)
  /\ IF DOMAIN s.map = {} THEN disturbed \/ s.last = 0
     ELSE \E i \in DOMAIN s.map : s.last = s.map[i]
  /\ ~ disturbed => \A i \in DOMAIN s.map : i \in 1 .. size /\ s.map[i] = i

\* What was found under the mouse: the name of a source's index, which is 0 only for
\* the loudspeakers of an empty scene.
FoundInv ==
  /\ "at" \in DOMAIN handler
  /\ handler.at = "found" /\ handler.object > NAMESTACKOFFSET =>
       /\ Index(handler.object) \in Nat
       /\ Index(handler.object) = 0 => disturbed \/ selection.last = 0

SelectionInv == ScenePart /\ Kept(selection) /\ FoundInv /\ MissingOnlyIfDisturbed

LEMMA NothingMapped ==
  ASSUME NEW f, f = [i \in DOMAIN f |-> f[i]]
  PROVE  f = Empty <=> DOMAIN f = {}
BY DEF Empty

LEMMA SceneSize ==
  ScenePart => /\ size \in Nat
               /\ ~ disturbed => size = _highest_id /\ \A n \in 1 .. size : list[n] = n
<1> SUFFICES ASSUME ScenePart
             PROVE  /\ size \in Nat
                    /\ ~ disturbed => size = _highest_id /\ \A n \in 1 .. size : list[n] = n
  OBVIOUS
<1>1. size \in Nat
  BY FS_CardinalityType DEF ScenePart, size
<1>2. ASSUME ~ disturbed PROVE size = _highest_id
  <2>1. Cardinality(1 .. _highest_id) = _highest_id
    BY FS_Interval DEF ScenePart
  <2> QED
    BY <1>2, <2>1 DEF ScenePart, size
<1>3. ASSUME ~ disturbed, NEW n \in 1 .. size PROVE list[n] = n
  <2>1. sources = 1 .. size
    BY <1>2, <1>3 DEF ScenePart
  <2>2. ASSUME NEW id \in 1 .. size PROVE Cardinality({j \in sources : j <= id}) = id
    <3>1. {j \in sources : j <= id} = 1 .. id
      BY <1>1, <2>1
    <3>2. Cardinality(1 .. id) = id
      BY <1>1, FS_Interval
    <3> QED
      BY <3>1, <3>2
  <2>3. list[n] = CHOOSE id \in sources : Cardinality({j \in sources : j <= id}) = n
    BY <1>3 DEF list
  <2> DEFINE Rank(id) == Cardinality({j \in sources : j <= id})
  <2>4. \A id \in 1 .. size : Rank(id) = id
    BY <2>2
  <2> HIDE DEF Rank
  <2>5. (CHOOSE id \in sources : Rank(id) = n) = n
    BY <1>3, <2>1, <2>4
  <2> QED
    BY <2>3, <2>5 DEF Rank
<1> QED
  BY <1>1, <1>2, <1>3

LEMMA Listed ==
  ASSUME ScenePart
  PROVE  /\ list = [n \in 1 .. size |-> list[n]] /\ DOMAIN list = 1 .. size
         /\ Len(list) = size
         /\ list = <<>> <=> size = 0
<1>1. size \in Nat
  BY SceneSize
<1>2. list = [n \in 1 .. size |-> list[n]] /\ DOMAIN list = 1 .. size
  BY DEF list
<1>3. list \in Seq({list[n] : n \in 1 .. size})
  BY <1>1, <1>2
<1>4. Len(list) = size
  BY <1>1, <1>2, <1>3
<1>5. list = <<>> => size = 0
  BY <1>4
<1>6. size = 0 => list = <<>>
  BY <1>3, <1>4
<1> QED
  BY <1>2, <1>4, <1>5, <1>6

------------------------------------------------------------------------------
(* Selecting and deselecting                                                *)

LEMMA NoneSelected ==
  ASSUME NEW s, Kept(s)
  PROVE  /\ Kept(_deselect_all_sources(s))
         /\ DOMAIN _deselect_all_sources(s).map = {} /\ _deselect_all_sources(s).last = 0
<1> DEFINE t == _deselect_all_sources(s)
<1>1. t = [map |-> Empty, last |-> 0, reference |-> s.reference]
  <2>1. PICK m, l, r : s = [map |-> m, last |-> l, reference |-> r]
    BY DEF Kept
  <2>2. t = [s EXCEPT !.map = Empty, !.last = 0]
    BY Zenon DEF _deselect_all_sources
  <2> QED
    BY <2>1, <2>2
<1> HIDE DEF t
<1>2. Empty = [i \in DOMAIN Empty |-> Empty[i]] /\ DOMAIN Empty = {}
  BY DEF Empty
<1>3. IsFiniteSet({})
  BY FS_EmptySet
<1>4. t.map = Empty /\ t.last = 0 /\ t.reference = s.reference
  BY <1>1
<1>5. Kept(t)
  BY <1>1, <1>2, <1>3, <1>4 DEF Kept
<1> QED
  BY <1>2, <1>4, <1>5 DEF t

\* The first of the others is the last one clicked now.
LEMMA DeselectStep ==
  ASSUME NEW s, Kept(s), NEW source
  PROVE  Kept(_deselect_source(s, source))
<1>1. CASE Cardinality(DOMAIN s.map) <= 1
  BY <1>1 DEF _deselect_source
<1>2. CASE ~ (Cardinality(DOMAIN s.map) <= 1)
  <2> DEFINE D == DOMAIN s.map \ {source}
             rest == [i \in D |-> s.map[i]]
             first == CHOOSE i \in D : \A j \in D : i <= j
  <2>1. D # {}
    <3>1. SUFFICES ASSUME D = {} PROVE FALSE
      OBVIOUS
    <3>2. DOMAIN s.map = {} \/ DOMAIN s.map = {source}
      BY <3>1
    <3>3. Cardinality({}) = 0 /\ Cardinality({source}) = 1
      BY FS_EmptySet, FS_Singleton
    <3> QED
      BY <1>2, <3>2, <3>3
  <2>2. first \in D
    <3>1. D \subseteq Nat
      BY DEF Kept
    <3>2. \E i \in D : \A j \in D : i <= j
      BY <2>1, <3>1, LeastElement
    <3> QED
      BY <3>2
  <2>3. IsFiniteSet(D)
    BY FS_RemoveElement DEF Kept
  <2>4. DOMAIN rest = D
    OBVIOUS
  <2>5. _deselect_source(s, source) = [map |-> rest, last |-> rest[first], reference |-> s.reference]
    <3>1. _deselect_source(s, source) = [s EXCEPT !.map = rest, !.last = rest[first]]
      BY <1>2, <2>4, Zenon DEF _deselect_source
    <3>2. PICK m, l, r : s = [map |-> m, last |-> l, reference |-> r]
      BY DEF Kept
    <3> HIDE DEF rest, first
    <3> QED
      BY <3>1, <3>2
  <2>6. \A i \in D : i \in DOMAIN s.map /\ rest[i] = s.map[i]
    OBVIOUS
  <2>7. rest = [i \in D |-> rest[i]]
    OBVIOUS
  <2>8. ~ disturbed => \A i \in D : i \in 1 .. size /\ rest[i] = i
    BY <2>6 DEF Kept
  <2>9. D \subseteq Nat
    BY DEF Kept
  <2> HIDE DEF D, rest, first
  <2> DEFINE t == [map |-> rest, last |-> rest[first], reference |-> s.reference]
  <2>10. t.map = rest /\ t.last = rest[first] /\ t.reference = s.reference
    OBVIOUS
  <2>11. Kept(t)
    BY <2>1, <2>2, <2>3, <2>4, <2>7, <2>8, <2>9, <2>10 DEF Kept
  <2> QED
    BY <2>5, <2>11
<1> QED
  BY <1>1, <1>2

LEMMA WithSourceStep ==
  ASSUME NEW s, Kept(s), ScenePart, NEW source \in 1 .. size
  PROVE  Kept(WithSource(s, source))
<1> DEFINE D == DOMAIN s.map \cup {source}
           more == [i \in D |-> IF i = source THEN list[i] ELSE s.map[i]]
           t == [map |-> more, last |-> list[source], reference |-> s.reference]
<1>1. WithSource(s, source) = t
  <2>1. PICK m, l, r : s = [map |-> m, last |-> l, reference |-> r]
    BY DEF Kept
  <2> HIDE DEF more
  <2>2. WithSource(s, source) = [s EXCEPT !.map = more, !.last = list[source]]
    BY Zenon DEF WithSource, more
  <2> QED
    BY <2>1, <2>2
<1>2. IsFiniteSet(D) /\ D \subseteq Nat
  <2>1. size \in Nat
    BY SceneSize
  <2>2. IsFiniteSet(D)
    BY FS_AddElement DEF Kept
  <2> QED
    BY <2>1, <2>2 DEF Kept
<1>3. DOMAIN more = D /\ more = [i \in D |-> more[i]] /\ source \in D /\ more[source] = list[source]
  OBVIOUS
<1>4. ~ disturbed => \A i \in D : i \in 1 .. size /\ more[i] = i
  BY SceneSize DEF Kept
<1> HIDE DEF D, more
<1>5. t.map = more /\ t.last = list[source] /\ t.reference = s.reference
  OBVIOUS
<1>6. Kept(t)
  BY <1>2, <1>3, <1>4, <1>5 DEF Kept
<1> QED
  BY <1>1, <1>6

\* The listener has index 0; without a selection the ID that was kept is 0.
LEMMA SelectStep ==
  ASSUME NEW s, Kept(s), ScenePart, NEW source \in Nat, NEW add \in BOOLEAN,
         source = 0 /\ add => disturbed \/ s.last = 0
  PROVE  Kept(_select_source(s, source, add))
<1> DEFINE kept == IF add /\ source > 0 THEN s
                   ELSE IF add THEN [s EXCEPT !.map = Empty]
                   ELSE _deselect_all_sources(s)
           t == [kept EXCEPT !.reference = (source = 0)]
<1>1. Kept(kept) /\ (source = 0 => DOMAIN kept.map = {})
  <2>1. CASE add /\ source > 0
    BY <2>1
  <2>2. CASE add /\ ~ source > 0
    <3>1. PICK m, l, r : s = [map |-> m, last |-> l, reference |-> r]
      BY DEF Kept
    <3>2. kept = [map |-> Empty, last |-> s.last, reference |-> s.reference]
      BY <2>2, <3>1
    <3>3. Empty = [i \in DOMAIN Empty |-> Empty[i]] /\ DOMAIN Empty = {}
      BY DEF Empty
    <3>4. IsFiniteSet({})
      BY FS_EmptySet
    <3> QED
      BY <2>2, <3>2, <3>3, <3>4 DEF Kept
  <2>3. CASE ~ add
    <3>1. kept = _deselect_all_sources(s)
      BY <2>3
    <3>2. Kept(kept)
      BY <3>1, NoneSelected
    <3> QED
      BY <3>1, <3>2, NoneSelected
  <2> QED
    BY <2>1, <2>2, <2>3
<1> HIDE DEF kept
<1>2. t = [map |-> kept.map, last |-> kept.last, reference |-> (source = 0)]
  <2>1. PICK m, l, r : kept = [map |-> m, last |-> l, reference |-> r]
    BY <1>1 DEF Kept
  <2> QED
    BY <2>1
<1> HIDE DEF t
<1>3. t.map = kept.map /\ t.last = kept.last
  BY <1>2
<1>4. Kept(t)
  BY <1>1, <1>2, <1>3 DEF Kept
<1>5. _select_source(s, source, add) =
        CASE source > 0 /\ source \notin DOMAIN t.map ->
               IF source > size THEN t ELSE WithSource(t, source)
          [] ~ (source > 0 /\ source \notin DOMAIN t.map) /\ ~ alt ->
               [t EXCEPT !.last = IF source > 0 THEN t.map[source] ELSE 0]
          [] OTHER -> _deselect_source(t, source)
  BY Zenon DEF _select_source, t, kept
<1>6. size \in Nat
  BY SceneSize
<1>7. CASE source > 0 /\ source \notin DOMAIN t.map
  <2>1. _select_source(s, source, add) = IF source > size THEN t ELSE WithSource(t, source)
    BY <1>5, <1>7, Zenon
  <2>2. CASE source > size
    BY <1>4, <2>1, <2>2
  <2>3. CASE ~ (source > size)
    <3>1. source \in 1 .. size
      BY <1>6, <1>7, <2>3
    <3> QED
      BY <1>4, <2>1, <2>3, <3>1, WithSourceStep
  <2> QED
    BY <2>2, <2>3
<1>8. CASE ~ (source > 0 /\ source \notin DOMAIN t.map) /\ ~ alt
  <2> DEFINE last == IF source > 0 THEN t.map[source] ELSE 0
  <2>1. _select_source(s, source, add) = [t EXCEPT !.last = last]
    BY <1>5, <1>8, Zenon
  <2>2. PICK m, l, r : t = [map |-> m, last |-> l, reference |-> r]
    BY <1>4 DEF Kept
  <2>3. [t EXCEPT !.last = last] = [map |-> t.map, last |-> last, reference |-> t.reference]
    BY <2>2
  <2>4. IF DOMAIN t.map = {} THEN last = 0 ELSE \E i \in DOMAIN t.map : last = t.map[i]
    BY <1>1, <1>3, <1>8
  <2> HIDE DEF last
  <2> QED
    BY <1>4, <2>1, <2>3, <2>4 DEF Kept
<1>9. CASE ~ (source > 0 /\ source \notin DOMAIN t.map) /\ alt
  <2>1. _select_source(s, source, add) = _deselect_source(t, source)
    BY <1>5, <1>9, Zenon
  <2> QED
    BY <1>4, <2>1, DeselectStep
<1> QED
  BY <1>7, <1>8, <1>9

LEMMA SelectAllStep ==
  ASSUME NEW s, Kept(s), ScenePart
  PROVE  Kept(_select_all_sources(s))
<1> DEFINE last == IF list = <<>> THEN 0 ELSE Last(list)
           t == [map |-> list, last |-> last, reference |-> s.reference]
<1>1. PICK m, l, r : s = [map |-> m, last |-> l, reference |-> r]
  BY DEF Kept
<1>2. _select_all_sources(s) = t
  <2>1. _select_all_sources(s) = [s EXCEPT !.map = list, !.last = last]
    BY Zenon DEF _select_all_sources
  <2> HIDE DEF last
  <2> QED
    BY <1>1, <2>1
<1>3. size \in Nat /\ (~ disturbed => \A i \in 1 .. size : list[i] = i)
  BY SceneSize
<1>4. /\ list = [n \in 1 .. size |-> list[n]] /\ DOMAIN list = 1 .. size
      /\ Len(list) = size
      /\ list = <<>> <=> size = 0
  BY Listed
<1>5. IF size = 0 THEN last = 0 ELSE last = list[size] /\ size \in 1 .. size
  BY <1>3, <1>4 DEF Last
<1>6. IsFiniteSet(1 .. size)
  BY <1>3, FS_Interval
<1> HIDE DEF last
<1>7. t.map = list /\ t.last = last /\ t.reference = s.reference
  OBVIOUS
<1>8. 1 .. size \subseteq Nat /\ (1 .. size = {} <=> size = 0)
  BY <1>3
<1>9. Kept(t)
  <2> HIDE DEF t
  <2>1. t = [map |-> t.map, last |-> t.last, reference |-> t.reference]
    BY <1>7 DEF t
  <2> QED
    BY <1>3, <1>4, <1>5, <1>6, <1>7, <1>8, <2>1 DEF Kept
<1> QED
  BY <1>2, <1>9

LEMMA BandedStep ==
  ASSUME NEW s, Kept(s), ScenePart, NEW n \in 1 .. size, NEW B
  PROVE  Kept(Banded(s, n, B))
<1>1. Kept(_deselect_source(s, n))
  BY DeselectStep
<1>2. Kept(_select_source(s, n, TRUE))
  <2>1. n \in Nat /\ n # 0
    BY SceneSize
  <2> QED
    BY <2>1, SelectStep
<1> QED
  BY <1>1, <1>2, Zenon DEF Banded

\* The recursion over the sources: there is such a function up to every index, because
\* a first one without cannot be; and nor can a first value that is not right.
LEMMA RubberBandStep ==
  ASSUME NEW s, Kept(s), ScenePart, NEW B
  PROVE  Kept(_draw_rubber_band(s, B))
<1> DEFINE Draws(g, m) == g = [n \in 0 .. m |-> IF n = 0 THEN s ELSE Banded(g[n - 1], n, B)]
           Drawable == {m \in Nat : \E g : Draws(g, m)}
<1>1. size \in Nat
  BY SceneSize
<1>2. ASSUME NEW m \in Nat PROVE m \in Drawable
  <2>1. SUFFICES ASSUME Nat \ Drawable # {} PROVE FALSE
    OBVIOUS
  <2>2. PICK k \in Nat \ Drawable : \A j \in Nat \ Drawable : k <= j
    <3> HIDE DEF Drawable
    <3> QED
      BY <2>1, LeastElement
  <2>3. k # 0
    <3>1. SUFFICES ASSUME k = 0 PROVE FALSE
      OBVIOUS
    <3> DEFINE g == [n \in 0 .. 0 |-> s]
    <3>2. Draws(g, 0)
      OBVIOUS
    <3> QED
      BY <2>2, <3>1, <3>2
  <2>4. k - 1 \in Nat /\ k - 1 \in Drawable
    <3>1. k - 1 \in Nat /\ ~ (k <= k - 1)
      BY <2>2, <2>3
    <3> HIDE DEF Drawable
    <3> QED
      BY <2>2, <3>1
  <2>5. PICK g : Draws(g, k - 1)
    BY <2>4
  <2> DEFINE h == [n \in 0 .. k |-> IF n = k THEN Banded(g[k - 1], k, B) ELSE g[n]]
  <2>6. ASSUME NEW n \in 0 .. k
        PROVE  h[n] = IF n = 0 THEN s ELSE Banded(h[n - 1], n, B)
    <3>1. CASE n = k
      <4>1. k - 1 \in 0 .. k /\ k - 1 # k
        BY <2>2, <2>3
      <4>2. h[k - 1] = g[k - 1]
        BY <4>1
      <4> QED
        BY <2>3, <3>1, <4>2
    <3>2. CASE n # k
      <4>1. n \in 0 .. k - 1
        BY <2>2, <3>2
      <4>2. g[n] = IF n = 0 THEN s ELSE Banded(g[n - 1], n, B)
        BY <2>5, <4>1
      <4>3. n # 0 => n - 1 \in 0 .. k /\ n - 1 # k
        BY <2>2, <4>1
      <4>4. n # 0 => h[n - 1] = g[n - 1]
        BY <4>3
      <4>5. h[n] = g[n]
        BY <3>2
      <4> QED
        BY <4>2, <4>4, <4>5
    <3> QED
      BY <3>1, <3>2
  <2>7. h = [n \in 0 .. k |-> h[n]]
    OBVIOUS
  <2> HIDE DEF h
  <2>8. Draws(h, k)
    BY <2>6, <2>7
  <2> QED
    BY <2>2, <2>8
<1> DEFINE drawn == CHOOSE g : Draws(g, size)
<1>3. _draw_rubber_band(s, B) = drawn[size]
  BY DEF _draw_rubber_band
<1>4. Draws(drawn, size)
  <2>1. \E g : Draws(g, size)
    BY <1>1, <1>2
  <2> HIDE DEF Draws
  <2> QED
    BY <2>1
<1> HIDE DEF drawn
<1>5. ASSUME NEW n \in 0 .. size
      PROVE  drawn[n] = IF n = 0 THEN s ELSE Banded(drawn[n - 1], n, B)
  BY <1>4
<1> DEFINE Wrong == {n \in 0 .. size : ~ Kept(drawn[n])}
<1>6. Wrong = {}
  <2>1. SUFFICES ASSUME Wrong # {} PROVE FALSE
    OBVIOUS
  <2>2. PICK n \in Wrong : \A j \in Wrong : n <= j
    <3>1. Wrong \subseteq Nat
      BY <1>1
    <3> HIDE DEF Wrong
    <3> QED
      BY <2>1, <3>1, LeastElement
  <2>3. n \in 0 .. size /\ ~ Kept(drawn[n])
    OBVIOUS
  <2>4. n # 0
    BY <1>5, <2>3
  <2>5. n - 1 \in 0 .. size /\ n \in 1 .. size /\ ~ (n <= n - 1)
    BY <1>1, <2>3, <2>4
  <2>6. Kept(drawn[n - 1])
    BY <2>2, <2>5
  <2>7. Kept(Banded(drawn[n - 1], n, B))
    BY <2>5, <2>6, BandedStep
  <2> QED
    BY <1>5, <2>3, <2>4, <2>7
<1> QED
  BY <1>1, <1>3, <1>6

\* What is drawn leaves the selection right.
LEMMA PaintStep ==
  ASSUME NEW s, Kept(s), ScenePart, NEW t, paintGL(s, t)
  PROVE  Kept(t)
BY RubberBandStep, Zenon DEF paintGL

------------------------------------------------------------------------------
(* Every step                                                               *)

\* Nothing but the scene changes, and it grows or is disturbed.
LEMMA SceneStep ==
  ASSUME SelectionInv, UNCHANGED <<selection, handler, fate>>, ScenePart',
         disturbed' \/ (~ disturbed /\ size <= size')
  PROVE  SelectionInv'
<1>1. Kept(selection)'
  <2>1. size \in Nat /\ size' \in Nat
    <3>1. size \in Nat
      BY SceneSize DEF SelectionInv
    <3>2. size' \in Nat
      BY FS_CardinalityType DEF ScenePart, size
    <3> QED
      BY <3>1, <3>2
  <2> QED
    BY <2>1 DEF SelectionInv, Kept
<1>2. FoundInv' /\ MissingOnlyIfDisturbed'
  BY DEF SelectionInv, FoundInv, MissingOnlyIfDisturbed, Index, NAMESTACKOFFSET, NAMESTACKSTEP
<1> QED
  BY <1>1, <1>2 DEF SelectionInv

\* The scene stays what it is, and the selection is right.
LEMMA SelectedStep ==
  ASSUME SelectionInv, UNCHANGED scene, \E s : Kept(s) /\ selection' = s,
         FoundInv',
         fate' # "fine" => \/ fate' = fate /\ selection' = selection
                           \/ disturbed \/ selection'.last = 0
  PROVE  SelectionInv'
<1>1. PICK s : Kept(s) /\ selection' = s
  OBVIOUS
<1>2. size' = size
  BY DEF scene, size
<1>3. Kept(selection)'
  BY <1>1, <1>2 DEF Kept, scene
<1> QED
  BY <1>3 DEF SelectionInv, MissingOnlyIfDisturbed, ScenePart, scene

LEMMA new_sourceStep == SelectionInv /\ new_source => SelectionInv'
<1> SUFFICES ASSUME SelectionInv, new_source PROVE SelectionInv'
  OBVIOUS
<1> USE DEF SelectionInv
<1>1. ScenePart'
  <2>1. IsFiniteSet(sources')
    BY FS_AddElement DEF ScenePart, new_source
  <2> QED
    BY <2>1 DEF ScenePart, new_source
<1>2. disturbed' \/ (~ disturbed /\ size <= size')
  <2>1. ASSUME ~ disturbed PROVE size <= size'
    <3>1. Cardinality(1 .. _highest_id) = _highest_id
      BY FS_Interval DEF ScenePart
    <3>2. Cardinality(1 .. _highest_id + 1) = _highest_id + 1
      BY FS_Interval DEF ScenePart
    <3>3. sources = 1 .. _highest_id /\ sources' = 1 .. _highest_id + 1
      BY <2>1 DEF ScenePart, new_source
    <3>4. size = _highest_id /\ size' = _highest_id + 1
      BY <3>1, <3>2, <3>3 DEF size
    <3> QED
      BY <3>4 DEF ScenePart
  <2> QED
    BY <2>1 DEF new_source
<1> QED
  BY <1>1, <1>2, SceneStep DEF new_source, mouse

LEMMA DisturbedStep ==
  SelectionInv /\ (new_source_fails \/ (\E id \in sources : delete_source(id))
                   \/ \E n \in 0 .. MaxId : load_scene(n)) => SelectionInv'
<1> SUFFICES ASSUME SelectionInv,
                    new_source_fails \/ (\E id \in sources : delete_source(id))
                      \/ \E n \in 0 .. MaxId : load_scene(n)
             PROVE  SelectionInv'
  OBVIOUS
<1>1. CASE new_source_fails
  BY <1>1, SceneStep DEF SelectionInv, ScenePart, new_source_fails, mouse
<1>2. ASSUME NEW id \in sources, delete_source(id) PROVE SelectionInv'
  <2>1. IsFiniteSet(sources')
    BY <1>2, FS_RemoveElement DEF SelectionInv, ScenePart, delete_source
  <2> QED
    BY <1>2, <2>1, SceneStep DEF SelectionInv, ScenePart, delete_source, mouse
<1>3. ASSUME NEW n \in 0 .. MaxId, load_scene(n) PROVE SelectionInv'
  <2>1. n \in Nat
    BY MaxIdAssumption
  <2>2. IsFiniteSet(1 .. n)
    BY <2>1, FS_Interval
  <2> QED
    BY <1>3, <2>1, <2>2, SceneStep DEF SelectionInv, ScenePart, load_scene, Loaded, mouse
<1> QED
  BY <1>1, <1>2, <1>3

LEMMA _load_sceneStep ==
  ASSUME SelectionInv, NEW n \in 0 .. MaxId, _load_scene(n)
  PROVE  SelectionInv'
<1> DEFINE s == _deselect_all_sources(selection)
<1>1. Kept(s) /\ DOMAIN s.map = {} /\ s.last = 0
  BY NoneSelected DEF SelectionInv
<1>3. selection' = s /\ handler.at = "none" /\ fate' = fate /\ handler' = handler
      /\ sources' = 1 .. n /\ _highest_id' = n
  BY DEF _load_scene, Loaded, mouse
<1> HIDE DEF s
<1>4. Kept(selection)'
  BY <1>1, <1>3 DEF Kept
<1>5. n \in Nat /\ IsFiniteSet(1 .. n)
  BY MaxIdAssumption, FS_Interval
<1>6. ScenePart'
  BY <1>3, <1>5 DEF ScenePart
<1>7. FoundInv' /\ MissingOnlyIfDisturbed'
  BY <1>1, <1>3 DEF SelectionInv, FoundInv, MissingOnlyIfDisturbed
<1> QED
  BY <1>4, <1>6, <1>7 DEF SelectionInv

\* The ID of the last source clicked is that of a source, or 0.
LEMMA LastIsThere ==
  ASSUME SelectionInv, ~ disturbed, selection.last # 0
  PROVE  /\ selection.last \in sources /\ selection.last \in 1 .. size
         /\ MayDraw(selection)
         /\ \A i \in DOMAIN selection.map : selection.map[i] \in sources
<1>1. size = _highest_id /\ size \in Nat /\ sources = 1 .. size
  BY SceneSize DEF SelectionInv, ScenePart
<1>2. PICK i \in DOMAIN selection.map : selection.last = selection.map[i]
  BY DEF SelectionInv, Kept
<1>3. i \in 1 .. size /\ selection.map[i] = i
  BY DEF SelectionInv, Kept
<1>4. \A j \in DOMAIN selection.map : selection.map[j] \in sources
  BY <1>1 DEF SelectionInv, Kept
<1> QED
  BY <1>1, <1>2, <1>3, <1>4 DEF MayDraw

LEMMA DrawsFine ==
  ASSUME SelectionInv, ~ MayDraw(selection)
  PROVE  disturbed
<1>1. size \in Nat
  BY SceneSize DEF SelectionInv
<1>2. selection.last = 0 => MayDraw(selection)
  BY <1>1 DEF MayDraw
<1> QED
  BY <1>2, LastIsThere

LEMMA DrawStep == SelectionInv /\ Draw /\ fate = "fine" => SelectionInv'
<1> SUFFICES ASSUME SelectionInv, Draw, fate = "fine" PROVE SelectionInv'
  OBVIOUS
<1>1. PICK t : paintGL(selection, t) /\ selection' = t
  BY Zenon DEF Draw
<1>2. Kept(t)
  BY <1>1, PaintStep DEF SelectionInv
<1>3. handler.at = "none" /\ handler' = handler /\ UNCHANGED scene
  BY DEF Draw, mouse
<1>4. FoundInv'
  BY <1>3 DEF SelectionInv, FoundInv
<1>5. fate' # "fine" => disturbed
  BY DrawsFine DEF Draw
<1> QED
  BY <1>1, <1>2, <1>3, <1>4, <1>5, SelectedStep

LEMMA FoundIndex ==
  ASSUME ScenePart, NEW object \in Objects, object > NAMESTACKOFFSET
  PROVE  Index(object) \in Nat /\ (Index(object) = 0 => size = 0)
<1>1. size \in Nat
  BY SceneSize
<1> USE DEF Index, Name, NAMESTACKOFFSET, NAMESTACKSTEP
<1>2. CASE object \in 0 .. 4
  BY <1>2
<1>3. ASSUME NEW n \in 1 .. size, NEW kind \in 1 .. 3, object = Name(n, kind)
      PROVE  Index(object) \in Nat /\ Index(object) # 0
  <2>1. n \in Nat /\ n >= 1 /\ kind \in Nat /\ kind < 5
    BY <1>1, <1>3
  <2> QED
    BY <1>3, <2>1
<1>4. CASE object = Name(size, 4)
  BY <1>1, <1>4
<1> QED
  BY <1>2, <1>3, <1>4 DEF Objects

LEMMA _find_selected_objectStep ==
  SelectionInv /\ _find_selected_object /\ fate = "fine" => SelectionInv'
<1> SUFFICES ASSUME SelectionInv, _find_selected_object, fate = "fine" PROVE SelectionInv'
  OBVIOUS
<1> DEFINE s == [selection EXCEPT !.reference = FALSE]
<1>1. PICK t, object, b :
        /\ object \in Objects /\ paintGL(s, t) /\ selection' = t
        /\ handler' = [at |-> "found", object |-> object,
                       lastlast |-> selection.last, button |-> b]
  BY Zenon DEF _find_selected_object
<1>2. Kept(s)
  <2>1. PICK m, l, r : selection = [map |-> m, last |-> l, reference |-> r]
    BY DEF SelectionInv, Kept
  <2>2. s = [map |-> m, last |-> l, reference |-> FALSE]
    <3>1. \A x : [[map |-> m, last |-> l, reference |-> r] EXCEPT !.reference = x]
                 = [map |-> m, last |-> l, reference |-> x]
      OBVIOUS
    <3> QED
      BY <2>1, <3>1, Zenon
  <2> HIDE DEF s
  <2>3. s.map = selection.map /\ s.last = selection.last /\ s.reference = FALSE
    BY <2>1, <2>2
  <2> QED
    BY <2>2, <2>3 DEF SelectionInv, Kept
<1> HIDE DEF s
<1>3. Kept(t)
  BY <1>1, <1>2, PaintStep DEF SelectionInv
<1>4. UNCHANGED scene
  BY DEF _find_selected_object
<1>5. FoundInv'
  <2>1. SUFFICES ASSUME object > NAMESTACKOFFSET
                 PROVE  Index(object) \in Nat
                        /\ (Index(object) = 0 => disturbed \/ t.last = 0)
    BY <1>1, <1>4 DEF FoundInv, scene, Index, NAMESTACKOFFSET, NAMESTACKSTEP
  <2>2. size = 0 => disturbed \/ t.last = 0
    BY <1>3 DEF Kept
  <2> QED
    BY <1>1, <2>1, <2>2, FoundIndex DEF SelectionInv
<1>6. fate' # "fine" => disturbed
  BY DrawsFine DEF _find_selected_object
<1> QED
  BY <1>1, <1>3, <1>4, <1>5, <1>6, SelectedStep

LEMMA PressStep ==
  SelectionInv /\ (PressBackground \/ PressLoudspeaker \/ PressSource) /\ fate = "fine"
    => SelectionInv'
<1> SUFFICES ASSUME SelectionInv, fate = "fine",
                    PressBackground \/ PressLoudspeaker \/ PressSource
             PROVE  SelectionInv'
  OBVIOUS
<1>1. /\ UNCHANGED scene /\ fate' = fate
      /\ handler'.at # "found" /\ "at" \in DOMAIN handler'
  <2>1. UNCHANGED scene /\ fate' = fate
    BY DEF PressBackground, PressLoudspeaker, PressSource
  <2>2. "at" \in DOMAIN handler
    BY DEF SelectionInv, FoundInv
  <2>3. handler' = NoHandler \/ handler' = [handler EXCEPT !.at = "selected"]
    BY Zenon DEF PressBackground, PressLoudspeaker, PressSource
  <2>4. handler'.at # "found" /\ "at" \in DOMAIN handler'
    BY <2>2, <2>3 DEF NoHandler
  <2> QED
    BY <2>1, <2>4
<1>2. FoundInv'
  BY <1>1 DEF FoundInv
<1>3. \E s : Kept(s) /\ selection' = s
  <2>1. CASE PressBackground
    <3> DEFINE s == IF handler.object = REFERENCEINDEX1 /\ ~ ctrl
                    THEN _select_source(selection, 0, FALSE) ELSE selection
    <3>1. selection' = IF handler.button = "left" THEN _deselect_all_sources(s) ELSE s
      BY <2>1, Zenon DEF PressBackground
    <3>2. Kept(s)
      BY SelectStep DEF SelectionInv
    <3> HIDE DEF s
    <3> QED
      BY <3>1, <3>2, NoneSelected
  <2>2. CASE PressLoudspeaker
    BY <2>2, NoneSelected DEF PressLoudspeaker, SelectionInv
  <2>3. CASE PressSource
    <3>1. selection' = _select_source(selection, Index(handler.object), ctrl)
          /\ handler.at = "found" /\ handler.object > NAMESTACKOFFSET
      BY <2>3 DEF PressSource
    <3>2. Index(handler.object) \in Nat
          /\ (Index(handler.object) = 0 => disturbed \/ selection.last = 0)
      BY <3>1 DEF SelectionInv, FoundInv
    <3>3. ctrl \in BOOLEAN
      BY DEF ctrl
    <3> QED
      BY <3>1, <3>2, <3>3, SelectStep DEF SelectionInv
  <2> QED
    BY <2>1, <2>2, <2>3
<1> QED
  BY <1>1, <1>2, <1>3, SelectedStep

LEMMA keyPressEventStep == SelectionInv /\ keyPressEvent /\ fate = "fine" => SelectionInv'
<1> SUFFICES ASSUME SelectionInv, keyPressEvent, fate = "fine" PROVE SelectionInv'
  OBVIOUS
<1>1. UNCHANGED scene /\ fate' = fate /\ handler' = handler /\ handler.at = "none"
  BY DEF keyPressEvent, mouse
<1>2. FoundInv'
  BY <1>1 DEF SelectionInv, FoundInv
<1>3. \E s : Kept(s) /\ selection' = s
  <2>1. CASE selection' = _deselect_all_sources(selection)
    BY <2>1, NoneSelected DEF SelectionInv
  <2>2. ASSUME NEW n \in 1 .. MaxId, selection' = _select_source(selection, n, ctrl)
        PROVE  \E s : Kept(s) /\ selection' = s
    <3>1. n \in Nat /\ n # 0 /\ ctrl \in BOOLEAN
      BY MaxIdAssumption DEF ctrl
    <3> QED
      BY <2>2, <3>1, SelectStep DEF SelectionInv
  <2>3. CASE selection' = _select_all_sources(selection)
    BY <2>3, SelectAllStep DEF SelectionInv
  <2> QED
    BY <2>1, <2>2, <2>3 DEF keyPressEvent
<1> QED
  BY <1>1, <1>2, <1>3, SelectedStep

\* The steps that use a source, or nothing that is selected.
LEMMA OtherStep ==
  SelectionInv /\ fate = "fine"
    /\ (\/ PressLocate \/ mouseMoveEvent \/ mouseReleaseEvent \/ mouseDoubleClickEvent
        \/ (\E k \in {"ctrl", "alt"} : PressModifier(k) \/ keyReleaseEvent(k))
        \/ _set_source_model \/ _update_screen)
    => SelectionInv'
<1> SUFFICES ASSUME SelectionInv, fate = "fine",
                    \/ PressLocate \/ mouseMoveEvent \/ mouseReleaseEvent \/ mouseDoubleClickEvent
                    \/ (\E k \in {"ctrl", "alt"} : PressModifier(k) \/ keyReleaseEvent(k))
                    \/ _set_source_model \/ _update_screen
             PROVE  SelectionInv'
  OBVIOUS
<1>1. UNCHANGED scene /\ selection' = selection /\ (handler' = handler \/ handler' = NoHandler)
  BY DEF PressLocate, mouseMoveEvent, mouseReleaseEvent, mouseDoubleClickEvent, PressModifier,
         keyReleaseEvent, _set_source_model, _update_screen, mouse, NoHandler
<1>2. FoundInv'
  BY <1>1 DEF SelectionInv, FoundInv, scene, Index, NAMESTACKOFFSET, NAMESTACKSTEP, NoHandler
<1>3. ASSUME fate' # "fine" PROVE disturbed \/ selection.last = 0
  <2>1. CASE selection.last \notin sources
    BY <2>1, LastIsThere
  <2>2. CASE mouseMoveEvent
    <3>1. SUFFICES ASSUME ~ disturbed, selection.last # 0 PROVE Dragged \subseteq sources
      BY <1>3, <2>2 DEF mouseMoveEvent
    <3>2. selection.last \in sources /\ \A i \in DOMAIN selection.map : selection.map[i] \in sources
      BY <3>1, LastIsThere
    <3> QED
      BY <3>2 DEF Dragged
  <2> QED
    BY <1>3, <2>1, <2>2 DEF PressLocate, mouseReleaseEvent, mouseDoubleClickEvent, PressModifier,
         keyReleaseEvent, _set_source_model, _update_screen, mouse
<1> QED
  BY <1>1, <1>2, <1>3, SelectedStep DEF SelectionInv

LEMMA SelectionStep == SelectionInv /\ [Next]_vars => SelectionInv'
<1> SUFFICES ASSUME SelectionInv, [Next]_vars PROVE SelectionInv'
  OBVIOUS
<1>1. CASE UNCHANGED vars
  BY <1>1 DEF vars, SelectionInv, ScenePart, Kept, FoundInv, MissingOnlyIfDisturbed, size,
              Index, NAMESTACKOFFSET, NAMESTACKSTEP
<1>2. CASE Next
  BY <1>2, new_sourceStep, DisturbedStep, _load_sceneStep, DrawStep, _find_selected_objectStep,
     PressStep, keyPressEventStep, OtherStep, Zenon DEF Next
<1> QED
  BY <1>1, <1>2

LEMMA SelectionInitially == Init => SelectionInv
<1> SUFFICES ASSUME Init PROVE SelectionInv
  OBVIOUS
<1>1. 1 .. 0 = {} /\ IsFiniteSet({}) /\ Cardinality({}) = 0
  BY FS_EmptySet
<1>2. Empty = [i \in DOMAIN Empty |-> Empty[i]] /\ DOMAIN Empty = {}
  BY DEF Empty
<1>3. Kept(selection)
  BY <1>1, <1>2 DEF Init, Kept
<1> QED
  BY <1>1, <1>3 DEF Init, SelectionInv, ScenePart, FoundInv, MissingOnlyIfDisturbed, NoHandler

LEMMA SelectionInvariant == InterfaceSpec => []SelectionInv
<1>1. InterfaceInit => SelectionInv
  BY SelectionInitially DEF InterfaceInit
<1>2. SelectionInv /\ [InterfaceNext]_<<vars, control_vars, transport_vars, queries, part>> => SelectionInv'
  <2>1. InterfaceNext => [Next]_vars
    BY Zenon DEF InterfaceNext
  <2> QED
    BY <2>1, SelectionStep
<1> QED
  BY <1>1, <1>2, PTL DEF InterfaceSpec

\* The source that was clicked last is one of those that are selected: drawing,
\* moving and the dialog of QUserInterface take it for one, whatever clicks, keys and
\* rubber bands came before, and whatever other threads did to the scene.
THEOREM LastAlwaysSelected == InterfaceSpec => []LastIsSelected
<1>1. SelectionInv => LastIsSelected
  <2> SUFFICES ASSUME SelectionInv PROVE LastIsSelected
    OBVIOUS
  <2>1. selection.map = Empty <=> DOMAIN selection.map = {}
    BY NothingMapped DEF SelectionInv, Kept
  <2> QED
    BY <2>1 DEF SelectionInv, Kept, LastIsSelected, Selected
<1> QED
  BY <1>1, SelectionInvariant, PTL

\* Sources that are drawn as selected, by their places in the list, are those whose IDs the next
\* operation of QUserInterface uses, until a source is removed or cannot be made.
THEOREM ShownAreAlwaysChanged == InterfaceSpec => []ShownAreChanged
<1>1. SelectionInv => ShownAreChanged
  <2> SUFFICES ASSUME SelectionInv, ~ disturbed
               PROVE  /\ DOMAIN selection.map \subseteq 1 .. size
                      /\ { list[i] : i \in DOMAIN selection.map } = Selected
    BY DEF ShownAreChanged
  <2>1. \A i \in DOMAIN selection.map : i \in 1 .. size /\ selection.map[i] = i
    BY DEF SelectionInv, Kept
  <2>2. \A i \in 1 .. size : list[i] = i
    BY SceneSize DEF SelectionInv
  <2> QED
    BY <2>1, <2>2 DEF Selected
<1> QED
  BY <1>1, SelectionInvariant, PTL

\* Event handlers of QUserInterface use no source that is not there, unless one was removed,
\* could not be made, or none is selected.
THEOREM MissingOnlyThen == InterfaceSpec => []MissingOnlyIfDisturbed
<1>1. SelectionInv => MissingOnlyIfDisturbed
  BY DEF SelectionInv
<1> QED
  BY <1>1, SelectionInvariant, PTL
==============================================================================
