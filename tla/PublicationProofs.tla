-------------------------- MODULE PublicationProofs --------------------------
(***************************************************************************)
(* Proofs about Publication, for any number of connections, IDs and        *)
(* requests: the renderer follows the scene, the clients follow the scene, *)
(* and no connection keeps the level of a source that was deleted.         *)
(*                                                                         *)
(* All three say how far a replica may be from the scene, depending on how *)
(* far the loops over _subscribers are.  The scene is told first, the      *)
(* renderer next, then the connections; two threads may publish the same   *)
(* setting at once, only the network thread publishes anything else that   *)
(* is kept in a replica.                                                   *)
(*                                                                         *)
(* A source whose position is fixed does not move, because the network     *)
(* thread alone publishes positions and asks the scene before it does.     *)
(*                                                                         *)
(* At the end: what is read from a connection and what is written to it    *)
(* (NetworkInterface) is neither lost nor doubled.                         *)
(***************************************************************************)
EXTENDS Publication, NetworkInterface, FiniteSetTheorems, SequenceTheorems,
        WellFoundedInduction, TLAPS

------------------------------------------------------------------------------
(* The invariant: types                                                    *)

\* What the network thread may have to do beside new_source, which it has to do
\* only at once.
Later ==
  Asked({"add", "start", "stop", "delete_all_sources"}, {0}, {""})
    \cup Asked({"delete_source"}, Ids, {""})
    \cup Asked({"move"}, Ids, {"position"})
    \cup Asked({"member"}, Ids, Members)
    \cup Asked({"setting"}, {0}, Settings)
    \cup Asked({"scene_setting"}, {0}, {"amplitude_reference_distance"})
AtOnce == Asked({"new_source"}, Ids, {""})
Turns == Asked({"setting"}, {0}, {"reference_orientation"})
Levels == Asked({"level"}, Ids, {""})

CallsOf(t) == CASE t = "network" -> Later \cup AtOnce
                [] t = "tracker" -> Turns
                [] t = "query"   -> Levels

States(t) == [todo : Seq(CallsOf(t)), array : Nat, next : Nat, end : Nat]

Behind == Tail(thread["network"].todo)

Links == {"none", "subscribed", "reading", "up", "gone"}

ThreadsTyped == DOMAIN thread = Threads /\ \A t \in Threads : thread[t] \in States(t)

PublicationTypes ==
  /\ scene \in Replicas /\ renderer \in Replicas /\ whole_scene \in Replicas
  /\ _highest_id \in 0 .. MaxId
  /\ client \in [Clients -> Replicas]
  /\ _source_levels \in [Clients -> SUBSET Ids]
  /\ ThreadsTyped
  /\ locked \in BOOLEAN
  /\ link \in [Clients -> Links]
  /\ requests \in 0 .. MaxRequests /\ turns \in 0 .. MaxTurns
  /\ overlapped \subseteq Clients /\ agreed \subseteq Settings
  /\ Busy("network") => Behind \in Seq(Later)

------------------------------------------------------------------------------
(* The invariant: subscribers and loops                                    *)

Live(c) == link[c] \in {"subscribed", "reading", "up"}
Joining(c) == link[c] \in {"subscribed", "reading"}

IsIn(c, s, n) == \E i \in 1 .. n : s[i] = c

\* Whoever is connected is among the subscribers, behind the scene and the renderer.
ArraysInv ==
  /\ arrays \in Seq(Seq(Subscribers)) /\ arrays # <<>>
  /\ \A n \in 1 .. Len(arrays) :
       /\ Len(arrays[n]) >= 2
       /\ arrays[n][1] = "scene" /\ arrays[n][2] = "renderer"
       /\ \A i \in 3 .. Len(arrays[n]) :
            arrays[n][i] \in Clients /\ link[arrays[n][i]] # "none"
  /\ \A c \in Clients : Live(c) => IsIn(c, _subscribers, Len(_subscribers))

\* Iterators stay within their array.  The network thread has the current one; the
\* other threads have one that all are in who are not known to be overlapped.
LoopsInv ==
  /\ \A t \in Threads :
       IF InLoop(t)
       THEN /\ Publishing(t)
            /\ thread[t].array \in 1 .. Len(arrays)
            /\ thread[t].next <= thread[t].end
            /\ thread[t].end \in 2 .. Len(arrays[thread[t].array])
       ELSE thread[t].array = 1 /\ thread[t].end = 0
  /\ InLoop("network") =>
       thread["network"].array = Len(arrays) /\ thread["network"].end = Len(_subscribers)
  /\ \A t \in Threads, c \in Clients :
       InLoop(t) /\ Live(c) /\ c \notin overlapped
         => IsIn(c, arrays[thread[t].array], thread[t].end)

\* One connection at a time is made, by the network thread.
JoinInv ==
  /\ \A c, d \in Clients : Joining(c) /\ Joining(d) => c = d
  /\ \A c \in Clients : Joining(c) =>
       /\ ~ Busy("network")
       /\ \A t \in Threads : InLoop(t) => c \in overlapped

\* What it has read of the scene is still true, but for an orientation of the reference.
ReadInv ==
  \A c \in Clients : link[c] = "reading" =>
    /\ whole_scene.sources = scene.sources
    /\ \A s \in Settings : s # "reference_orientation" \/ c \notin overlapped
         => whole_scene.settings[s] = scene.settings[s]

------------------------------------------------------------------------------
(* The invariant: the scene and the renderer                               *)

Sets(t, s) == InLoop(t) /\ CurrentCall(t).op = "setting" /\ CurrentCall(t).what = s

\* Of an agreed setting one thread at most is telling the subscribers.
SettingsInv ==
  \A s \in agreed :
    /\ \A t, u \in Threads : Sets(t, s) /\ Sets(u, s) => t = u
    /\ \A t \in Threads : Sets(t, s) /\ thread[t].next >= 2
         => scene.settings[s] = CurrentCall(t).value
    /\ s \in RendererUses =>
         \/ renderer.settings[s] = scene.settings[s]
         \/ \E t \in Threads : Sets(t, s) /\ thread[t].next <= 2

Now(op) == Busy("network") /\ CurrentCall("network").op = op
now == CurrentCall("network")
at == thread["network"].next

\* The network thread is publishing the existence of a source, and has told one of
\* the scene and the renderer.
Between(id) ==
  \/ Now("new_source") /\ now.id = id /\ at <= 1
  \/ Now("delete_source") /\ now.id = id /\ at = 2
  \/ Now("delete_all_sources") /\ at = 2

SourcesInv ==
  /\ \A id \in Ids :
       Between(id) \/ (id \in DOMAIN scene.sources <=> id \in DOMAIN renderer.sources)
  /\ Now("new_source") /\ at <= 1 =>
       /\ now.id \in DOMAIN renderer.sources
       /\ now.id \notin DOMAIN scene.sources =>
            \A m \in Members : renderer.sources[now.id][m] = 0
  /\ \A id \in DOMAIN scene.sources \cap DOMAIN renderer.sources,
        m \in Members \cap RendererUses :
       \/ scene.sources[id][m] = renderer.sources[id][m]
       \/ Now("member") /\ now.id = id /\ now.what = m /\ at = 2
  /\ Now("member") /\ at >= 2 /\ now.id \in DOMAIN scene.sources =>
       scene.sources[now.id][now.what] = now.value
  /\ Now("delete_source") /\ at >= 2 => now.id \notin DOMAIN scene.sources
  /\ Now("delete_all_sources") /\ at >= 2 => DOMAIN scene.sources = {}

------------------------------------------------------------------------------
(* The invariant: the clients                                              *)

\* The loop of thread t has told subscriber c.
Told(t, c) == IsIn(c, arrays[thread[t].array], thread[t].next - 1)

\* A member of a source will still be published.
Pending(id, m, calls) ==
  \E k \in DOMAIN calls : calls[k].op = "member" /\ calls[k].id = id /\ calls[k].what = m

\* Whatever is sent of a source is sent after it was introduced.
IntroducedInv ==
  Now("new_source") => \A m \in Members \cap ClientIsTold : Pending(now.id, m, Behind)

\* Calls that client c still has to be sent: of source id, of its member m, of setting s.
OwesSource(id, c) == Now("new_source") /\ now.id = id /\ at >= 2 /\ ~ Told("network", c)
OwesMember(id, m, c) ==
  \/ Now("member") /\ now.id = id /\ now.what = m /\ ~ Told("network", c)
  \/ Now("new_source") /\ now.id = id
  \/ Busy("network") /\ Pending(id, m, Behind)
OwesSetting(s, c) == \E t \in Threads : Sets(t, s) /\ ~ Told(t, c)

ClientSourcesInv ==
  \A c \in Clients : link[c] = "up" =>
    /\ \A id \in DOMAIN scene.sources : id \in DOMAIN client[c].sources \/ OwesSource(id, c)
    /\ \A id \in DOMAIN scene.sources \cap DOMAIN client[c].sources,
          m \in Members \cap ClientIsTold :
         scene.sources[id][m] = client[c].sources[id][m] \/ OwesMember(id, m, c)

ClientSettingsInv ==
  \A c \in Clients : link[c] = "up" =>
    \A s \in Settings \cap ClientIsTold \cap agreed :
      s # "reference_orientation" \/ c \notin overlapped =>
        scene.settings[s] = client[c].settings[s] \/ OwesSetting(s, c)

------------------------------------------------------------------------------
(* The invariant: levels                                                   *)

\* Under its lock the renderer keeps the sources whose levels are to be published.
QueryInv ==
  /\ Busy("query") => locked
  /\ \A k \in DOMAIN thread["query"].todo :
       thread["query"].todo[k].id \in DOMAIN renderer.sources

\* The renderer has no source id any more, or will not have it, and c was not told.
Deleting(id, c) ==
  /\ \/ Now("delete_source") /\ now.id = id
     \/ Now("delete_all_sources")
  /\ at >= 2 /\ ~ Told("network", c)

LevelsInv ==
  /\ \A c \in Clients : link[c] = "none" => _source_levels[c] = {}
  /\ \A c \in Clients : Live(c) =>
       \A id \in _source_levels[c] : id \in DOMAIN renderer.sources \/ Deleting(id, c)

PublicationInv ==
  /\ PublicationTypes
  /\ ArraysInv
  /\ LoopsInv
  /\ JoinInv
  /\ ReadInv
  /\ SettingsInv
  /\ SourcesInv
  /\ IntroducedInv
  /\ ClientSourcesInv
  /\ ClientSettingsInv
  /\ QueryInv
  /\ LevelsInv

------------------------------------------------------------------------------
(* Replicas                                                                *)

Sources(r) == DOMAIN r.sources

LEMMA ReplicaParts ==
  ASSUME NEW r \in Replicas
  PROVE  /\ Sources(r) \subseteq Ids
         /\ \A id \in Sources(r) : r.sources[id] \in [Members -> Values]
         /\ r.settings \in [Settings -> Values]
<1>1. PICK ids \in SUBSET Ids : r.sources \in [ids -> [Members -> Values]]
  BY DEF Replicas
<1>2. r.settings \in [Settings -> Values]
  BY DEF Replicas
<1> QED
  BY <1>1, <1>2 DEF Sources

LEMMA ReplicaOf ==
  ASSUME NEW ids \in SUBSET Ids, NEW f \in [ids -> [Members -> Values]],
         NEW g \in [Settings -> Values]
  PROVE  Replica(f, g) \in Replicas
<1> DEFINE all == UNION { [i -> [Members -> Values]] : i \in SUBSET Ids }
<1>1. f \in all
  OBVIOUS
<1> HIDE DEF all
<1>2. [sources |-> f, settings |-> g] \in [sources : all, settings : [Settings -> Values]]
  BY <1>1
<1> QED
  BY <1>2, Zenon DEF Replica, Replicas, all

\* What each change does to the sources and settings of a replica.
Grown(q, r, id) ==
  /\ Sources(q) = Sources(r) \cup {id} /\ q.settings = r.settings
  /\ \A i \in Sources(r) : q.sources[i] = r.sources[i]
  /\ id \notin Sources(r) => \A m \in Members : q.sources[id][m] = 0

Shrunk(q, r, ids) ==
  /\ Sources(q) = Sources(r) \ ids /\ q.settings = r.settings
  /\ \A i \in Sources(q) : q.sources[i] = r.sources[i]

MemberSet(q, r, call) ==
  /\ Sources(q) = Sources(r) /\ q.settings = r.settings
  /\ \A i \in Sources(r), m \in Members :
       q.sources[i][m] = IF i = call.id /\ m = call.what THEN call.value ELSE r.sources[i][m]

SettingSet(q, r, call) ==
  /\ q.sources = r.sources
  /\ \A s \in Settings :
       q.settings[s] = IF s = call.what THEN call.value ELSE r.settings[s]

LEMMA SourceAdded ==
  ASSUME NEW r \in Replicas, NEW id \in Ids, NEW q, q = WithSource(r, id)
  PROVE  q \in Replicas /\ Grown(q, r, id)
<1>1. PICK f : f = [i \in Sources(r) \cup {id} |->
                      IF i \in Sources(r) THEN r.sources[i] ELSE Defaults]
  OBVIOUS
<1>2. Defaults \in [Members -> Values] /\ \A m \in Members : Defaults[m] = 0
  BY DEF Defaults, Values
<1>3. Sources(r) \cup {id} \in SUBSET Ids
  BY ReplicaParts
<1>4. f \in [Sources(r) \cup {id} -> [Members -> Values]]
  BY <1>1, <1>2, ReplicaParts
<1>5. q = Replica(f, r.settings)
  <2>1. q = [r EXCEPT !.sources = f]
    BY <1>1, Zenon DEF WithSource, Sources
  <2>2. r = [sources |-> r.sources, settings |-> r.settings]
    BY DEF Replicas
  <2> QED
    BY <2>1, <2>2 DEF Replica
<1>6. q \in Replicas
  BY <1>3, <1>4, <1>5, ReplicaParts, ReplicaOf
<1>7. q.sources = f /\ q.settings = r.settings
  BY <1>5 DEF Replica
<1> QED
  BY <1>1, <1>2, <1>4, <1>6, <1>7 DEF Grown, Sources

LEMMA SourcesRemoved ==
  ASSUME NEW r \in Replicas, NEW ids, NEW q, q = WithoutSources(r, ids)
  PROVE  q \in Replicas /\ Shrunk(q, r, ids)
<1>1. PICK f : f = [i \in Sources(r) \ ids |-> r.sources[i]]
  OBVIOUS
<1>2. Sources(r) \ ids \in SUBSET Ids
  BY ReplicaParts
<1>3. f \in [Sources(r) \ ids -> [Members -> Values]]
  BY <1>1, ReplicaParts
<1>4. q = Replica(f, r.settings)
  <2>1. q = [r EXCEPT !.sources = f]
    BY <1>1, Zenon DEF WithoutSources, Sources
  <2>2. r = [sources |-> r.sources, settings |-> r.settings]
    BY DEF Replicas
  <2> QED
    BY <2>1, <2>2 DEF Replica
<1>5. q \in Replicas
  BY <1>2, <1>3, <1>4, ReplicaParts, ReplicaOf
<1>6. q.sources = f /\ q.settings = r.settings
  BY <1>4 DEF Replica
<1> QED
  BY <1>1, <1>5, <1>6 DEF Shrunk, Sources

LEMMA MemberChanged ==
  ASSUME NEW r \in Replicas, NEW call, call.what \in Members, call.value \in Values,
         NEW q, q = WithMember(r, call)
  PROVE  q \in Replicas /\ MemberSet(q, r, call)
<1>1. CASE call.id \notin Sources(r)
  BY <1>1 DEF WithMember, MemberSet, Sources
<1>2. CASE call.id \in Sources(r)
  <2>1. PICK id \in Sources(r), m \in Members, v \in Values :
          id = call.id /\ m = call.what /\ v = call.value
    BY <1>2
  <2>2. PICK old : old = r.sources
    OBVIOUS
  <2>3. DOMAIN old = Sources(r) /\ \A i \in Sources(r) : old[i] \in [Members -> Values]
    BY <2>2, ReplicaParts DEF Sources
  <2>4. PICK f : f = [old EXCEPT ![id] = [old[id] EXCEPT ![m] = v]]
    OBVIOUS
  <2>5. /\ DOMAIN f = Sources(r)
        /\ \A i \in Sources(r) : f[i] = IF i = id THEN [old[i] EXCEPT ![m] = v] ELSE old[i]
    BY <2>1, <2>3, <2>4
  <2>6. \A i \in Sources(r), n \in Members :
          f[i][n] = IF i = id /\ n = m THEN v ELSE old[i][n]
    BY <2>1, <2>3, <2>5
  <2>7. f \in [Sources(r) -> [Members -> Values]]
    <3>1. \A i \in Sources(r) : f[i] \in [Members -> Values]
      BY <2>1, <2>3, <2>5
    <3>2. f = [i \in Sources(r) |-> f[i]]
      BY <2>4, <2>3
    <3> QED
      BY <3>1, <3>2
  <2>8. q = Replica(f, r.settings)
    <3>1. q = [r EXCEPT !.sources = f]
      <4>1. q = [r EXCEPT !.sources[id][m] = v]
        BY <1>2, <2>1, Zenon DEF WithMember, Sources
      <4> QED
        BY <2>2, <2>4, <4>1
    <3>2. r = [sources |-> r.sources, settings |-> r.settings]
      BY DEF Replicas
    <3> QED
      BY <3>1, <3>2 DEF Replica
  <2>9. q \in Replicas
    <3>1. Sources(r) \in SUBSET Ids /\ r.settings \in [Settings -> Values]
      BY ReplicaParts
    <3> QED
      BY <2>7, <2>8, <3>1, ReplicaOf
  <2>10. q.sources = f /\ q.settings = r.settings
    BY <2>8 DEF Replica
  <2> QED
    BY <2>1, <2>2, <2>5, <2>6, <2>9, <2>10 DEF MemberSet, Sources
<1> QED
  BY <1>1, <1>2

LEMMA SettingChanged ==
  ASSUME NEW r \in Replicas, NEW call, call.what \in Settings, call.value \in Values,
         NEW q, q = WithSetting(r, call)
  PROVE  q \in Replicas /\ SettingSet(q, r, call)
<1>1. PICK s \in Settings, v \in Values, old \in [Settings -> Values] :
        s = call.what /\ v = call.value /\ old = r.settings
  BY ReplicaParts
<1>2. PICK g : g = [old EXCEPT ![s] = v]
  OBVIOUS
<1>3. g \in [Settings -> Values] /\ \A x \in Settings : g[x] = IF x = s THEN v ELSE old[x]
  BY <1>1, <1>2
<1>4. q = Replica(r.sources, g)
  <2>1. q = [r EXCEPT !.settings = g]
    <3>1. q = [r EXCEPT !.settings = [@ EXCEPT ![s] = v]]
      BY <1>1, Zenon DEF WithSetting
    <3> QED
      BY <1>1, <1>2, <3>1
  <2>2. r = [sources |-> r.sources, settings |-> r.settings]
    BY DEF Replicas
  <2> QED
    BY <2>1, <2>2 DEF Replica
<1>5. q.sources = r.sources /\ q.settings = g
  BY <1>4 DEF Replica
<1>6. q \in Replicas
  BY <1>3, <1>4 DEF Replica, Replicas
<1> QED
  BY <1>1, <1>3, <1>5, <1>6 DEF SettingSet

------------------------------------------------------------------------------
(* Sequences                                                               *)

LEMMA LeastElement ==
  ASSUME NEW S, S \subseteq Nat, S # {}
  PROVE  \E n \in S : \A k \in S : n <= k
<1> DEFINE Less == {p \in Nat \X Nat : p[1] < p[2]}
<1>1. IsWellFoundedOn(Less, Nat)
  BY NatLessThanWellFounded, Zenon DEF OpToRel
<1> HIDE DEF Less
<1>2. PICK n \in S : \A k \in S : ~ (<<k, n>> \in Less)
  BY <1>1, WFMin
<1>3. ASSUME NEW k \in S PROVE n <= k
  <2>1. n \in Nat /\ k \in Nat
    OBVIOUS
  <2>2. ~ (k < n)
    BY <1>2, <2>1 DEF Less
  <2> QED
    BY <2>1, <2>2
<1> QED
  BY <1>3

\* A map has a k-th ID: the least number with k IDs up to it.
LEMMA NthIsElement ==
  ASSUME NEW S \in SUBSET Ids, NEW k \in 1 .. Cardinality(S)
  PROVE  Nth(S, k) \in S
<1> DEFINE UpTo(x) == {i \in S : i <= x}
           Enough == {x \in 0 .. MaxId : Cardinality(UpTo(x)) >= k}
<1>1. MaxId \in Nat /\ \A i \in S : i \in Int /\ 1 <= i /\ i <= MaxId
  BY BoundsAssumption DEF Ids
<1>2. ASSUME NEW x \in 0 .. MaxId
      PROVE  IsFiniteSet(UpTo(x)) /\ Cardinality(UpTo(x)) \in Nat
  <2>1. IsFiniteSet(1 .. MaxId)
    BY <1>1, FS_Interval
  <2>2. UpTo(x) \subseteq 1 .. MaxId
    BY DEF Ids
  <2> QED
    BY <2>1, <2>2, FS_Subset, FS_CardinalityType
<1>3. Enough # {}
  <2>1. UpTo(MaxId) = S
    BY <1>1
  <2>2. MaxId \in 0 .. MaxId /\ Cardinality(S) >= k
    BY <1>1, <1>2, <2>1
  <2> QED
    BY <2>1, <2>2
<1>4. PICK x \in Enough : \A y \in Enough : x <= y
  <2>1. Enough \subseteq Nat
    BY <1>1
  <2> HIDE DEF Enough
  <2> QED
    BY <1>3, <2>1, LeastElement
<1>5. x \in 0 .. MaxId /\ Cardinality(UpTo(x)) >= k
  OBVIOUS
<1>6. x # 0
  <2>1. UpTo(0) = {}
    BY <1>1
  <2> QED
    BY <1>5, <2>1, FS_EmptySet
<1>7. PICK y \in 0 .. MaxId : y = x - 1
  BY <1>1, <1>5, <1>6
<1>8. Cardinality(UpTo(y)) < k
  <2>1. y \notin Enough
    BY <1>4, <1>5, <1>7
  <2> QED
    BY <1>2, <2>1
<1>9. x \in S
  <2>1. SUFFICES ASSUME x \notin S PROVE FALSE
    OBVIOUS
  <2>2. UpTo(x) = UpTo(y)
    <3>1. \A i \in S : i <= x <=> i <= y
      BY <1>1, <1>5, <1>7, <2>1
    <3> QED
      BY <3>1
  <2> QED
    BY <1>2, <1>5, <1>8, <2>2
<1>10. Cardinality(UpTo(x)) = k
  <2>1. UpTo(x) = UpTo(y) \cup {x} /\ x \notin UpTo(y)
    <3>1. \A i \in S : i <= x <=> i <= y \/ i = x
      BY <1>1, <1>5, <1>7
    <3>2. ~ (x <= y)
      BY <1>1, <1>5, <1>7
    <3> QED
      BY <1>9, <3>1, <3>2
  <2>2. Cardinality(UpTo(x)) = Cardinality(UpTo(y)) + 1
    <3> HIDE DEF UpTo
    <3> QED
      BY <1>2, <2>1, FS_AddElement
  <2>3. PICK a \in Nat, b \in Nat : a = Cardinality(UpTo(x)) /\ b = Cardinality(UpTo(y))
    BY <1>2, <1>5
  <2>4. k \in Int
    BY <1>2, FS_CardinalityType
  <2> HIDE DEF UpTo
  <2> QED
    BY <1>5, <1>8, <2>2, <2>3, <2>4
<1>11. \E id \in S : Cardinality({i \in S : i <= id}) = k
  BY <1>9, <1>10
<1> QED
  BY <1>11 DEF Nth

\* What std::remove() does: the size remains, elements other than c are kept, the
\* first two stay in place and nothing else comes from there.
Shifted(t, s, c) ==
  /\ Len(t) = Len(s)
  /\ t[1] = s[1] /\ t[2] = s[2]
  /\ \A n \in 3 .. Len(s) : \E k \in 3 .. Len(s) : t[n] = s[k]
  /\ \A k \in 1 .. Len(s) : s[k] # c => \E n \in 1 .. Len(s) : t[n] = s[k]

LEMMA RemovedIsShifted ==
  ASSUME NEW S, NEW s \in Seq(S), NEW c, Len(s) >= 2, s[1] # c, s[2] # c,
         NEW t, t = Removed(s, c)
  PROVE  t \in Seq(S) /\ Shifted(t, s, c)
<1> DEFINE gone(k) == {j \in 1 .. k - 1 : s[j] = c}
           place(k) == k - Cardinality(gone(k))
           moved(n) == {k \in DOMAIN s : s[k] # c /\ place(k) = n}
<1>1. DOMAIN s = 1 .. Len(s) /\ Len(s) \in Nat /\ \A k \in 1 .. Len(s) : s[k] \in S
  OBVIOUS
<1>2. ASSUME NEW k \in 1 .. Len(s)
      PROVE  /\ IsFiniteSet(gone(k)) /\ Cardinality(gone(k)) \in 0 .. k - 1
             /\ place(k) \in 1 .. k
  <2>1. k \in Nat /\ k >= 1
    BY <1>1
  <2>2. IsFiniteSet(1 .. k - 1) /\ Cardinality(1 .. k - 1) = k - 1
    <3>1. PICK a \in Int, b \in Int : a = 1 /\ b = k - 1
      BY <2>1
    <3>2. IsFiniteSet(a .. b) /\ Cardinality(a .. b) = IF a > b THEN 0 ELSE b - a + 1
      BY FS_Interval
    <3> QED
      BY <2>1, <3>1, <3>2
  <2>3. gone(k) \subseteq 1 .. k - 1
    OBVIOUS
  <2>4. IsFiniteSet(gone(k)) /\ Cardinality(gone(k)) \in Nat /\ Cardinality(gone(k)) <= k - 1
    <3> HIDE DEF gone
    <3> QED
      BY <2>2, <2>3, FS_Subset, FS_CardinalityType
  <2> QED
    BY <2>1, <2>4
<1>3. ASSUME NEW j \in 1 .. Len(s), NEW k \in 1 .. Len(s), j < k, s[j] # c
      PROVE  place(j) < place(k)
  <2>1. IsFiniteSet(j + 1 .. k - 1) /\ Cardinality(j + 1 .. k - 1) = k - 1 - j
    <3>1. PICK a \in Int, b \in Int : a = j + 1 /\ b = k - 1
      BY <1>1
    <3>2. IsFiniteSet(a .. b) /\ Cardinality(a .. b) = IF a > b THEN 0 ELSE b - a + 1
      BY FS_Interval
    <3> QED
      BY <1>1, <1>3, <3>1, <3>2
  <2>2. gone(k) \subseteq gone(j) \cup (j + 1 .. k - 1)
    BY <1>1, <1>3
  <2>3. Cardinality(gone(k)) <= Cardinality(gone(j)) + (k - 1 - j)
    <3> DEFINE A == gone(j)
               B == j + 1 .. k - 1
               C == gone(k)
    <3>1. IsFiniteSet(A) /\ IsFiniteSet(B) /\ C \subseteq A \cup B
      BY <1>2, <2>1, <2>2
    <3>2. Cardinality(B) = k - 1 - j
      BY <2>1
    <3> HIDE DEF A, B, C
    <3>3. /\ IsFiniteSet(A \cup B)
          /\ Cardinality(A \cup B) = Cardinality(A) + Cardinality(B) - Cardinality(A \cap B)
      BY <3>1, FS_Union
    <3>4. IsFiniteSet(A \cap B)
      BY <3>1, FS_Subset
    <3>5. /\ Cardinality(A) \in Nat /\ Cardinality(B) \in Nat /\ Cardinality(A \cap B) \in Nat
          /\ Cardinality(C) \in Nat /\ Cardinality(C) <= Cardinality(A \cup B)
      BY <3>1, <3>3, <3>4, FS_CardinalityType, FS_Subset
    <3>6. Cardinality(C) <= Cardinality(A) + Cardinality(B)
      BY <3>3, <3>5
    <3> QED
      BY <3>2, <3>6 DEF A, C
  <2>4. Cardinality(gone(k)) \in Int /\ Cardinality(gone(j)) \in Int
    BY <1>2
  <2> HIDE DEF gone
  <2> QED
    BY <1>1, <1>3, <2>3, <2>4
<1>4. t = [n \in DOMAIN s |-> IF moved(n) = {} THEN s[n] ELSE s[CHOOSE k \in moved(n) : TRUE]]
  BY Zenon DEF Removed
<1>5. ASSUME NEW k \in 1 .. Len(s), s[k] # c
      PROVE  place(k) \in 1 .. Len(s) /\ t[place(k)] = s[k]
  <2>1. PICK n : n = place(k)
    OBVIOUS
  <2>2. n \in 1 .. Len(s)
    BY <1>1, <1>2, <2>1
  <2>3. k \in moved(n)
    BY <1>1, <1>5, <2>1
  <2>4. ASSUME NEW j \in moved(n) PROVE j = k
    <3>1. j \in 1 .. Len(s) /\ s[j] # c /\ place(j) = n
      BY <1>1
    <3> HIDE DEF place, moved
    <3>2. PICK p \in Int, q \in Int : p = place(j) /\ q = place(k)
      <4>1. place(j) \in 1 .. j /\ place(k) \in 1 .. k
        BY <1>2, <3>1
      <4> QED
        BY <1>1, <3>1, <4>1
    <3>3. ~ (j < k)
      <4>1. j < k => place(j) < place(k)
        BY <1>3, <3>1
      <4> QED
        BY <2>1, <3>1, <3>2, <4>1
    <3>4. ~ (k < j)
      <4>1. k < j => place(k) < place(j)
        BY <1>3, <1>5, <3>1
      <4> QED
        BY <2>1, <3>1, <3>2, <4>1
    <3> QED
      BY <1>1, <3>1, <3>3, <3>4
  <2> HIDE DEF moved, place
  <2>5. (CHOOSE j \in moved(n) : TRUE) = k
    BY <2>3, <2>4
  <2> QED
    BY <1>1, <1>4, <2>1, <2>2, <2>3, <2>5
<1>6. ASSUME NEW n \in 1 .. Len(s)
      PROVE  \E k \in 1 .. Len(s) : k >= n /\ t[n] = s[k]
  <2>1. CASE moved(n) = {}
    BY <1>1, <1>4, <2>1
  <2>2. CASE moved(n) # {}
    <3>1. PICK k \in moved(n) : k = CHOOSE j \in moved(n) : TRUE
      BY <2>2
    <3>2. t[n] = s[k]
      <4> HIDE DEF moved
      <4> QED
        BY <1>1, <1>4, <2>2, <3>1
    <3>3. k \in 1 .. Len(s) /\ place(k) = n
      BY <1>1, <3>1
    <3>4. k >= n
      BY <1>1, <1>2, <3>3
    <3> QED
      BY <3>2, <3>3, <3>4
  <2> QED
    BY <2>1, <2>2
<1>7. t[1] = s[1] /\ t[2] = s[2]
  <2>1. gone(1) = {} /\ gone(2) = {}
    <3>1. ASSUME NEW j \in 1 .. 1 PROVE s[j] # c
      OBVIOUS
    <3> QED
      BY <3>1
  <2>2. place(1) = 1 /\ place(2) = 2
    BY <2>1, FS_EmptySet
  <2>3. 1 \in 1 .. Len(s) /\ 2 \in 1 .. Len(s)
    BY <1>1
  <2> QED
    BY <1>5, <2>2, <2>3
<1>8. t \in [1 .. Len(s) -> S]
  <2> HIDE DEF moved
  <2>1. DOMAIN t = 1 .. Len(s) /\ t = [n \in 1 .. Len(s) |-> t[n]]
    BY <1>1, <1>4
  <2>2. \A n \in 1 .. Len(s) : t[n] \in S
    BY <1>1, <1>6
  <2> QED
    BY <2>1, <2>2
<1>9. t \in Seq(S) /\ Len(t) = Len(s)
  BY <1>1, <1>8
<1>10. ASSUME NEW n \in 3 .. Len(s) PROVE \E k \in 3 .. Len(s) : t[n] = s[k]
  <2>1. n \in 1 .. Len(s) /\ n >= 3
    BY <1>1
  <2>2. PICK k \in 1 .. Len(s) : k >= n /\ t[n] = s[k]
    BY <1>6, <2>1
  <2>3. k \in 3 .. Len(s)
    BY <1>1, <2>1, <2>2
  <2> QED
    BY <2>2, <2>3
<1>11. ASSUME NEW k \in 1 .. Len(s), s[k] # c PROVE \E n \in 1 .. Len(s) : t[n] = s[k]
  <2>1. PICK n : n = place(k)
    OBVIOUS
  <2> QED
    BY <1>5, <1>11, <2>1
<1> HIDE DEF moved, place, gone
<1> QED
  BY <1>7, <1>9, <1>10, <1>11 DEF Shifted

------------------------------------------------------------------------------
(* What can happen to a thread                                             *)

Others(t) == \A u \in Threads \ {t} : thread'[u] = thread[u]

\* It begins its loop, ...
Begins(t) ==
  /\ thread'[t].todo = thread[t].todo
  /\ thread'[t].array = Len(arrays)
  /\ thread'[t].next = 1
  /\ thread'[t].end = Len(_subscribers)
  /\ Others(t)

\* ... goes on with the next subscriber, ...
Goes(t) ==
  /\ thread[t].next < thread[t].end
  /\ thread'[t].todo = thread[t].todo
  /\ thread'[t].array = thread[t].array
  /\ thread'[t].next = thread[t].next + 1
  /\ thread'[t].end = thread[t].end
  /\ Others(t)

\* ... ends it and turns to the next call, ...
Ends(t) ==
  /\ ~ (thread[t].next < thread[t].end)
  /\ thread'[t].todo = Tail(thread[t].todo)
  /\ thread'[t].array = 1 /\ thread'[t].next = 0 /\ thread'[t].end = 0
  /\ Others(t)

\* ... or gets something to do.
Gets(t, calls) ==
  /\ thread'[t].todo = calls
  /\ thread'[t].array = thread[t].array
  /\ thread'[t].next = thread[t].next
  /\ thread'[t].end = thread[t].end
  /\ Others(t)

LEMMA ThreadNames ==
  /\ Threads = {"network", "tracker", "query"}
  /\ CallsOf("network") = Later \cup AtOnce
  /\ CallsOf("tracker") = Turns
  /\ CallsOf("query") = Levels
BY DEF Threads, CallsOf

LEMMA StateParts ==
  ASSUME NEW t, NEW st \in States(t)
  PROVE  /\ st = [todo |-> st.todo, array |-> st.array, next |-> st.next, end |-> st.end]
         /\ st.todo \in Seq(CallsOf(t)) /\ st.array \in Nat /\ st.next \in Nat /\ st.end \in Nat
BY DEF States

\* A thread's state is replaced.
LEMMA ThreadChanged ==
  ASSUME ThreadsTyped, NEW t \in Threads, NEW st \in States(t),
         thread' = [thread EXCEPT ![t] = st]
  PROVE  ThreadsTyped' /\ thread'[t] = st /\ Others(t)
<1>1. /\ DOMAIN thread' = Threads /\ thread'[t] = st
      /\ \A u \in Threads \ {t} : thread'[u] = thread[u]
  BY DEF ThreadsTyped
<1>2. \A u \in Threads : thread'[u] \in States(u)
  BY <1>1 DEF ThreadsTyped
<1> QED
  BY <1>1, <1>2 DEF ThreadsTyped, Others

LEMMA FirstCall ==
  ASSUME NEW S, NEW s \in Seq(S), s # <<>>
  PROVE  /\ Head(s) \in S /\ Head(s) = s[1] /\ Tail(s) \in Seq(S)
         /\ 1 \in DOMAIN s /\ Len(s) \in Nat /\ Len(s) > 0 /\ DOMAIN s = 1 .. Len(s)
         /\ DOMAIN Tail(s) = 1 .. Len(s) - 1
         /\ \A k \in 1 .. Len(s) - 1 : Tail(s)[k] = s[k + 1]
OBVIOUS

LEMMA BeginChanges ==
  ASSUME ThreadsTyped, ArraysInv, NEW t \in Threads, BeginLoop(t)
  PROVE  ThreadsTyped' /\ Begins(t)
<1>1. PICK n \in Nat, m \in Nat : n = Len(arrays) /\ m = Len(_subscribers)
  <2>1. arrays \in Seq(Seq(Subscribers)) /\ arrays # <<>>
    BY DEF ArraysInv
  <2>2. Len(arrays) \in Nat /\ Len(arrays) \in 1 .. Len(arrays) /\ _subscribers = arrays[Len(arrays)]
    BY <2>1 DEF _subscribers, Last
  <2>3. _subscribers \in Seq(Subscribers)
    BY <2>1, <2>2
  <2> QED
    BY <2>2, <2>3
<1>2. PICK old \in States(t) : old = thread[t]
  BY DEF ThreadsTyped
<1>3. PICK st : st = [todo |-> old.todo, array |-> n, next |-> 1, end |-> m]
  OBVIOUS
<1>4. st \in States(t)
  BY <1>1, <1>2, <1>3 DEF States
<1>5. thread' = [thread EXCEPT ![t] = st]
  <2>1. thread' = [thread EXCEPT ![t] = [[[thread[t] EXCEPT !.array = n] EXCEPT !.next = 1] EXCEPT !.end = m]]
    BY <1>1 DEF BeginLoop, ThreadsTyped
  <2>2. [[[thread[t] EXCEPT !.array = n] EXCEPT !.next = 1] EXCEPT !.end = m] = st
    <3>1. PICK a, b :
            /\ a = [todo |-> old.todo, array |-> n, next |-> old.next, end |-> old.end]
            /\ b = [todo |-> old.todo, array |-> n, next |-> 1, end |-> old.end]
      OBVIOUS
    <3>2. [old EXCEPT !.array = n] = a
      BY <3>1, StateParts
    <3>3. [a EXCEPT !.next = 1] = b
      BY <3>1
    <3>4. [b EXCEPT !.end = m] = st
      BY <1>3, <3>1
    <3> QED
      BY <1>2, <3>2, <3>3, <3>4
  <2> QED
    BY <2>1, <2>2
<1>6. ThreadsTyped' /\ thread'[t] = st /\ Others(t)
  BY <1>4, <1>5, ThreadChanged
<1> QED
  BY <1>1, <1>2, <1>3, <1>6 DEF Begins

LEMMA AdvanceChanges ==
  ASSUME ThreadsTyped, NEW t \in Threads, Busy(t), Advance(t)
  PROVE  ThreadsTyped' /\ (Goes(t) \/ Ends(t))
<1>1. PICK old \in States(t) : old = thread[t]
  BY DEF ThreadsTyped
<1>2. PICK n \in Nat : n = old.next + 1
  BY StateParts
<1>3. PICK one : one = [todo |-> old.todo, array |-> old.array, next |-> n, end |-> old.end]
  OBVIOUS
<1>4. PICK rest \in Seq(CallsOf(t)) : rest = Tail(old.todo)
  BY <1>1, StateParts, FirstCall DEF Busy
<1>5. PICK two : two = [todo |-> rest, array |-> 1, next |-> 0, end |-> 0]
  OBVIOUS
<1>6. one \in States(t) /\ two \in States(t)
  BY <1>2, <1>3, <1>4, <1>5, StateParts DEF States
<1>7. thread' = [thread EXCEPT ![t] = IF old.next < old.end THEN one ELSE two]
  <2>1. [old EXCEPT !.next = old.next + 1] = one
    BY <1>2, <1>3, StateParts
  <2>2. [Idle EXCEPT !.todo = Tail(old.todo)] = two
    <3>1. PICK none, idle : none = <<>> /\ idle = [todo |-> none, array |-> 1, next |-> 0, end |-> 0]
      OBVIOUS
    <3>2. Idle = idle
      BY <3>1 DEF Idle
    <3>3. [idle EXCEPT !.todo = rest] = two
      BY <1>5, <3>1
    <3> QED
      BY <1>4, <3>2, <3>3
  <2>3. thread' = [thread EXCEPT ![t] =
               IF thread[t].next < thread[t].end THEN [thread[t] EXCEPT !.next = thread[t].next + 1]
               ELSE [Idle EXCEPT !.todo = Tail(thread[t].todo)]]
    BY DEF Advance, ThreadsTyped
  <2> QED
    BY <1>1, <2>1, <2>2, <2>3
<1>8. CASE old.next < old.end
  <2>1. ThreadsTyped' /\ thread'[t] = one /\ Others(t)
    BY <1>6, <1>7, <1>8, ThreadChanged
  <2> QED
    BY <1>1, <1>2, <1>3, <1>8, <2>1 DEF Goes
<1>9. CASE ~ (old.next < old.end)
  <2>1. ThreadsTyped' /\ thread'[t] = two /\ Others(t)
    BY <1>6, <1>7, <1>9, ThreadChanged
  <2> QED
    BY <1>1, <1>4, <1>5, <1>9, <2>1 DEF Ends
<1> QED
  BY <1>8, <1>9

LEMMA ToDoChanges ==
  ASSUME ThreadsTyped, NEW t \in Threads, NEW calls \in Seq(CallsOf(t)), ToDo(t, calls)
  PROVE  ThreadsTyped' /\ Gets(t, calls)
<1>1. PICK old \in States(t) : old = thread[t]
  BY DEF ThreadsTyped
<1>2. PICK st : st = [todo |-> calls, array |-> old.array, next |-> old.next, end |-> old.end]
  OBVIOUS
<1>3. st \in States(t)
  BY <1>2, StateParts DEF States
<1>4. thread' = [thread EXCEPT ![t] = st]
  <2>1. thread' = [thread EXCEPT ![t] = [thread[t] EXCEPT !.todo = calls]]
    BY DEF ToDo, ThreadsTyped
  <2>2. [old EXCEPT !.todo = calls] = st
    BY <1>2, StateParts
  <2> QED
    BY <1>1, <2>1, <2>2
<1>5. ThreadsTyped' /\ thread'[t] = st /\ Others(t)
  BY <1>3, <1>4, ThreadChanged
<1> QED
  BY <1>1, <1>2, <1>5 DEF Gets

------------------------------------------------------------------------------
(* Subscribers and loops                                                   *)

LEMMA ArraysParts ==
  ASSUME ArraysInv
  PROVE  /\ Len(arrays) \in Nat \ {0} /\ _subscribers = arrays[Len(arrays)]
         /\ \A n \in 1 .. Len(arrays) :
              /\ arrays[n] \in Seq(Subscribers) /\ Len(arrays[n]) \in Nat
              /\ Len(arrays[n]) >= 2
         /\ _subscribers \in Seq(Subscribers)
         /\ Len(_subscribers) \in Nat /\ Len(_subscribers) >= 2
<1>1. arrays \in Seq(Seq(Subscribers)) /\ arrays # <<>>
  BY DEF ArraysInv
<1>2. Len(arrays) \in Nat \ {0} /\ _subscribers = arrays[Len(arrays)]
  BY <1>1 DEF _subscribers, Last
<1>3. \A n \in 1 .. Len(arrays) : arrays[n] \in Seq(Subscribers) /\ Len(arrays[n]) >= 2
  BY <1>1 DEF ArraysInv
<1>4. \A n \in 1 .. Len(arrays) : Len(arrays[n]) \in Nat
  BY <1>3
<1>5. Len(arrays) \in 1 .. Len(arrays)
  BY <1>2
<1> QED
  BY <1>2, <1>3, <1>4, <1>5

LEMMA LoopParts ==
  ASSUME ThreadsTyped, NEW t \in Threads
  PROVE  /\ thread[t] \in States(t) /\ thread[t].todo \in Seq(CallsOf(t))
         /\ thread[t].array \in Nat /\ thread[t].next \in Nat /\ thread[t].end \in Nat
BY StateParts DEF ThreadsTyped

\* The scene is told first, the renderer next, and then the connections.
LEMMA Order ==
  ASSUME ThreadsTyped, ArraysInv, LoopsInv, NEW t \in Threads, InLoop(t)
  PROVE  /\ thread[t].next \in Nat \ {0} /\ thread[t].end \in Nat
         /\ thread[t].next <= thread[t].end
         /\ thread[t].array \in 1 .. Len(arrays)
         /\ thread[t].end <= Len(arrays[thread[t].array])
         /\ Current(t) = "scene" <=> thread[t].next = 1
         /\ Current(t) = "renderer" <=> thread[t].next = 2
         /\ Current(t) \in Clients <=> thread[t].next >= 3
         /\ Current(t) \in Clients => link[Current(t)] # "none"
<1>1. PICK a \in 1 .. Len(arrays), n \in Nat, e \in Nat :
        a = thread[t].array /\ n = thread[t].next /\ e = thread[t].end
  BY LoopParts DEF LoopsInv
<1>2. n > 0 /\ n <= e /\ e <= Len(arrays[a])
  BY <1>1 DEF LoopsInv, InLoop
<1>3. /\ Len(arrays[a]) \in Nat /\ arrays[a][1] = "scene" /\ arrays[a][2] = "renderer"
      /\ \A i \in 3 .. Len(arrays[a]) : arrays[a][i] \in Clients /\ link[arrays[a][i]] # "none"
  BY <1>1, ArraysParts DEF ArraysInv
<1>4. Current(t) = arrays[a][n]
  BY <1>1 DEF Current
<1>5. n = 1 \/ n = 2 \/ n \in 3 .. Len(arrays[a])
  BY <1>2, <1>3
<1>6. "scene" \notin Clients /\ "renderer" \notin Clients
  BY ClientsAssumption
<1> QED
  BY <1>1, <1>2, <1>3, <1>4, <1>5, <1>6

SubscriptionInv == ArraysInv /\ LoopsInv /\ JoinInv

\* If a thread is not in its loop it is idle but for what it has to do.
LEMMA Outside ==
  ASSUME LoopsInv, ThreadsTyped, NEW t \in Threads
  PROVE  /\ ~ InLoop(t) => thread[t].next = 0
         /\ ~ Busy(t) => ~ InLoop(t)
         /\ ~ Publishing(t) => ~ InLoop(t)
BY LoopParts DEF LoopsInv, InLoop, Publishing

LEMMA SubscriptionBegins ==
  ASSUME ThreadsTyped, SubscriptionInv, NEW t \in Threads, BeginLoop(t)
  PROVE  SubscriptionInv'
<1>1. ThreadsTyped' /\ Begins(t)
  BY BeginChanges DEF SubscriptionInv
<1>2. UNCHANGED <<arrays, link>> /\ _subscribers' = _subscribers /\ Publishing(t) /\ ~ InLoop(t)
  BY DEF BeginLoop, _subscribers, replicas
<1>3. /\ overlapped \subseteq overlapped'
      /\ t # "network" => \A c \in Clients : Joining(c) => c \in overlapped'
  BY DEF BeginLoop, Joining
<1>4. ArraysInv'
  BY <1>2 DEF SubscriptionInv, ArraysInv, Live
<1>5. /\ Len(arrays) \in 1 .. Len(arrays) /\ _subscribers = arrays[Len(arrays)]
      /\ Len(_subscribers) \in 2 .. Len(_subscribers)
  BY ArraysParts DEF SubscriptionInv
<1>6. Publishing(t)' /\ Busy(t)' = Busy(t)
  BY <1>1, <1>2 DEF Begins, Publishing, Busy, CurrentCall
<1>7. ASSUME NEW u \in Threads, u # t
      PROVE  /\ thread'[u] = thread[u] /\ Publishing(u)' = Publishing(u)
             /\ InLoop(u)' = InLoop(u) /\ Busy(u)' = Busy(u)
  BY <1>1, <1>7 DEF Begins, Others, Publishing, Busy, CurrentCall, InLoop
<1>8. LoopsInv'
  <2>1. ASSUME NEW u \in Threads
        PROVE  (IF InLoop(u)
                THEN /\ Publishing(u)
                     /\ thread[u].array \in 1 .. Len(arrays)
                     /\ thread[u].next <= thread[u].end
                     /\ thread[u].end \in 2 .. Len(arrays[thread[u].array])
                ELSE thread[u].array = 1 /\ thread[u].end = 0)'
    <3>1. CASE u = t
      <4>1. InLoop(t)'
        BY <1>1 DEF Begins, InLoop
      <4>2. 1 <= Len(_subscribers)
        BY <1>5
      <4> QED
        BY <1>1, <1>2, <1>5, <1>6, <3>1, <4>1, <4>2 DEF Begins
    <3>2. CASE u # t
      BY <1>2, <1>7, <3>2 DEF SubscriptionInv, LoopsInv
    <3> QED
      BY <3>1, <3>2
  <2>2. InLoop("network")' =>
          /\ thread'["network"].array = Len(arrays')
          /\ thread'["network"].end = Len(_subscribers')
    <3>1. "network" \in Threads
      BY DEF Threads
    <3>2. CASE t = "network"
      BY <1>1, <1>2, <3>2 DEF Begins
    <3>3. CASE t # "network"
      BY <1>2, <1>7, <3>1, <3>3 DEF SubscriptionInv, LoopsInv
    <3> QED
      BY <3>2, <3>3
  <2>3. ASSUME NEW u \in Threads, NEW c \in Clients, InLoop(u)', Live(c)', c \notin overlapped'
        PROVE  IsIn(c, arrays'[thread'[u].array], thread'[u].end)
    <3>1. Live(c) /\ c \notin overlapped
      BY <1>2, <1>3, <2>3 DEF Live
    <3>2. CASE u = t
      <4>1. IsIn(c, _subscribers, Len(_subscribers))
        BY <3>1 DEF SubscriptionInv, ArraysInv
      <4> QED
        BY <1>1, <1>2, <1>5, <3>2, <4>1 DEF Begins
    <3>3. CASE u # t
      BY <1>2, <1>7, <2>3, <3>1, <3>3 DEF SubscriptionInv, LoopsInv
    <3> QED
      BY <3>2, <3>3
  <2>4. \A u \in Threads, c \in Clients : (InLoop(u) /\ Live(c) /\ c \notin overlapped
         => IsIn(c, arrays[thread[u].array], thread[u].end))'
    BY <2>3
  <2> QED
    BY <2>1, <2>2, <2>4 DEF LoopsInv
<1>9. JoinInv'
  <2>1. \A c, d \in Clients : Joining(c)' /\ Joining(d)' => c = d
    BY <1>2 DEF SubscriptionInv, JoinInv, Joining
  <2>2. ASSUME NEW c \in Clients, Joining(c)'
        PROVE  ~ Busy("network")' /\ \A u \in Threads : InLoop(u)' => c \in overlapped'
    <3>1. Joining(c)
      BY <1>2, <2>2 DEF Joining
    <3>2. ~ Busy("network") /\ \A u \in Threads : InLoop(u) => c \in overlapped
      BY <3>1 DEF SubscriptionInv, JoinInv
    <3>3. t # "network"
      BY <1>2, <3>2 DEF Publishing
    <3>4. c \in overlapped'
      BY <1>3, <3>1, <3>3
    <3>5. ~ Busy("network")'
      BY <1>7, <3>2, <3>3 DEF Threads
    <3> QED
      BY <3>4, <3>5
  <2> QED
    BY <2>1, <2>2 DEF JoinInv
<1> QED
  BY <1>4, <1>8, <1>9 DEF SubscriptionInv

\* What one thread does to its own loop, when nobody joins or leaves.
LEMMA SubscriptionMoves ==
  ASSUME ThreadsTyped, ThreadsTyped', SubscriptionInv, NEW t \in Threads, Others(t),
         UNCHANGED <<arrays, link, overlapped>>,
         Busy(t)' => Busy(t) \/ \A c \in Clients : ~ Joining(c),
         IF InLoop(t)'
         THEN /\ InLoop(t) /\ thread'[t].array = thread[t].array
              /\ thread'[t].end = thread[t].end
              /\ thread'[t].next <= thread'[t].end /\ Publishing(t)'
         ELSE thread'[t].array = 1 /\ thread'[t].end = 0
  PROVE  SubscriptionInv'
<1>1. _subscribers' = _subscribers
  BY DEF _subscribers
<1>2. ArraysInv'
  BY <1>1 DEF SubscriptionInv, ArraysInv, Live
<1>3. ASSUME NEW u \in Threads, u # t
      PROVE  /\ thread'[u] = thread[u] /\ Publishing(u)' = Publishing(u)
             /\ InLoop(u)' = InLoop(u) /\ Busy(u)' = Busy(u)
  BY <1>3 DEF Others, Publishing, Busy, CurrentCall, InLoop
<1>4. LoopsInv'
  <2>1. ASSUME NEW u \in Threads
        PROVE  (IF InLoop(u)
                THEN /\ Publishing(u)
                     /\ thread[u].array \in 1 .. Len(arrays)
                     /\ thread[u].next <= thread[u].end
                     /\ thread[u].end \in 2 .. Len(arrays[thread[u].array])
                ELSE thread[u].array = 1 /\ thread[u].end = 0)'
    <3>1. CASE u = t
      BY <3>1 DEF SubscriptionInv, LoopsInv
    <3>2. CASE u # t
      BY <1>3, <3>2 DEF SubscriptionInv, LoopsInv
    <3> QED
      BY <3>1, <3>2
  <2>2. InLoop("network")' =>
          /\ thread'["network"].array = Len(arrays')
          /\ thread'["network"].end = Len(_subscribers')
    <3>1. "network" \in Threads
      BY DEF Threads
    <3>2. CASE t = "network"
      BY <1>1, <3>2 DEF SubscriptionInv, LoopsInv
    <3>3. CASE t # "network"
      BY <1>1, <1>3, <3>1, <3>3 DEF SubscriptionInv, LoopsInv
    <3> QED
      BY <3>2, <3>3
  <2>3. ASSUME NEW u \in Threads, NEW c \in Clients, InLoop(u)', Live(c)', c \notin overlapped'
        PROVE  IsIn(c, arrays'[thread'[u].array], thread'[u].end)
    <3>1. Live(c) /\ c \notin overlapped
      BY <2>3 DEF Live
    <3>2. InLoop(u) /\ thread'[u].array = thread[u].array /\ thread'[u].end = thread[u].end
      BY <1>3, <2>3
    <3>3. IsIn(c, arrays[thread[u].array], thread[u].end)
      BY <3>1, <3>2 DEF SubscriptionInv, LoopsInv
    <3> QED
      BY <3>2, <3>3
  <2>4. \A u \in Threads, c \in Clients : (InLoop(u) /\ Live(c) /\ c \notin overlapped
         => IsIn(c, arrays[thread[u].array], thread[u].end))'
    BY <2>3
  <2> QED
    BY <2>1, <2>2, <2>4 DEF LoopsInv
<1>5. JoinInv'
  <2>1. \A c, d \in Clients : Joining(c)' /\ Joining(d)' => c = d
    BY DEF SubscriptionInv, JoinInv, Joining
  <2>2. ASSUME NEW c \in Clients, Joining(c)'
        PROVE  ~ Busy("network")' /\ \A u \in Threads : InLoop(u)' => c \in overlapped'
    <3>1. Joining(c)
      BY <2>2 DEF Joining
    <3>2. ~ Busy("network") /\ \A u \in Threads : InLoop(u) => c \in overlapped
      BY <3>1 DEF SubscriptionInv, JoinInv
    <3>3. ~ Busy("network")'
      BY <1>3, <3>1, <3>2 DEF Threads
    <3>4. \A u \in Threads : InLoop(u)' => InLoop(u)
      BY <1>3
    <3> QED
      BY <3>2, <3>3, <3>4
  <2> QED
    BY <2>1, <2>2 DEF JoinInv
<1> QED
  BY <1>2, <1>4, <1>5 DEF SubscriptionInv

LEMMA SubscriptionAdvances ==
  ASSUME ThreadsTyped, SubscriptionInv, NEW t \in Threads, Publishing(t), InLoop(t), Advance(t),
         UNCHANGED <<arrays, link, overlapped>>
  PROVE  SubscriptionInv'
<1>1. ThreadsTyped' /\ (Goes(t) \/ Ends(t)) /\ Busy(t)
  BY AdvanceChanges DEF Publishing
<1>2. /\ thread[t].next \in Nat \ {0} /\ thread[t].end \in Nat
      /\ thread[t].next <= thread[t].end
  BY Order DEF SubscriptionInv
<1>3. CASE Goes(t)
  <2>1. InLoop(t)' /\ Publishing(t)' /\ thread'[t].next <= thread'[t].end
    BY <1>2, <1>3 DEF Goes, InLoop, Publishing, Busy, CurrentCall
  <2>2. thread'[t].array = thread[t].array /\ thread'[t].end = thread[t].end /\ Others(t)
    BY <1>3 DEF Goes
  <2> QED
    BY <1>1, <2>1, <2>2, SubscriptionMoves
<1>4. CASE Ends(t)
  <2>1. ~ InLoop(t)' /\ thread'[t].array = 1 /\ thread'[t].end = 0 /\ Others(t)
    BY <1>4 DEF Ends, InLoop
  <2> QED
    BY <1>1, <2>1, SubscriptionMoves
<1> QED
  BY <1>1, <1>3, <1>4

LEMMA SubscriptionGets ==
  ASSUME ThreadsTyped, SubscriptionInv, NEW t \in Threads, ~ InLoop(t),
         NEW calls \in Seq(CallsOf(t)), ToDo(t, calls),
         t # "network" \/ Busy(t) \/ NetworkIsFree,
         UNCHANGED <<arrays, link, overlapped>>
  PROVE  SubscriptionInv'
<1>1. ThreadsTyped' /\ Gets(t, calls)
  BY ToDoChanges
<1>2. ~ InLoop(t)' /\ thread'[t].array = 1 /\ thread'[t].end = 0 /\ Others(t)
  BY <1>1 DEF Gets, InLoop, SubscriptionInv, LoopsInv
<1>3. CASE t = "network"
  <2>1. Busy(t)' => Busy(t) \/ \A c \in Clients : ~ Joining(c)
    BY <1>3 DEF NetworkIsFree, Joining
  <2> QED
    BY <1>1, <1>2, <2>1, SubscriptionMoves
<1>4. CASE t # "network"
  <2>1. ArraysInv'
    BY DEF SubscriptionInv, ArraysInv, Live, _subscribers
  <2>2. ASSUME NEW u \in Threads, InLoop(u)'
        PROVE  u # t /\ InLoop(u) /\ thread'[u] = thread[u] /\ Publishing(u)' = Publishing(u)
    BY <1>2, <2>2 DEF Others, InLoop, Publishing, Busy, CurrentCall
  <2>3. ASSUME NEW u \in Threads, ~ InLoop(u)'
        PROVE  thread'[u].array = 1 /\ thread'[u].end = 0
    <3>1. CASE u = t
      BY <1>2, <3>1
    <3>2. CASE u # t
      BY <1>2, <2>3, <3>2 DEF Others, InLoop, SubscriptionInv, LoopsInv
    <3> QED
      BY <3>1, <3>2
  <2>4. "network" \in Threads
    BY DEF Threads
  <2>5. LoopsInv'
    <3>1. \A u \in Threads :
            (IF InLoop(u)
             THEN /\ Publishing(u)
                  /\ thread[u].array \in 1 .. Len(arrays)
                  /\ thread[u].next <= thread[u].end
                  /\ thread[u].end \in 2 .. Len(arrays[thread[u].array])
             ELSE thread[u].array = 1 /\ thread[u].end = 0)'
      BY <2>2, <2>3 DEF SubscriptionInv, LoopsInv
    <3>2. InLoop("network")' =>
            /\ thread'["network"].array = Len(arrays')
            /\ thread'["network"].end = Len(_subscribers')
      BY <2>2, <2>4 DEF SubscriptionInv, LoopsInv, _subscribers
    <3>3. \A u \in Threads, c \in Clients : (InLoop(u) /\ Live(c) /\ c \notin overlapped
           => IsIn(c, arrays[thread[u].array], thread[u].end))'
      BY <2>2 DEF SubscriptionInv, LoopsInv, Live
    <3> QED
      BY <3>1, <3>2, <3>3 DEF LoopsInv
  <2>6. JoinInv'
    <3>1. Busy("network")' = Busy("network")
      BY <1>2, <1>4, <2>4 DEF Others, Busy
    <3> QED
      BY <2>2, <3>1 DEF SubscriptionInv, JoinInv, Joining
  <2> QED
    BY <2>1, <2>5, <2>6 DEF SubscriptionInv
<1> QED
  BY <1>3, <1>4

\* Nobody is subscribed or unsubscribed, and no thread moves.
LEMMA SubscriptionStays ==
  ASSUME SubscriptionInv, UNCHANGED <<arrays, thread>>, overlapped \subseteq overlapped',
         \A c \in Clients : /\ Live(c)' => Live(c)
                            /\ Joining(c)' => Joining(c)
                            /\ link[c] # "none" => link'[c] # "none"
  PROVE  SubscriptionInv'
<1>1. /\ _subscribers' = _subscribers
      /\ \A t \in Threads : InLoop(t)' = InLoop(t) /\ Publishing(t)' = Publishing(t)
                            /\ Busy(t)' = Busy(t)
  BY DEF _subscribers, InLoop, Publishing, Busy, CurrentCall
<1>2. ArraysInv'
  BY <1>1 DEF SubscriptionInv, ArraysInv
<1>3. LoopsInv'
  <2>1. "network" \in Threads
    BY DEF Threads
  <2>2. \A t \in Threads :
          (IF InLoop(t)
           THEN /\ Publishing(t)
                /\ thread[t].array \in 1 .. Len(arrays)
                /\ thread[t].next <= thread[t].end
                /\ thread[t].end \in 2 .. Len(arrays[thread[t].array])
           ELSE thread[t].array = 1 /\ thread[t].end = 0)'
    BY <1>1 DEF SubscriptionInv, LoopsInv
  <2>3. \A t \in Threads, c \in Clients : (InLoop(t) /\ Live(c) /\ c \notin overlapped
         => IsIn(c, arrays[thread[t].array], thread[t].end))'
    BY <1>1 DEF SubscriptionInv, LoopsInv
  <2> QED
    BY <1>1, <2>1, <2>2, <2>3 DEF SubscriptionInv, LoopsInv
<1>4. JoinInv'
  <2>1. Busy("network")' = Busy("network")
    BY <1>1 DEF Threads
  <2>2. \A c, d \in Clients : Joining(c)' /\ Joining(d)' => c = d
    BY DEF SubscriptionInv, JoinInv
  <2>3. ASSUME NEW c \in Clients, Joining(c)'
        PROVE  ~ Busy("network")' /\ \A t \in Threads : InLoop(t)' => c \in overlapped'
    BY <1>1, <2>1, <2>3 DEF SubscriptionInv, JoinInv
  <2> QED
    BY <2>2, <2>3 DEF JoinInv
<1> QED
  BY <1>2, <1>3, <1>4 DEF SubscriptionInv

LEMMA SubscriptionReads ==
  ASSUME SubscriptionInv, NEW c \in Clients, link \in [Clients -> Links],
         get_scene_as_XML(c) \/ WriteScene(c)
  PROVE  SubscriptionInv'
<1>1. UNCHANGED <<arrays, thread>> /\ overlapped \subseteq overlapped'
  BY DEF get_scene_as_XML, WriteScene
<1>2. PICK state \in {"reading", "up"} :
        link' = [link EXCEPT ![c] = state] /\ Joining(c)
  BY DEF get_scene_as_XML, WriteScene, Joining
<1>3. ASSUME NEW d \in Clients
      PROVE  /\ Live(d)' => Live(d)
             /\ Joining(d)' => Joining(d)
             /\ link[d] # "none" => link'[d] # "none"
  <2>1. CASE d = c
    BY <1>2, <2>1 DEF Live, Joining
  <2>2. CASE d # c
    BY <1>2, <2>2 DEF Live, Joining
  <2> QED
    BY <2>1, <2>2
<1> QED
  BY <1>1, <1>3, SubscriptionStays

\* The network thread has nothing to do when it subscribes or unsubscribes.
LEMMA WhenFree ==
  ASSUME ThreadsTyped, SubscriptionInv, NetworkIsFree
  PROVE  /\ ~ Busy("network") /\ ~ InLoop("network")
         /\ \A c \in Clients : ~ Joining(c)
         /\ \A t \in Threads : InLoop(t) => OthersInLoop
<1>1. ~ Busy("network") /\ \A c \in Clients : ~ Joining(c)
  BY DEF NetworkIsFree, Joining
<1>2. ~ InLoop("network")
  BY <1>1, Outside DEF SubscriptionInv, Threads
<1> QED
  BY <1>1, <1>2 DEF OthersInLoop

LEMMA SubscriptionConnects ==
  ASSUME ThreadsTyped, SubscriptionInv, NEW c \in Clients, link \in [Clients -> Links],
         Connect(c)
  PROVE  SubscriptionInv'
<1>1. /\ ~ Busy("network") /\ ~ InLoop("network")
      /\ \A d \in Clients : ~ Joining(d)
      /\ \A t \in Threads : InLoop(t) => OthersInLoop
  BY WhenFree DEF Connect
<1>2. /\ link' = [link EXCEPT ![c] = "subscribed"] /\ link[c] = "none"
      /\ overlapped' = IF OthersInLoop THEN overlapped \cup {c} ELSE overlapped
      /\ thread' = thread
  BY DEF Connect, subscribe
<1>3. /\ link'[c] = "subscribed"
      /\ \A d \in Clients \ {c} : link'[d] = link[d]
  BY <1>2
<1>4. PICK n \in Nat \ {0}, s \in Seq(Subscribers), T \in Seq(Subscribers) :
        /\ n = Len(arrays) /\ s = arrays[n] /\ s = _subscribers /\ T = Append(s, c)
        /\ Len(s) >= 2 /\ n \in 1 .. n
  <2>1. c \in Subscribers
    BY DEF Subscribers
  <2>2. Append(_subscribers, c) \in Seq(Subscribers)
    BY <2>1, ArraysParts DEF SubscriptionInv
  <2>3. Len(arrays) \in 1 .. Len(arrays)
    BY ArraysParts DEF SubscriptionInv
  <2> QED
    BY <2>2, <2>3, ArraysParts DEF SubscriptionInv
<1>5. /\ arrays \in Seq(Seq(Subscribers))
      /\ \A k \in 1 .. n :
           /\ Len(arrays[k]) \in Nat /\ Len(arrays[k]) >= 2
           /\ arrays[k][1] = "scene" /\ arrays[k][2] = "renderer"
           /\ \A i \in 3 .. Len(arrays[k]) :
                arrays[k][i] \in Clients /\ link[arrays[k][i]] # "none"
  BY <1>4, ArraysParts DEF SubscriptionInv, ArraysInv
<1>6. Len(T) = Len(s) + 1 /\ T[Len(s) + 1] = c /\ \A i \in 1 .. Len(s) : T[i] = s[i]
  BY <1>4
<1>7. PICK l \in {n, n + 1} :
        /\ arrays' \in Seq(Seq(Subscribers)) /\ Len(arrays') = l /\ arrays'[l] = T
        /\ \A k \in 1 .. n : arrays'[k] = arrays[k] \/ (k = n /\ arrays'[k] = T)
        /\ \A k \in 1 .. l : k \in 1 .. n \/ arrays'[k] = T
  <2>1. CASE arrays' = Append(arrays, T)
    <3>1. /\ arrays' \in Seq(Seq(Subscribers)) /\ Len(arrays') = n + 1 /\ arrays'[n + 1] = T
          /\ \A k \in 1 .. n : arrays'[k] = arrays[k]
      BY <1>4, <1>5, <2>1
    <3>2. \A k \in 1 .. n + 1 : k \in 1 .. n \/ k = n + 1
      BY <1>4
    <3> QED
      BY <3>1, <3>2
  <2>2. CASE arrays' = [arrays EXCEPT ![n] = T]
    BY <1>4, <1>5, <2>2
  <2> QED
    BY <1>4, <2>1, <2>2 DEF Connect, subscribe
<1>8. _subscribers' = T
  BY <1>4, <1>7 DEF _subscribers, Last
<1>9. \A i \in 3 .. Len(T) : T[i] \in Clients /\ link'[T[i]] # "none"
  <2>1. ASSUME NEW i \in 3 .. Len(T) PROVE T[i] \in Clients /\ link'[T[i]] # "none"
    <3>1. CASE i = Len(s) + 1
      BY <1>3, <1>6, <3>1
    <3>2. CASE i # Len(s) + 1
      <4>1. i \in 3 .. Len(s) /\ i \in 1 .. Len(s)
        BY <1>4, <1>6, <3>2
      <4>2. s[i] \in Clients /\ link[s[i]] # "none"
        BY <1>4, <1>5, <4>1
      <4>3. T[i] = s[i]
        BY <1>6, <4>1
      <4> QED
        BY <1>3, <4>2, <4>3
    <3> QED
      BY <3>1, <3>2
  <2> QED
    BY <2>1
<1>10. ASSUME NEW d, NEW k \in 1 .. n, NEW e \in Nat, e <= Len(arrays[k]), IsIn(d, arrays[k], e)
       PROVE  IsIn(d, arrays'[k], e)
  <2>1. PICK i \in 1 .. e : arrays[k][i] = d
    BY <1>10 DEF IsIn
  <2>2. i \in 1 .. Len(arrays[k])
    BY <1>4, <1>5, <1>10
  <2>3. arrays'[k][i] = d
    BY <1>4, <1>6, <1>7, <2>1, <2>2
  <2> QED
    BY <2>3 DEF IsIn
<1>11. ArraysInv'
  <2>1. ASSUME NEW k \in 1 .. l
        PROVE  /\ Len(arrays'[k]) >= 2
               /\ arrays'[k][1] = "scene" /\ arrays'[k][2] = "renderer"
               /\ \A i \in 3 .. Len(arrays'[k]) :
                    arrays'[k][i] \in Clients /\ link'[arrays'[k][i]] # "none"
    <3>1. CASE arrays'[k] = T
      <4>1. 1 \in 1 .. Len(s) /\ 2 \in 1 .. Len(s) /\ Len(s) + 1 >= 2
        BY <1>4
      <4>2. T[1] = "scene" /\ T[2] = "renderer"
        BY <1>4, <1>5, <1>6, <4>1
      <4> QED
        BY <1>6, <1>9, <3>1, <4>1, <4>2
    <3>2. CASE k \in 1 .. n /\ arrays'[k] = arrays[k]
      BY <1>3, <1>5, <3>2
    <3> QED
      BY <1>7, <3>1, <3>2
  <2>2. ASSUME NEW d \in Clients, Live(d)'
        PROVE  IsIn(d, T, Len(T))
    <3>1. CASE d = c
      BY <1>4, <1>6, <3>1 DEF IsIn
    <3>2. CASE d # c
      <4>1. Live(d)
        BY <1>3, <2>2, <3>2 DEF Live
      <4>2. PICK i \in 1 .. Len(s) : s[i] = d
        BY <1>4, <4>1 DEF SubscriptionInv, ArraysInv, IsIn
      <4>3. i \in 1 .. Len(T) /\ T[i] = d
        BY <1>4, <1>6, <4>2
      <4> QED
        BY <4>3 DEF IsIn
    <3> QED
      BY <3>1, <3>2
  <2>3. arrays' # <<>>
    BY <1>4, <1>7
  <2> QED
    BY <1>7, <1>8, <2>1, <2>2, <2>3 DEF ArraysInv
<1>12. ASSUME NEW t \in Threads
       PROVE  /\ InLoop(t)' = InLoop(t) /\ Publishing(t)' = Publishing(t) /\ Busy(t)' = Busy(t)
              /\ thread'[t] = thread[t]
  BY <1>2 DEF InLoop, Publishing, Busy, CurrentCall
<1>13. LoopsInv'
  <2>1. "network" \in Threads
    BY DEF Threads
  <2>2. ASSUME NEW t \in Threads
        PROVE  (IF InLoop(t)
                THEN /\ Publishing(t)
                     /\ thread[t].array \in 1 .. Len(arrays)
                     /\ thread[t].next <= thread[t].end
                     /\ thread[t].end \in 2 .. Len(arrays[thread[t].array])
                ELSE thread[t].array = 1 /\ thread[t].end = 0)'
    <3>1. CASE ~ InLoop(t)
      BY <1>12, <3>1 DEF SubscriptionInv, LoopsInv
    <3>2. CASE InLoop(t)
      <4>1. PICK a \in 1 .. n, e \in Nat :
            a = thread[t].array /\ e = thread[t].end /\ e \in 2 .. Len(arrays[a])
        BY <1>4, <3>2, LoopParts DEF SubscriptionInv, LoopsInv
      <4>2. a \in 1 .. l
        BY <1>4, <4>1
      <4>3. e \in 2 .. Len(arrays'[a])
        <5>1. Len(arrays[a]) \in Nat /\ Len(s) \in Nat /\ Len(T) = Len(s) + 1
          BY <1>4, <1>5, <1>6
        <5>2. arrays'[a] = arrays[a] \/ (arrays[a] = s /\ arrays'[a] = T)
          BY <1>4, <1>7
        <5>3. e >= 2 /\ e <= Len(arrays[a])
          BY <4>1, <5>1
        <5> QED
          BY <5>1, <5>2, <5>3
      <4>4. Publishing(t) /\ thread[t].next <= thread[t].end
        BY <3>2 DEF SubscriptionInv, LoopsInv
      <4> QED
        BY <1>7, <1>12, <3>2, <4>1, <4>2, <4>3, <4>4
    <3> QED
      BY <3>1, <3>2
  <2>3. ASSUME NEW t \in Threads, NEW d \in Clients, InLoop(t)', Live(d)', d \notin overlapped'
        PROVE  IsIn(d, arrays'[thread'[t].array], thread'[t].end)
    <3>1. InLoop(t) /\ OthersInLoop
      BY <1>1, <1>12, <2>3
    <3>2. d # c /\ d \notin overlapped
      BY <1>2, <2>3, <3>1
    <3>3. Live(d)
      BY <1>3, <2>3, <3>2 DEF Live
    <3>4. PICK a \in 1 .. n, e \in Nat :
            a = thread[t].array /\ e = thread[t].end /\ e \in 2 .. Len(arrays[a])
      BY <1>4, <3>1, LoopParts DEF SubscriptionInv, LoopsInv
    <3>5. IsIn(d, arrays[a], e)
      BY <3>1, <3>2, <3>3, <3>4 DEF SubscriptionInv, LoopsInv
    <3>6. e \in Nat /\ e <= Len(arrays[a])
      BY <1>5, <3>4
    <3> QED
      BY <1>10, <1>12, <3>4, <3>5, <3>6
  <2>4. \A t \in Threads, d \in Clients : (InLoop(t) /\ Live(d) /\ d \notin overlapped
         => IsIn(d, arrays[thread[t].array], thread[t].end))'
    BY <2>3
  <2>5. ~ InLoop("network")'
    BY <1>1, <1>12, <2>1
  <2> QED
    BY <2>2, <2>4, <2>5 DEF LoopsInv
<1>14. JoinInv'
  <2>1. "network" \in Threads
    BY DEF Threads
  <2>2. \A d \in Clients : Joining(d)' => d = c
    BY <1>1, <1>3 DEF Joining
  <2>3. ~ Busy("network")' /\ \A t \in Threads : InLoop(t)' => c \in overlapped'
    BY <1>1, <1>2, <1>12, <2>1
  <2> QED
    BY <2>2, <2>3 DEF JoinInv
<1> QED
  BY <1>11, <1>13, <1>14 DEF SubscriptionInv

LEMMA SubscriptionDisconnects ==
  ASSUME ThreadsTyped, SubscriptionInv, NEW c \in Clients, link \in [Clients -> Links],
         Disconnect(c)
  PROVE  SubscriptionInv'
<1>1. /\ ~ Busy("network") /\ ~ InLoop("network")
      /\ \A d \in Clients : ~ Joining(d)
      /\ \A t \in Threads : InLoop(t) => OthersInLoop
  BY WhenFree DEF Disconnect
<1>2. /\ link' = [link EXCEPT ![c] = "gone"] /\ link[c] = "up"
      /\ overlapped' = IF OthersInLoop THEN Clients ELSE overlapped
      /\ thread' = thread
  BY DEF Disconnect
<1>3. /\ link'[c] = "gone"
      /\ \A d \in Clients \ {c} : link'[d] = link[d]
  BY <1>2
<1>4. PICK n \in Nat \ {0}, s \in Seq(Subscribers) :
        n = Len(arrays) /\ s = arrays[n] /\ s = _subscribers /\ Len(s) >= 2 /\ n \in 1 .. n
  BY ArraysParts DEF SubscriptionInv
<1>5. /\ arrays \in Seq(Seq(Subscribers))
      /\ \A k \in 1 .. n :
           /\ Len(arrays[k]) \in Nat /\ Len(arrays[k]) >= 2
           /\ arrays[k][1] = "scene" /\ arrays[k][2] = "renderer"
           /\ \A i \in 3 .. Len(arrays[k]) :
                arrays[k][i] \in Clients /\ link[arrays[k][i]] # "none"
  BY <1>4, ArraysParts DEF SubscriptionInv, ArraysInv
<1>6. PICK T \in Seq(Subscribers) : T = Removed(s, c) /\ Shifted(T, s, c)
  <2>1. s[1] # c /\ s[2] # c
    BY <1>4, <1>5, ClientsAssumption
  <2> QED
    BY <1>4, <2>1, RemovedIsShifted
<1>7. /\ arrays' \in Seq(Seq(Subscribers)) /\ Len(arrays') = n /\ arrays'[n] = T
      /\ \A k \in 1 .. n : arrays'[k] = arrays[k] \/ (k = n /\ arrays'[k] = T)
  <2>1. arrays' = [arrays EXCEPT ![n] = T]
    BY <1>4, <1>6 DEF Disconnect
  <2> QED
    BY <1>4, <1>5, <2>1
<1>8. _subscribers' = T
  BY <1>4, <1>7 DEF _subscribers, Last
<1>9. \A k \in 1 .. n : Len(arrays'[k]) = Len(arrays[k])
  BY <1>4, <1>6, <1>7 DEF Shifted
<1>10. ArraysInv'
  <2>1. ASSUME NEW k \in 1 .. n
        PROVE  /\ Len(arrays'[k]) >= 2
               /\ arrays'[k][1] = "scene" /\ arrays'[k][2] = "renderer"
               /\ \A i \in 3 .. Len(arrays'[k]) :
                    arrays'[k][i] \in Clients /\ link'[arrays'[k][i]] # "none"
    <3>1. CASE k = n /\ arrays'[k] = T
      <4>1. T[1] = "scene" /\ T[2] = "renderer" /\ Len(T) = Len(s)
        BY <1>4, <1>5, <1>6 DEF Shifted
      <4>2. ASSUME NEW i \in 3 .. Len(T) PROVE T[i] \in Clients /\ link'[T[i]] # "none"
        <5>1. PICK j \in 3 .. Len(s) : T[i] = s[j]
          BY <1>6, <4>1 DEF Shifted
        <5>2. s[j] \in Clients /\ link[s[j]] # "none"
          BY <1>4, <1>5, <5>1
        <5> QED
          BY <1>3, <5>1, <5>2
      <4> QED
        BY <1>4, <3>1, <4>1, <4>2
    <3>2. CASE arrays'[k] = arrays[k]
      BY <1>3, <1>5, <3>2
    <3> QED
      BY <1>7, <3>1, <3>2
  <2>2. ASSUME NEW d \in Clients, Live(d)'
        PROVE  IsIn(d, T, Len(T))
    <3>1. d # c
      BY <1>3, <2>2 DEF Live
    <3>2. Live(d)
      BY <1>3, <2>2, <3>1 DEF Live
    <3>3. PICK i \in 1 .. Len(s) : s[i] = d
      BY <1>4, <3>2 DEF SubscriptionInv, ArraysInv, IsIn
    <3>4. Len(T) = Len(s) /\ \E j \in 1 .. Len(s) : T[j] = s[i]
      BY <1>6, <3>1, <3>3 DEF Shifted
    <3> QED
      BY <3>3, <3>4 DEF IsIn
  <2>3. arrays' # <<>>
    BY <1>4, <1>7
  <2> QED
    BY <1>7, <1>8, <2>1, <2>2, <2>3 DEF ArraysInv
<1>11. ASSUME NEW t \in Threads
       PROVE  /\ InLoop(t)' = InLoop(t) /\ Publishing(t)' = Publishing(t) /\ Busy(t)' = Busy(t)
              /\ thread'[t] = thread[t]
  BY <1>2 DEF InLoop, Publishing, Busy, CurrentCall
<1>12. "network" \in Threads
  BY DEF Threads
<1>13. LoopsInv'
  <2>1. ASSUME NEW t \in Threads
        PROVE  (IF InLoop(t)
                THEN /\ Publishing(t)
                     /\ thread[t].array \in 1 .. Len(arrays)
                     /\ thread[t].next <= thread[t].end
                     /\ thread[t].end \in 2 .. Len(arrays[thread[t].array])
                ELSE thread[t].array = 1 /\ thread[t].end = 0)'
    BY <1>4, <1>7, <1>9, <1>11 DEF SubscriptionInv, LoopsInv
  <2>2. \A t \in Threads : InLoop(t)' => overlapped' = Clients
    BY <1>1, <1>2, <1>11
  <2>3. \A t \in Threads, d \in Clients : (InLoop(t) /\ Live(d) /\ d \notin overlapped
         => IsIn(d, arrays[thread[t].array], thread[t].end))'
    BY <2>2
  <2>4. ~ InLoop("network")'
    BY <1>1, <1>11, <1>12
  <2> QED
    BY <2>1, <2>3, <2>4 DEF LoopsInv
<1>14. JoinInv'
  <2>1. \A d \in Clients : ~ Joining(d)'
    BY <1>1, <1>3 DEF Joining
  <2> QED
    BY <2>1 DEF JoinInv
<1> QED
  BY <1>10, <1>13, <1>14 DEF SubscriptionInv

------------------------------------------------------------------------------
(* What there is to do                                                     *)

\* The parts of a call.
LEMMA LaterParts ==
  ASSUME NEW call \in Later
  PROVE  /\ call.value \in Values
         /\ call.op \in {"add", "start", "stop", "delete_all_sources", "delete_source", "move",
                         "member", "setting", "scene_setting"}
         /\ call.op \in {"delete_source", "move", "member"} => call.id \in Ids
         /\ call.op = "delete_all_sources" => call.id = 0
         /\ call.op \in {"delete_source", "delete_all_sources"} => call.what = ""
         /\ call.op = "member" => call.what \in Members
         /\ call.op = "move" => call.what = "position"
         /\ call.op = "setting" => call.what \in Settings
         /\ call.op = "scene_setting" => call.what = "amplitude_reference_distance"
BY DEF Later, Asked

LEMMA OtherParts ==
  /\ \A call \in AtOnce : /\ call.value \in Values /\ call.op = "new_source"
                          /\ call.id \in Ids /\ call.what = ""
  /\ \A call \in Turns : /\ call.value \in Values /\ call.op = "setting"
                         /\ call.id = 0 /\ call.what = "reference_orientation"
  /\ \A call \in Levels : /\ call.value \in Values /\ call.op = "level"
                          /\ call.id \in Ids /\ call.what = ""
BY DEF AtOnce, Turns, Levels, Asked

\* Who publishes what.
LEMMA PublishedCall ==
  ASSUME ThreadsTyped, NEW t \in Threads, Publishing(t)
  PROVE  /\ Busy(t) /\ CurrentCall(t) \in CallsOf(t) /\ CurrentCall(t).value \in Values
         /\ CurrentCall(t).op \in {"new_source", "delete_source", "delete_all_sources",
                                   "member", "setting", "level"}
         /\ CurrentCall(t).op \in {"new_source", "delete_source", "delete_all_sources", "member"}
              => t = "network"
         /\ CurrentCall(t).op = "level" <=> t = "query"
         /\ CurrentCall(t).op \in {"new_source", "delete_source", "member", "level"}
              => CurrentCall(t).id \in Ids
         /\ CurrentCall(t).op = "delete_all_sources" => CurrentCall(t).id = 0
         /\ CurrentCall(t).op \in {"new_source", "delete_source", "delete_all_sources", "level"}
              => CurrentCall(t).what = ""
         /\ CurrentCall(t).op = "member" => CurrentCall(t).what \in Members
         /\ CurrentCall(t).op = "setting" => CurrentCall(t).what \in Settings
         /\ t = "tracker" => CurrentCall(t).what = "reference_orientation"
<1>1. Busy(t) /\ CurrentCall(t).op \notin Operations
  BY DEF Publishing, CurrentCall
<1>2. CurrentCall(t) \in CallsOf(t)
  BY <1>1, LoopParts, FirstCall DEF CurrentCall, Busy
<1>3. "reference_orientation" \in Settings
  BY SettingsAssumption
<1>4. CASE t = "network"
  BY <1>1, <1>2, <1>4, LaterParts, OtherParts, ThreadNames DEF Operations
<1>5. CASE t = "tracker"
  BY <1>1, <1>2, <1>3, <1>5, OtherParts, ThreadNames
<1>6. CASE t = "query"
  BY <1>1, <1>2, <1>6, OtherParts, ThreadNames
<1> QED
  BY <1>4, <1>5, <1>6, ThreadNames

LEMMA PendingJoined ==
  ASSUME NEW S, NEW a \in Seq(S), NEW b \in Seq(S), NEW id, NEW m,
         Pending(id, m, a) \/ Pending(id, m, b)
  PROVE  Pending(id, m, a \o b)
<1>1. /\ a \o b \in Seq(S) /\ Len(a \o b) = Len(a) + Len(b)
      /\ \A k \in 1 .. Len(a) : (a \o b)[k] = a[k]
      /\ \A k \in 1 .. Len(b) : (a \o b)[Len(a) + k] = b[k]
  OBVIOUS
<1>2. DOMAIN a = 1 .. Len(a) /\ DOMAIN b = 1 .. Len(b) /\ DOMAIN (a \o b) = 1 .. Len(a) + Len(b)
  BY <1>1
<1>3. Len(a) \in Nat /\ Len(b) \in Nat
  OBVIOUS
<1>4. CASE Pending(id, m, a)
  BY <1>1, <1>2, <1>3, <1>4 DEF Pending
<1>5. CASE Pending(id, m, b)
  <2>1. PICK k \in 1 .. Len(b) : b[k].op = "member" /\ b[k].id = id /\ b[k].what = m
    BY <1>2, <1>5 DEF Pending
  <2>2. Len(a) + k \in 1 .. Len(a) + Len(b) /\ (a \o b)[Len(a) + k] = b[k]
    BY <1>1, <1>3
  <2> QED
    BY <1>2, <2>1, <2>2 DEF Pending
<1> QED
  BY <1>4, <1>5

LEMMA PendingBehind ==
  ASSUME NEW S, NEW s \in Seq(S), s # <<>>, NEW id, NEW m, Pending(id, m, s)
  PROVE  \/ Pending(id, m, Tail(s))
         \/ Head(s).op = "member" /\ Head(s).id = id /\ Head(s).what = m
<1>1. PICK k \in 1 .. Len(s) : s[k].op = "member" /\ s[k].id = id /\ s[k].what = m
  BY FirstCall DEF Pending
<1>2. CASE k = 1
  BY <1>1, <1>2, FirstCall
<1>3. CASE k # 1
  <2>1. PICK j \in 1 .. Len(s) - 1 : k = j + 1
    BY <1>3, FirstCall
  <2>2. Tail(s)[j] = s[k] /\ DOMAIN Tail(s) = 1 .. Len(s) - 1
    BY <2>1, FirstCall
  <2> QED
    BY <1>1, <2>1, <2>2 DEF Pending
<1> QED
  BY <1>2, <1>3

LEMMA CallsAreLater ==
  /\ \A id \in Ids, m \in Members, v \in Values : SetMember(id, m, v) \in Later
  /\ \A s \in Settings, v \in Values : Setting(s, v) \in Later
  /\ \A v \in Values :
       /\ Call("scene_setting", 0, "amplitude_reference_distance", v) \in Later
       /\ Call("add", 0, "", v) \in Later
  /\ \A op \in {"add", "start", "stop", "delete_all_sources"} : Call(op, 0, "", 0) \in Later
<1>1. 0 \in Values
  BY DEF Values
<1>2. ASSUME NEW id \in Ids, NEW m \in Members, NEW v \in Values
      PROVE  SetMember(id, m, v) \in Later
  <2>1. Call("member", id, m, v) \in Asked({"member"}, Ids, Members)
    BY DEF Call, Asked
  <2> QED
    BY <2>1 DEF SetMember, Later
<1>3. ASSUME NEW s \in Settings, NEW v \in Values PROVE Setting(s, v) \in Later
  <2>1. Call("setting", 0, s, v) \in Asked({"setting"}, {0}, Settings)
    BY DEF Call, Asked
  <2> QED
    BY <2>1 DEF Setting, Later
<1>4. ASSUME NEW v \in Values
      PROVE  Call("scene_setting", 0, "amplitude_reference_distance", v) \in Later
  <2>1. Call("scene_setting", 0, "amplitude_reference_distance", v)
          \in Asked({"scene_setting"}, {0}, {"amplitude_reference_distance"})
    BY DEF Call, Asked
  <2> QED
    BY <2>1 DEF Later
<1>5. ASSUME NEW op \in {"add", "start", "stop", "delete_all_sources"}, NEW v \in Values
      PROVE  Call(op, 0, "", v) \in Later
  <2>1. Call(op, 0, "", v) \in Asked({"add", "start", "stop", "delete_all_sources"}, {0}, {""})
    BY DEF Call, Asked
  <2> QED
    BY <2>1 DEF Later
<1> QED
  BY <1>1, <1>2, <1>3, <1>4, <1>5

\* Calls that make a source known and then publish some of its members.
Transmits(id, names, calls) ==
  /\ calls \in Seq(Later \cup AtOnce) /\ calls # <<>>
  /\ Head(calls) = Call("new_source", id, "", 0)
  /\ Tail(calls) \in Seq(Later)
  /\ \A m \in names \cap Members : Pending(id, m, Tail(calls))

LEMMA TailJoined ==
  ASSUME NEW S, NEW a \in Seq(S), NEW b \in Seq(S), a # <<>>
  PROVE  a \o b \in Seq(S) /\ a \o b # <<>> /\ Head(a \o b) = Head(a) /\ Tail(a \o b) = Tail(a) \o b
<1>1. /\ a \o b \in Seq(S) /\ Len(a \o b) = Len(a) + Len(b) /\ Len(a) \in Nat /\ Len(b) \in Nat
      /\ Len(a) > 0
      /\ \A k \in 1 .. Len(a) : (a \o b)[k] = a[k]
      /\ \A k \in 1 .. Len(b) : (a \o b)[Len(a) + k] = b[k]
  OBVIOUS
<1>2. Head(a \o b) = Head(a)
  BY <1>1
<1>3. Tail(a \o b) = Tail(a) \o b
  <2> DEFINE l == Tail(a \o b)
             r == Tail(a) \o b
  <2>1. /\ l \in Seq(S) /\ Len(l) = Len(a) + Len(b) - 1
        /\ \A k \in 1 .. Len(l) : l[k] = (a \o b)[k + 1]
    BY <1>1
  <2>2. /\ r \in Seq(S) /\ Len(r) = Len(a) - 1 + Len(b)
        /\ \A k \in 1 .. Len(a) - 1 : r[k] = a[k + 1]
        /\ \A k \in 1 .. Len(b) : r[Len(a) - 1 + k] = b[k]
    BY <1>1
  <2> HIDE DEF l, r
  <2>3. ASSUME NEW k \in 1 .. Len(l) PROVE l[k] = r[k]
    <3>1. CASE k < Len(a)
      <4>1. l[k] = a[k + 1]
        BY <1>1, <2>1, <3>1
      <4>2. r[k] = a[k + 1]
        BY <1>1, <2>2, <3>1
      <4> QED
        BY <4>1, <4>2
    <3>2. CASE k >= Len(a)
      <4>1. PICK p \in Nat, q \in Nat : p = Len(a) /\ q = Len(b) /\ k \in p .. p + q - 1
        BY <1>1, <2>1, <3>2
      <4>2. PICK j \in 1 .. q : k = p - 1 + j /\ k + 1 = p + j
        <5>1. k - p + 1 \in 1 .. q /\ k = p - 1 + (k - p + 1) /\ k + 1 = p + (k - p + 1)
          BY <4>1
        <5> QED
          BY <5>1
      <4>3. l[k] = b[j]
        BY <1>1, <2>1, <4>1, <4>2
      <4>4. r[k] = b[j]
        BY <2>2, <4>1, <4>2
      <4> QED
        BY <4>3, <4>4
    <3> QED
      BY <1>1, <2>1, <3>1, <3>2
  <2>4. Len(l) = Len(r)
    BY <1>1, <2>1, <2>2
  <2>5. l = r
    BY <2>1, <2>2, <2>3, <2>4
  <2> QED
    BY <2>5 DEF l, r
<1>4. a \o b # <<>>
  BY <1>1
<1> QED
  BY <1>1, <1>2, <1>3, <1>4

LEMMA TransmitsMore ==
  ASSUME NEW id, NEW names, NEW calls, Transmits(id, names, calls), NEW m,
         NEW more \in Seq(Later), m \in Members => Pending(id, m, more)
  PROVE  Transmits(id, names \cup {m}, calls \o more)
<1>1. calls \in Seq(Later \cup AtOnce) /\ calls # <<>> /\ Tail(calls) \in Seq(Later)
  BY DEF Transmits
<1>2. more \in Seq(Later \cup AtOnce)
  OBVIOUS
<1>3. /\ calls \o more \in Seq(Later \cup AtOnce) /\ calls \o more # <<>>
      /\ Head(calls \o more) = Head(calls) /\ Tail(calls \o more) = Tail(calls) \o more
  BY <1>1, <1>2, TailJoined
<1>4. Tail(calls) \o more \in Seq(Later)
  BY <1>1
<1>5. ASSUME NEW n \in (names \cup {m}) \cap Members
      PROVE  Pending(id, n, Tail(calls) \o more)
  <2>1. Pending(id, n, Tail(calls)) \/ Pending(id, n, more)
    BY DEF Transmits
  <2> QED
    BY <1>1, <2>1, PendingJoined
<1> QED
  BY <1>3, <1>4, <1>5 DEF Transmits

\* new_source() is told first, then every member.
LEMMA TransmissionCalls ==
  ASSUME NEW id \in Ids, NEW v \in Values
  PROVE  Transmits(id, Members, Transmission(id, v))
<1> DEFINE given(m) == IF m \in Members THEN <<SetMember(id, m, v)>> ELSE <<>>
           s0 == <<Call("new_source", id, "", 0), SetMember(id, "mute", 1)>>
           s1 == s0 \o given("gain")
           s2 == s1 \o given("position")
           s3 == s2 \o given("position_fixed")
           s4 == s3 \o given("orientation")
           s5 == s4 \o given("name")
           s6 == s5 \o given("model")
           s7 == s6 \o given("port_name")
           s8 == s7 \o given("file_name")
           s9 == s8 \o given("file_channel")
           s10 == s9 \o given("file_length")
           s11 == s10 \o given("properties_file")
<1>1. Call("new_source", id, "", 0) \in AtOnce
  BY DEF Call, AtOnce, Asked, Values
<1>2. "mute" \in Members /\ 0 \in Values /\ 1 \in Values
  BY MembersAssumption DEF Values
<1>3. ASSUME NEW m \in Members
      PROVE  /\ <<SetMember(id, m, v)>> \in Seq(Later)
             /\ Pending(id, m, <<SetMember(id, m, v)>>)
  <2>1. PICK call \in Later : call = SetMember(id, m, v)
    BY CallsAreLater
  <2>2. call.op = "member" /\ call.id = id /\ call.what = m
    BY <2>1 DEF SetMember, Call
  <2>3. <<call>> \in Seq(Later) /\ DOMAIN <<call>> = {1} /\ <<call>>[1] = call
    OBVIOUS
  <2>4. Pending(id, m, <<call>>)
    BY <2>2, <2>3 DEF Pending
  <2> QED
    BY <2>1, <2>3, <2>4
<1>4. ASSUME NEW m
      PROVE  given(m) \in Seq(Later) /\ (m \in Members => Pending(id, m, given(m)))
  BY <1>3
<1>5. Transmits(id, {}, s0)
  <2>1. PICK new \in AtOnce, first \in Later :
          new = Call("new_source", id, "", 0) /\ first = SetMember(id, "mute", 1)
    BY <1>1, <1>2, CallsAreLater
  <2>2. /\ <<new, first>> \in Seq(Later \cup AtOnce) /\ <<new, first>> # <<>>
        /\ Head(<<new, first>>) = new /\ Tail(<<new, first>>) \in Seq(Later)
    OBVIOUS
  <2> QED
    BY <2>1, <2>2 DEF Transmits
<1>6. Transmission(id, v) = s11 \o <<SetMember(id, "mute", v)>>
  BY Zenon DEF Transmission
<1> HIDE DEF given, s0, s1, s2, s3, s4, s5, s6, s7, s8, s9, s10, s11
<1>7. PICK n1 : n1 = {} \cup {"gain"} /\ Transmits(id, n1, s1)
  BY <1>5, <1>4, TransmitsMore DEF s1
<1>8. PICK n2 : n2 = n1 \cup {"position"} /\ Transmits(id, n2, s2)
  BY <1>7, <1>4, TransmitsMore DEF s2
<1>9. PICK n3 : n3 = n2 \cup {"position_fixed"} /\ Transmits(id, n3, s3)
  BY <1>8, <1>4, TransmitsMore DEF s3
<1>10. PICK n4 : n4 = n3 \cup {"orientation"} /\ Transmits(id, n4, s4)
  BY <1>9, <1>4, TransmitsMore DEF s4
<1>11. PICK n5 : n5 = n4 \cup {"name"} /\ Transmits(id, n5, s5)
  BY <1>10, <1>4, TransmitsMore DEF s5
<1>12. PICK n6 : n6 = n5 \cup {"model"} /\ Transmits(id, n6, s6)
  BY <1>11, <1>4, TransmitsMore DEF s6
<1>13. PICK n7 : n7 = n6 \cup {"port_name"} /\ Transmits(id, n7, s7)
  BY <1>12, <1>4, TransmitsMore DEF s7
<1>14. PICK n8 : n8 = n7 \cup {"file_name"} /\ Transmits(id, n8, s8)
  BY <1>13, <1>4, TransmitsMore DEF s8
<1>15. PICK n9 : n9 = n8 \cup {"file_channel"} /\ Transmits(id, n9, s9)
  BY <1>14, <1>4, TransmitsMore DEF s9
<1>16. PICK n10 : n10 = n9 \cup {"file_length"} /\ Transmits(id, n10, s10)
  BY <1>15, <1>4, TransmitsMore DEF s10
<1>17. PICK n11 : n11 = n10 \cup {"properties_file"} /\ Transmits(id, n11, s11)
  BY <1>16, <1>4, TransmitsMore DEF s11
<1>18. PICK all : all = n11 \cup {"mute"} /\ Transmits(id, all, Transmission(id, v))
  <2>1. Transmits(id, n11 \cup {"mute"}, s11 \o <<SetMember(id, "mute", v)>>)
    <3>1. PICK more : more = <<SetMember(id, "mute", v)>>
      OBVIOUS
    <3>2. more \in Seq(Later) /\ Pending(id, "mute", more)
      BY <1>2, <1>3, <3>1
    <3>3. Transmits(id, n11 \cup {"mute"}, s11 \o more)
      BY <1>17, <3>2, TransmitsMore
    <3> QED
      BY <3>1, <3>3
  <2> QED
    BY <1>6, <2>1
<1>19. Members \subseteq all
  BY <1>7, <1>8, <1>9, <1>10, <1>11, <1>12, <1>13, <1>14, <1>15, <1>16, <1>17, <1>18, MembersAssumption
<1> QED
  BY <1>18, <1>19 DEF Transmits

\* What a scene that is loaded is made of; the members of its sources are published later.
Plain == { call \in Later : call.op # "member" }

LEMMA CallsArePlain ==
  /\ \A s \in Settings, v \in Values : Setting(s, v) \in Plain
  /\ \A v \in Values :
       /\ Call("scene_setting", 0, "amplitude_reference_distance", v) \in Plain
       /\ Call("add", 0, "", v) \in Plain
  /\ \A op \in {"add", "start", "stop", "delete_all_sources"} : Call(op, 0, "", 0) \in Plain
<1>1. \A op, id, what, v : Call(op, id, what, v).op = op
  BY DEF Call
<1>2. ASSUME NEW s \in Settings, NEW v \in Values PROVE Setting(s, v) \in Plain
  <2>1. Setting(s, v) \in Later
    BY CallsAreLater
  <2>2. Setting(s, v).op = "setting"
    BY <1>1 DEF Setting
  <2> QED
    BY <2>1, <2>2 DEF Plain
<1> QED
  BY <1>1, <1>2, CallsAreLater DEF Plain

LEMMA LoadCalls ==
  ASSUME NEW req, req.value \in Values, req.op = "load_scene" => req.id \in 0 .. MaxId
  PROVE  load_scene(req) \in Seq(Plain)
<1> DEFINE given(call) == IF call.what \in Settings THEN <<call>> ELSE <<>>
           begin == <<Call("stop", 0, "", 0), Call("delete_all_sources", 0, "", 0)>>
           a1 == given(Setting("master_volume", req.value))
           a2 == given(Call("scene_setting", 0, "amplitude_reference_distance", req.value))
           a3 == given(Setting("reference_position", req.value))
           a4 == given(Setting("reference_orientation", req.value))
           a5 == [n \in 1 .. req.id |-> Call("add", 0, "", req.value)]
           a6 == <<Call("start", 0, "", 0)>>
<1>1. begin \in Seq(Plain) /\ a6 \in Seq(Plain)
  <2>1. PICK x \in Plain, y \in Plain, z \in Plain :
          /\ x = Call("stop", 0, "", 0) /\ y = Call("delete_all_sources", 0, "", 0)
          /\ z = Call("start", 0, "", 0)
    BY CallsArePlain
  <2>2. <<x, y>> \in Seq(Plain) /\ <<z>> \in Seq(Plain)
    OBVIOUS
  <2> QED
    BY <2>1, <2>2
<1>2. ASSUME NEW s PROVE given(Setting(s, req.value)) \in Seq(Plain)
  <2>1. Setting(s, req.value).what = s
    BY DEF Setting, Call
  <2>2. CASE s \in Settings
    <3>1. PICK x \in Plain : x = Setting(s, req.value)
      BY <2>2, CallsArePlain
    <3>2. <<x>> \in Seq(Plain)
      OBVIOUS
    <3> QED
      BY <2>1, <2>2, <3>1, <3>2
  <2>3. CASE s \notin Settings
    BY <2>1, <2>3
  <2> QED
    BY <2>2, <2>3
<1>3. a2 \in Seq(Plain)
  <2>1. PICK x \in Plain : x = Call("scene_setting", 0, "amplitude_reference_distance", req.value)
    BY CallsArePlain
  <2>2. <<x>> \in Seq(Plain) /\ <<>> \in Seq(Plain)
    OBVIOUS
  <2> QED
    BY <2>1, <2>2
<1>4. req.op = "load_scene" => a5 \in Seq(Plain)
  <2>1. PICK x \in Plain : x = Call("add", 0, "", req.value)
    BY CallsArePlain
  <2>2. ASSUME NEW n \in 0 .. MaxId PROVE [k \in 1 .. n |-> x] \in Seq(Plain)
    BY BoundsAssumption
  <2> QED
    BY <2>1, <2>2
<1>5. a1 \in Seq(Plain) /\ a3 \in Seq(Plain) /\ a4 \in Seq(Plain)
  BY <1>2
<1>6. load_scene(req) = begin \o (IF req.op # "load_scene" THEN <<>>
                                  ELSE a1 \o a2 \o a3 \o a4 \o a5 \o a6)
  BY Zenon DEF load_scene
<1> HIDE DEF begin, a1, a2, a3, a4, a5, a6
<1>7. CASE req.op = "load_scene"
  <2>1. a1 \o a2 \in Seq(Plain)
    BY <1>3, <1>5
  <2>2. a1 \o a2 \o a3 \in Seq(Plain)
    BY <1>5, <2>1
  <2>3. a1 \o a2 \o a3 \o a4 \in Seq(Plain)
    BY <1>5, <2>2
  <2>4. a1 \o a2 \o a3 \o a4 \o a5 \in Seq(Plain)
    BY <1>4, <1>7, <2>3
  <2>5. a1 \o a2 \o a3 \o a4 \o a5 \o a6 \in Seq(Plain)
    BY <1>1, <2>4
  <2>6. begin \o (a1 \o a2 \o a3 \o a4 \o a5 \o a6) \in Seq(Plain)
    BY <1>1, <2>5
  <2> QED
    BY <1>6, <1>7, <2>6
<1>8. CASE req.op # "load_scene"
  <2>1. begin \o <<>> \in Seq(Plain)
    BY <1>1
  <2> QED
    BY <1>6, <1>8, <2>1
<1> QED
  BY <1>7, <1>8

\* What clients ask for leaves out new_source.
LEMMA RequestedCalls ==
  ASSUME NEW req \in Requests, NEW calls,
         calls = IF req.op \in {"load_scene", "load_nothing"} THEN load_scene(req) ELSE <<req>>
  PROVE  calls \in Seq(Later) /\ calls # <<>> /\ Head(calls) \in Later
<1>1. \/ req \in Asked({"load_scene", "load_nothing"}, 0 .. MaxId, {""})
      \/ req \in Asked({"add", "start", "stop", "delete_all_sources"}, {0}, {""})
      \/ req \in Asked({"delete_source"}, Ids, {""})
      \/ req \in Asked({"move"}, Ids, {"position"})
      \/ req \in Asked({"member"}, Ids, Members \ {"position"})
      \/ req \in Asked({"setting"}, {0}, Settings \ {"processing_state"})
  BY RequestsAssumption
<1>2. CASE req \in Asked({"load_scene", "load_nothing"}, 0 .. MaxId, {""})
  <2>1. /\ req.value \in Values /\ req.id \in 0 .. MaxId
        /\ req.op \in {"load_scene", "load_nothing"}
    BY <1>2 DEF Asked
  <2>2. calls = load_scene(req) /\ calls \in Seq(Later)
    <3>1. load_scene(req) \in Seq(Plain) /\ Plain \subseteq Later
      BY <2>1, LoadCalls DEF Plain
    <3>2. calls = load_scene(req)
      BY <2>1
    <3> QED
      BY <3>1, <3>2
  <2>3. calls # <<>>
    <3> DEFINE given(call) == IF call.what \in Settings THEN <<call>> ELSE <<>>
    <3>1. PICK x \in Later, y \in Later : x = Call("stop", 0, "", 0) /\ y = Call("delete_all_sources", 0, "", 0)
      BY CallsAreLater
    <3>2. PICK rest : calls = <<x, y>> \o rest
      <4>1. \E rest : load_scene(req) = <<Call("stop", 0, "", 0), Call("delete_all_sources", 0, "", 0)>> \o rest
        BY Zenon DEF load_scene
      <4> QED
        BY <2>2, <3>1, <4>1
    <3>3. calls = <<>> => FALSE
      BY <3>2
    <3> QED
      BY <3>3
  <2> QED
    BY <2>2, <2>3
<1>3. CASE req \notin Asked({"load_scene", "load_nothing"}, 0 .. MaxId, {""})
  <2>1. req \in Later /\ req.op \notin {"load_scene", "load_nothing"}
    <3>1. CASE req \in Asked({"member"}, Ids, Members \ {"position"})
      <4>1. req \in Asked({"member"}, Ids, Members)
        BY <3>1 DEF Asked
      <4> QED
        BY <3>1, <4>1 DEF Later, Asked
    <3>2. CASE req \in Asked({"setting"}, {0}, Settings \ {"processing_state"})
      <4>1. req \in Asked({"setting"}, {0}, Settings)
        BY <3>2 DEF Asked
      <4> QED
        BY <3>2, <4>1 DEF Later, Asked
    <3>3. CASE \/ req \in Asked({"add", "start", "stop", "delete_all_sources"}, {0}, {""})
               \/ req \in Asked({"delete_source"}, Ids, {""})
               \/ req \in Asked({"move"}, Ids, {"position"})
      <4>1. req.op \in {"add", "start", "stop", "delete_all_sources", "delete_source", "move"}
        BY <3>3 DEF Asked
      <4>2. req \in Later
        BY <3>3 DEF Later
      <4> QED
        BY <4>1, <4>2
    <3> QED
      BY <1>1, <1>3, <3>1, <3>2, <3>3
  <2>2. <<req>> \in Seq(Later) /\ <<req>> # <<>> /\ Head(<<req>>) = req
    BY <2>1
  <2> QED
    BY <2>1, <2>2
<1> QED
  BY <1>2, <1>3

------------------------------------------------------------------------------
(* What a call does to a replica                                           *)

Changes(q, r, call) ==
  /\ q \in Replicas
  /\ call.op = "new_source" => Grown(q, r, call.id)
  /\ call.op = "delete_source" => Shrunk(q, r, {call.id})
  /\ call.op = "delete_all_sources" => Shrunk(q, r, Ids)
  /\ call.op = "member" => MemberSet(q, r, call)
  /\ call.op = "setting" => SettingSet(q, r, call)
  /\ call.op = "level" => q = r

LEMMA AppliedChanges ==
  ASSUME ThreadsTyped, NEW t \in Threads, Publishing(t), NEW r \in Replicas,
         NEW q, q = Applied(r, CurrentCall(t))
  PROVE  Changes(q, r, CurrentCall(t))
<1>1. PICK call : call = CurrentCall(t)
  OBVIOUS
<1>2. /\ call.op \in {"new_source", "delete_source", "delete_all_sources",
                      "member", "setting", "level"}
      /\ call.value \in Values
      /\ call.op = "new_source" => call.id \in Ids
      /\ call.op = "member" => call.what \in Members
      /\ call.op = "setting" => call.what \in Settings
  BY <1>1, PublishedCall
<1>3. CASE call.op = "new_source"
  <2>1. q = WithSource(r, call.id)
    BY <1>1, <1>3 DEF Applied
  <2> QED
    BY <1>1, <1>2, <1>3, <2>1, SourceAdded DEF Changes
<1>4. CASE call.op = "delete_source"
  <2>1. q = WithoutSources(r, {call.id})
    BY <1>1, <1>4 DEF Applied
  <2> QED
    BY <1>1, <1>4, <2>1, SourcesRemoved DEF Changes
<1>5. CASE call.op = "delete_all_sources"
  <2>1. q = WithoutSources(r, Ids)
    BY <1>1, <1>5 DEF Applied
  <2> QED
    BY <1>1, <1>5, <2>1, SourcesRemoved DEF Changes
<1>6. CASE call.op = "member"
  <2>1. q = WithMember(r, call)
    BY <1>1, <1>6 DEF Applied
  <2> QED
    BY <1>1, <1>2, <1>6, <2>1, MemberChanged DEF Changes
<1>7. CASE call.op = "setting"
  <2>1. q = WithSetting(r, call)
    BY <1>1, <1>7 DEF Applied
  <2> QED
    BY <1>1, <1>2, <1>7, <2>1, SettingChanged DEF Changes
<1>8. CASE call.op = "level"
  <2>1. q = r
    BY <1>1, <1>8 DEF Applied
  <2> QED
    BY <1>1, <1>8, <2>1 DEF Changes
<1> QED
  BY <1>2, <1>3, <1>4, <1>5, <1>6, <1>7, <1>8

\* A client is not told everything, and takes a source it does not know for a new one.
ClientChanges(q, r, call) ==
  /\ q \in Replicas
  /\ call.op = "new_source" => Grown(q, r, call.id)
  /\ call.op = "delete_source" => Shrunk(q, r, {call.id})
  /\ call.op = "delete_all_sources" => Shrunk(q, r, Ids)
  /\ call.op = "member" =>
       IF call.what \in ClientIsTold
       THEN \E p \in Replicas : Grown(p, r, call.id) /\ MemberSet(q, p, call)
       ELSE q = r
  /\ call.op = "setting" => IF call.what \in ClientIsTold THEN SettingSet(q, r, call) ELSE q = r
  /\ call.op = "level" => q = r

LEMMA AppliedByClientChanges ==
  ASSUME ThreadsTyped, NEW t \in Threads, Publishing(t), NEW r \in Replicas,
         NEW q, q = AppliedByClient(r, CurrentCall(t))
  PROVE  ClientChanges(q, r, CurrentCall(t))
<1>1. PICK call : call = CurrentCall(t)
  OBVIOUS
<1>2. /\ call.value \in Values
      /\ call.op = "member" => call.what \in Members /\ call.id \in Ids
  BY <1>1, PublishedCall
<1>3. CASE call.op = "member" /\ call.what \in ClientIsTold
  <2>1. PICK p : p = WithSource(r, call.id)
    OBVIOUS
  <2>2. p \in Replicas /\ Grown(p, r, call.id)
    BY <1>2, <1>3, <2>1, SourceAdded
  <2>3. q = WithMember(p, call)
    BY <1>1, <1>3, <2>1 DEF AppliedByClient
  <2>4. q \in Replicas /\ MemberSet(q, p, call)
    BY <1>2, <1>3, <2>2, <2>3, MemberChanged
  <2> QED
    BY <1>1, <1>3, <2>2, <2>4 DEF ClientChanges
<1>4. CASE call.op \in {"member", "setting"} /\ call.what \notin ClientIsTold
  <2>1. q = r
    BY <1>1, <1>4 DEF AppliedByClient
  <2> QED
    BY <1>1, <1>4, <2>1 DEF ClientChanges
<1>5. CASE call.op # "member" /\ ~ (call.op = "setting" /\ call.what \notin ClientIsTold)
  <2>1. q = Applied(r, call)
    BY <1>1, <1>5 DEF AppliedByClient
  <2>2. Changes(q, r, call)
    BY <1>1, <2>1, AppliedChanges
  <2> QED
    BY <1>1, <1>5, <2>2 DEF Changes, ClientChanges
<1> QED
  BY <1>3, <1>4, <1>5

------------------------------------------------------------------------------
(* What the network thread turns to                                        *)

\* It goes on with what was left behind, or with other calls first.
Resumes ==
  /\ at' = 0
  /\ Busy("network")' => now' \in Later /\ Behind' \in Seq(Later)
  /\ \A id \in Ids, m \in Members :
       Busy("network") /\ Pending(id, m, Behind) =>
         /\ Busy("network")'
         /\ \/ Pending(id, m, Behind')
            \/ Now("member")' /\ now'.id = id /\ now'.what = m

\* It turns to a new source.
Introduces(id) ==
  /\ at' = 0
  /\ Now("new_source")' /\ now'.id = id /\ now'.what = "" /\ Behind' \in Seq(Later)
  /\ \A m \in Members : Pending(id, m, Behind')
  /\ \A i \in Ids, m \in Members : Pending(i, m, Behind) => Pending(i, m, Behind')

LEMMA ResumesWith ==
  ASSUME ThreadsTyped, NEW todo \in Seq(Later),
         thread'["network"].todo = todo, at' = 0,
         \A id \in Ids, m \in Members :
           Busy("network") /\ Pending(id, m, Behind) => Pending(id, m, todo)
  PROVE  Resumes
<1>1. Busy("network")' <=> todo # <<>>
  BY DEF Busy
<1>2. now' = Head(todo) /\ Behind' = Tail(todo)
  BY DEF now, CurrentCall, Behind
<1>3. todo # <<>> => now' \in Later /\ Behind' \in Seq(Later)
  BY <1>2, FirstCall
<1>4. ASSUME NEW id \in Ids, NEW m \in Members, Busy("network"), Pending(id, m, Behind)
      PROVE  /\ Busy("network")'
             /\ \/ Pending(id, m, Behind')
                \/ Now("member")' /\ now'.id = id /\ now'.what = m
  <2>1. Pending(id, m, todo)
    BY <1>4
  <2>2. todo # <<>>
    BY <2>1 DEF Pending
  <2>3. Pending(id, m, Tail(todo)) \/ (Head(todo).op = "member" /\ Head(todo).id = id /\ Head(todo).what = m)
    BY <2>1, <2>2, PendingBehind
  <2> QED
    BY <1>1, <1>2, <2>2, <2>3 DEF Now, now
<1> QED
  BY <1>1, <1>3, <1>4 DEF Resumes

LEMMA EndsResumes ==
  ASSUME ThreadsTyped, Busy("network"), Behind \in Seq(Later), Ends("network")
  PROVE  Resumes
<1>1. thread'["network"].todo = Behind /\ at' = 0
  BY DEF Ends, Behind, at
<1> QED
  BY <1>1, ResumesWith

LEMMA GetsResumes ==
  ASSUME ThreadsTyped, Busy("network"), Behind \in Seq(Later), at = 0,
         NEW calls \in Seq(Later), Gets("network", calls \o Behind)
  PROVE  Resumes
<1>1. thread'["network"].todo = calls \o Behind /\ at' = 0 /\ calls \o Behind \in Seq(Later)
  BY DEF Gets, at
<1>2. ASSUME NEW id \in Ids, NEW m \in Members, Pending(id, m, Behind)
      PROVE  Pending(id, m, calls \o Behind)
  BY <1>2, PendingJoined
<1> QED
  BY <1>1, <1>2, ResumesWith

LEMMA GetsIntroduces ==
  ASSUME ThreadsTyped, Busy("network"), Behind \in Seq(Later), at = 0,
         NEW id \in Ids, NEW calls, Transmits(id, Members, calls),
         Gets("network", calls \o Behind)
  PROVE  Introduces(id)
<1>1. PICK rest \in Seq(Later) : rest = Behind
  OBVIOUS
<1>2. /\ calls \in Seq(Later \cup AtOnce) /\ calls # <<>>
      /\ Head(calls) = Call("new_source", id, "", 0) /\ Tail(calls) \in Seq(Later)
      /\ \A m \in Members : Pending(id, m, Tail(calls))
  BY DEF Transmits
<1>3. rest \in Seq(Later \cup AtOnce)
  OBVIOUS
<1>4. /\ calls \o rest # <<>> /\ Head(calls \o rest) = Head(calls)
      /\ Tail(calls \o rest) = Tail(calls) \o rest
  BY <1>2, <1>3, TailJoined
<1>5. thread'["network"].todo = calls \o rest /\ at' = 0
  BY <1>1 DEF Gets, at
<1>6. now' = Head(calls) /\ Behind' = Tail(calls) \o rest /\ Busy("network")'
  BY <1>4, <1>5 DEF now, CurrentCall, Behind, Busy
<1>7. now'.op = "new_source" /\ now'.id = id /\ now'.what = ""
  <2>1. PICK new : new = Call("new_source", id, "", 0)
    OBVIOUS
  <2>2. new.op = "new_source" /\ new.id = id /\ new.what = ""
    BY <2>1 DEF Call
  <2>3. now' = new
    BY <1>2, <1>6, <2>1
  <2> QED
    BY <2>2, <2>3
<1>8. Tail(calls) \o rest \in Seq(Later)
  <2>1. PICK tail \in Seq(Later) : tail = Tail(calls)
    BY <1>2
  <2>2. tail \o rest \in Seq(Later)
    OBVIOUS
  <2> QED
    BY <2>1, <2>2
<1>9. \A m \in Members : Pending(id, m, Tail(calls) \o rest)
  BY <1>2, PendingJoined
<1>10. \A i \in Ids, m \in Members : Pending(i, m, rest) => Pending(i, m, Tail(calls) \o rest)
  BY <1>2, PendingJoined
<1>11. Now("new_source")'
  BY <1>6, <1>7 DEF Now, now
<1> QED
  BY <1>1, <1>5, <1>6, <1>7, <1>8, <1>9, <1>10, <1>11 DEF Introduces

------------------------------------------------------------------------------
(* What each action does, and that it keeps the types                      *)

LEMMA OthersKeepBehind ==
  ASSUME thread'["network"].todo = thread["network"].todo, Busy("network") => Behind \in Seq(Later)
  PROVE  (Busy("network") => Behind \in Seq(Later))'
BY DEF Busy, Behind

LEMMA LoopKeepsBehind ==
  ASSUME PublicationTypes, NEW t \in Threads, Busy(t), Begins(t) \/ Goes(t) \/ Ends(t)
  PROVE  (Busy("network") => Behind \in Seq(Later))'
<1>1. "network" \in Threads
  BY DEF Threads
<1>2. CASE t # "network" \/ Begins(t) \/ Goes(t)
  <2>1. thread'["network"].todo = thread["network"].todo
    BY <1>1, <1>2 DEF Begins, Goes, Ends, Others
  <2> QED
    BY <2>1, OthersKeepBehind DEF PublicationTypes
<1>3. CASE t = "network" /\ Ends(t)
  <2>1. Resumes
    BY <1>3, EndsResumes DEF PublicationTypes
  <2> QED
    BY <2>1 DEF Resumes
<1> QED
  BY <1>2, <1>3

\* The settings a thread may publish twice at once.
LEMMA BeginStep ==
  ASSUME PublicationTypes, ArraysInv, NEW t \in Threads, BeginLoop(t)
  PROVE  /\ PublicationTypes'
         /\ Begins(t) /\ Publishing(t) /\ ~ InLoop(t)
         /\ UNCHANGED <<scene, renderer, client, _source_levels, arrays, link, whole_scene, locked>>
         /\ overlapped \subseteq overlapped'
         /\ agreed' \subseteq agreed \cup {CurrentCall(t).what}
         /\ CurrentCall(t).op # "setting" => agreed' = agreed
         /\ CurrentCall(t).op = "setting" /\ CurrentCall(t).what \in agreed' =>
              \A u \in Threads : InLoop(u) => CurrentCall(u).what # CurrentCall(t).what
         /\ t # "network" => \A c \in Clients : Joining(c) => c \in overlapped'
<1>1. /\ scene \in Replicas /\ renderer \in Replicas /\ whole_scene \in Replicas
      /\ _highest_id \in 0 .. MaxId
      /\ client \in [Clients -> Replicas]
      /\ _source_levels \in [Clients -> SUBSET Ids]
      /\ ThreadsTyped
      /\ locked \in BOOLEAN
      /\ link \in [Clients -> Links]
      /\ requests \in 0 .. MaxRequests /\ turns \in 0 .. MaxTurns
      /\ overlapped \subseteq Clients /\ agreed \subseteq Settings
  BY DEF PublicationTypes
<1>2. Publishing(t) /\ ~ InLoop(t)
  BY DEF BeginLoop
<1>3. ThreadsTyped' /\ Begins(t)
  BY <1>1, BeginChanges
<1>4. UNCHANGED <<scene, renderer, _highest_id, client, _source_levels, arrays, link,
                  whole_scene, locked, requests, turns>>
  BY DEF BeginLoop, replicas, bounded
<1>5. /\ overlapped \subseteq overlapped' /\ overlapped' \subseteq Clients
      /\ t # "network" => \A c \in Clients : Joining(c) => c \in overlapped'
  BY <1>1 DEF BeginLoop, Joining
<1>6. PICK call : call = CurrentCall(t)
  OBVIOUS
<1>7. agreed' = IF call.op # "setting" THEN agreed
                ELSE IF \E u \in Threads : InLoop(u) /\ CurrentCall(u).what = call.what
                THEN agreed \ {call.what} ELSE agreed \cup {call.what}
  BY <1>6 DEF BeginLoop
<1>8. /\ agreed' \subseteq agreed \cup {call.what}
      /\ call.op # "setting" => agreed' = agreed
      /\ call.op = "setting" /\ call.what \in agreed' =>
           \A u \in Threads : InLoop(u) => CurrentCall(u).what # call.what
  BY <1>7
<1>9. agreed' \subseteq Settings
  <2>1. call.op = "setting" => call.what \in Settings
    BY <1>1, <1>2, <1>6, PublishedCall
  <2> QED
    BY <1>1, <1>8, <2>1
<1>10. (Busy("network") => Behind \in Seq(Later))'
  BY <1>2, <1>3, LoopKeepsBehind DEF Publishing
<1>11. PublicationTypes'
  BY <1>1, <1>3, <1>4, <1>5, <1>9, <1>10 DEF PublicationTypes
<1> QED
  BY <1>2, <1>3, <1>4, <1>5, <1>6, <1>8, <1>11

LEMMA SceneStep ==
  ASSUME PublicationTypes, SubscriptionInv, NEW t \in Threads, ToScene(t)
  PROVE  /\ PublicationTypes'
         /\ Publishing(t) /\ InLoop(t) /\ thread[t].next = 1
         /\ Advance(t) /\ Goes(t)
         /\ Changes(scene', scene, CurrentCall(t))
         /\ UNCHANGED <<renderer, client, _source_levels, arrays, link, whole_scene, overlapped,
                        agreed, locked>>
<1>1. /\ scene \in Replicas /\ renderer \in Replicas /\ whole_scene \in Replicas
      /\ _highest_id \in 0 .. MaxId
      /\ client \in [Clients -> Replicas]
      /\ _source_levels \in [Clients -> SUBSET Ids]
      /\ ThreadsTyped
      /\ locked \in BOOLEAN
      /\ link \in [Clients -> Links]
      /\ requests \in 0 .. MaxRequests /\ turns \in 0 .. MaxTurns
      /\ overlapped \subseteq Clients /\ agreed \subseteq Settings
  BY DEF PublicationTypes
<1>2. Publishing(t) /\ InLoop(t) /\ Current(t) = "scene" /\ Advance(t) /\ Busy(t)
  BY DEF ToScene, Publishing
<1>3. /\ thread[t].next = 1 /\ thread[t].end >= 2 /\ thread[t].end \in Nat
  <2>1. thread[t].next = 1
    BY <1>1, <1>2, Order DEF SubscriptionInv
  <2>2. thread[t].end \in 2 .. Len(arrays[thread[t].array]) /\ thread[t].end \in Nat
    BY <1>1, <1>2, LoopParts DEF SubscriptionInv, LoopsInv
  <2> QED
    BY <2>1, <2>2
<1>4. ThreadsTyped' /\ Goes(t)
  <2>1. ThreadsTyped' /\ (Goes(t) \/ Ends(t))
    BY <1>1, <1>2, AdvanceChanges
  <2> QED
    BY <1>3, <2>1 DEF Ends
<1>5. Changes(scene', scene, CurrentCall(t)) /\ scene' \in Replicas
  <2>1. scene' = Applied(scene, CurrentCall(t))
    BY DEF ToScene
  <2>2. Changes(scene', scene, CurrentCall(t))
    BY <1>1, <1>2, <2>1, AppliedChanges
  <2> QED
    BY <2>2 DEF Changes
<1>6. UNCHANGED <<renderer, _highest_id, client, _source_levels, arrays, link, whole_scene, overlapped,
                  agreed, locked, requests, turns>>
  BY DEF ToScene, subscription, bounded
<1>7. (Busy("network") => Behind \in Seq(Later))'
  BY <1>2, <1>4, LoopKeepsBehind
<1>8. PublicationTypes'
  BY <1>1, <1>4, <1>5, <1>6, <1>7 DEF PublicationTypes
<1> QED
  BY <1>2, <1>3, <1>4, <1>5, <1>6, <1>8

\* The renderer removes one of all sources at a time, ...
RemovesOne(call) ==
  /\ call.op = "delete_all_sources"
  /\ \E id \in Ids : Shrunk(renderer', renderer, {id})

\* ... or does what it is told.
Follows(call) ==
  /\ call.op \in {"new_source", "level"} => renderer' = renderer
  /\ call.op = "delete_all_sources" => renderer' = renderer /\ Sources(renderer) = {}
  /\ call.op = "delete_source" => Shrunk(renderer', renderer, {call.id})
  /\ call.op = "member" => IF call.what \in RendererUses THEN MemberSet(renderer', renderer, call)
                           ELSE renderer' = renderer
  /\ call.op = "setting" => IF call.what \in RendererUses THEN SettingSet(renderer', renderer, call)
                            ELSE renderer' = renderer

LEMMA RendererStep ==
  ASSUME PublicationTypes, SubscriptionInv, NEW t \in Threads, ToRenderer(t)
  PROVE  /\ PublicationTypes'
         /\ Publishing(t) /\ InLoop(t) /\ thread[t].next = 2
         /\ CurrentCall(t).op \in {"delete_source", "delete_all_sources"} => ~ locked
         /\ \/ thread' = thread /\ RemovesOne(CurrentCall(t))
            \/ Advance(t) /\ (Goes(t) \/ Ends(t)) /\ Follows(CurrentCall(t))
         /\ UNCHANGED <<scene, client, _source_levels, arrays, link, whole_scene, overlapped,
                        agreed, locked>>
<1>1. /\ scene \in Replicas /\ renderer \in Replicas /\ whole_scene \in Replicas
      /\ _highest_id \in 0 .. MaxId
      /\ client \in [Clients -> Replicas]
      /\ _source_levels \in [Clients -> SUBSET Ids]
      /\ ThreadsTyped
      /\ locked \in BOOLEAN
      /\ link \in [Clients -> Links]
      /\ requests \in 0 .. MaxRequests /\ turns \in 0 .. MaxTurns
      /\ overlapped \subseteq Clients /\ agreed \subseteq Settings
      /\ Busy("network") => Behind \in Seq(Later)
  BY DEF PublicationTypes
<1>2. PICK call : call = CurrentCall(t)
  OBVIOUS
<1>3. Publishing(t) /\ InLoop(t) /\ Current(t) = "renderer" /\ Busy(t)
  BY DEF ToRenderer, Publishing
<1>4. thread[t].next = 2
  BY <1>1, <1>3, Order DEF SubscriptionInv
<1>5. call.op \in {"delete_source", "delete_all_sources"} => ~ locked
  <2>1. "" \notin Members /\ "" \notin Settings
    BY MembersAssumption, SettingsAssumption
  <2>2. call.op \in {"delete_source", "delete_all_sources"} => call.what = ""
    BY <1>1, <1>2, <1>3, PublishedCall
  <2>3. LockIsFree(call)
    BY <1>2 DEF ToRenderer
  <2> QED
    BY <2>1, <2>2, <2>3 DEF LockIsFree
<1>6. UNCHANGED <<scene, client, _source_levels, arrays, link, whole_scene, overlapped,
                  agreed, locked, requests, turns>>
  BY DEF ToRenderer, subscription, bounded
<1>7. \/ /\ call.op = "delete_all_sources"
         /\ \E id \in Sources(renderer) : renderer' = WithoutSources(renderer, {id})
         /\ UNCHANGED <<_highest_id, thread>>
      \/ /\ call.op = "delete_all_sources" /\ Sources(renderer) = {}
         /\ _highest_id' = 0 /\ Advance(t) /\ renderer' = renderer
      \/ /\ call.op \in {"delete_source", "member", "setting"}
         /\ renderer' = IF call.op = "delete_source" \/ call.what \in RendererUses
                        THEN Applied(renderer, call) ELSE renderer
         /\ Advance(t) /\ _highest_id' = _highest_id
      \/ /\ call.op \in {"new_source", "level"}
         /\ Advance(t) /\ UNCHANGED <<renderer, _highest_id>>
  BY <1>2, Zenon DEF ToRenderer, Sources
<1>8. CASE /\ call.op = "delete_all_sources"
           /\ \E id \in Sources(renderer) : renderer' = WithoutSources(renderer, {id})
           /\ UNCHANGED <<_highest_id, thread>>
  <2>1. PICK id \in Ids : renderer' = WithoutSources(renderer, {id})
    BY <1>1, <1>8, ReplicaParts
  <2>2. renderer' \in Replicas /\ Shrunk(renderer', renderer, {id})
    BY <1>1, <2>1, SourcesRemoved
  <2>3. (Busy("network") => Behind \in Seq(Later))' /\ ThreadsTyped'
    BY <1>1, <1>8, OthersKeepBehind DEF ThreadsTyped
  <2>4. PublicationTypes'
    BY <1>1, <1>6, <1>8, <2>2, <2>3 DEF PublicationTypes
  <2>5. RemovesOne(call)
    BY <1>8, <2>2 DEF RemovesOne
  <2> QED
    BY <1>2, <1>3, <1>4, <1>5, <1>6, <1>8, <2>4, <2>5
<1>9. ASSUME Advance(t), renderer' \in Replicas, _highest_id' \in 0 .. MaxId, Follows(call)
      PROVE  PublicationTypes' /\ (Goes(t) \/ Ends(t))
  <2>1. ThreadsTyped' /\ (Goes(t) \/ Ends(t))
    BY <1>1, <1>3, <1>9, AdvanceChanges
  <2>2. (Busy("network") => Behind \in Seq(Later))'
    BY <1>3, <2>1, LoopKeepsBehind
  <2> QED
    BY <1>1, <1>6, <1>9, <2>1, <2>2 DEF PublicationTypes
<1>10. CASE /\ call.op = "delete_all_sources" /\ Sources(renderer) = {}
            /\ _highest_id' = 0 /\ Advance(t) /\ renderer' = renderer
  <2>1. Follows(call)
    BY <1>10 DEF Follows
  <2>2. _highest_id' \in 0 .. MaxId
    BY <1>10, BoundsAssumption
  <2> QED
    BY <1>1, <1>2, <1>3, <1>4, <1>5, <1>6, <1>9, <1>10, <2>1, <2>2
<1>11. CASE /\ call.op \in {"delete_source", "member", "setting"}
            /\ renderer' = IF call.op = "delete_source" \/ call.what \in RendererUses
                           THEN Applied(renderer, call) ELSE renderer
            /\ Advance(t) /\ _highest_id' = _highest_id
  <2>1. renderer' \in Replicas /\ Follows(call)
    <3>1. CASE call.op = "delete_source" \/ call.what \in RendererUses
      <4>1. Changes(renderer', renderer, call)
        BY <1>1, <1>2, <1>3, <1>11, <3>1, AppliedChanges
      <4> QED
        BY <1>11, <3>1, <4>1 DEF Changes, Follows
    <3>2. CASE ~ (call.op = "delete_source" \/ call.what \in RendererUses)
      <4>1. renderer' = renderer
        BY <1>11, <3>2
      <4> QED
        BY <1>1, <1>11, <3>2, <4>1 DEF Follows
    <3> QED
      BY <3>1, <3>2
  <2> QED
    BY <1>1, <1>2, <1>3, <1>4, <1>5, <1>6, <1>9, <1>11, <2>1
<1>12. CASE /\ call.op \in {"new_source", "level"}
            /\ Advance(t) /\ UNCHANGED <<renderer, _highest_id>>
  <2>1. Follows(call)
    BY <1>12 DEF Follows
  <2> QED
    BY <1>1, <1>2, <1>3, <1>4, <1>5, <1>6, <1>9, <1>12, <2>1
<1> QED
  BY <1>7, <1>8, <1>10, <1>11, <1>12

\* Of the clients, the one the loop has come to is told.
LEMMA ClientStep ==
  ASSUME PublicationTypes, SubscriptionInv, NEW t \in Threads, ToClient(t)
  PROVE  /\ PublicationTypes'
         /\ Publishing(t) /\ InLoop(t) /\ thread[t].next >= 3
         /\ Current(t) \in Clients /\ link[Current(t)] # "none"
         /\ Advance(t) /\ (Goes(t) \/ Ends(t))
         /\ UNCHANGED <<scene, renderer, arrays, link, whole_scene, overlapped, agreed, locked>>
         /\ \A c \in Clients : c # Current(t) =>
              client'[c] = client[c] /\ _source_levels'[c] = _source_levels[c]
         /\ link[Current(t)] # "gone" =>
              /\ ClientChanges(client'[Current(t)], client[Current(t)], CurrentCall(t))
              /\ _source_levels'[Current(t)] =
                   CASE CurrentCall(t).op = "level" ->
                          _source_levels[Current(t)] \cup {CurrentCall(t).id}
                     [] CurrentCall(t).op = "delete_source" ->
                          _source_levels[Current(t)] \ {CurrentCall(t).id}
                     [] CurrentCall(t).op = "delete_all_sources" -> {}
                     [] OTHER -> _source_levels[Current(t)]
<1>1. /\ scene \in Replicas /\ renderer \in Replicas /\ whole_scene \in Replicas
      /\ _highest_id \in 0 .. MaxId
      /\ client \in [Clients -> Replicas]
      /\ _source_levels \in [Clients -> SUBSET Ids]
      /\ ThreadsTyped
      /\ locked \in BOOLEAN
      /\ link \in [Clients -> Links]
      /\ requests \in 0 .. MaxRequests /\ turns \in 0 .. MaxTurns
      /\ overlapped \subseteq Clients /\ agreed \subseteq Settings
  BY DEF PublicationTypes
<1>2. Publishing(t) /\ InLoop(t) /\ Advance(t) /\ Busy(t)
  BY DEF ToClient, Publishing
<1>0. PICK call : call = CurrentCall(t)
  OBVIOUS
<1>3. PICK c \in Clients : call = CurrentCall(t) /\ c = Current(t)
  BY <1>0 DEF ToClient
<1>4. thread[t].next >= 3 /\ link[c] # "none"
  BY <1>1, <1>2, <1>3, Order DEF SubscriptionInv
<1>5. ThreadsTyped' /\ (Goes(t) \/ Ends(t))
  BY <1>1, <1>2, AdvanceChanges
<1>6. UNCHANGED <<scene, renderer, _highest_id, arrays, link, whole_scene, overlapped,
                  agreed, locked, requests, turns>>
  BY DEF ToClient, subscription, bounded
<1>7. (Busy("network") => Behind \in Seq(Later))'
  BY <1>2, <1>5, LoopKeepsBehind
<1>8. CASE link[c] = "gone"
  <2>1. UNCHANGED <<client, _source_levels>>
    BY <1>3, <1>8 DEF ToClient
  <2>2. PublicationTypes'
    BY <1>1, <1>5, <1>6, <1>7, <2>1 DEF PublicationTypes
  <2> QED
    BY <1>2, <1>3, <1>4, <1>5, <1>6, <1>8, <2>1, <2>2
<1>9. CASE link[c] # "gone"
  <2>1. PICK old \in Replicas, q \in {AppliedByClient(client[c], call)} :
          q = AppliedByClient(old, call) /\ old = client[c]
    BY <1>1
  <2>2. client' = [client EXCEPT ![c] = q]
    BY <1>1, <1>3, <1>9, <2>1 DEF ToClient
  <2>3. ClientChanges(q, old, call) /\ q \in Replicas
    <3>1. ClientChanges(q, old, call)
      BY <1>1, <1>2, <1>3, <2>1, AppliedByClientChanges
    <3> QED
      BY <3>1 DEF ClientChanges
  <2>4. PICK levels \in SUBSET Ids : levels = _source_levels[c]
    BY <1>1
  <2>5. PICK ids : ids = CASE call.op = "level" -> levels \cup {call.id}
                           [] call.op = "delete_source" -> levels \ {call.id}
                           [] call.op = "delete_all_sources" -> {}
                           [] OTHER -> levels
    OBVIOUS
  <2>6. _source_levels' = [_source_levels EXCEPT ![c] = ids]
    BY <1>1, <1>3, <1>9, <2>4, <2>5 DEF ToClient
  <2>7. ids \in SUBSET Ids
    <3>1. call.op = "level" => call.id \in Ids
      BY <1>1, <1>2, <1>3, PublishedCall
    <3> QED
      BY <2>4, <2>5, <3>1
  <2>8. client' \in [Clients -> Replicas] /\ _source_levels' \in [Clients -> SUBSET Ids]
    BY <1>1, <2>2, <2>3, <2>6, <2>7
  <2>9. PublicationTypes'
    BY <1>1, <1>5, <1>6, <1>7, <2>8 DEF PublicationTypes
  <2>10. /\ client'[c] = q /\ _source_levels'[c] = ids
         /\ \A d \in Clients : d # c =>
              client'[d] = client[d] /\ _source_levels'[d] = _source_levels[d]
    BY <1>1, <2>2, <2>6
  <2> QED
    BY <1>2, <1>3, <1>4, <1>5, <1>6, <2>1, <2>3, <2>4, <2>5, <2>9, <2>10
<1> QED
  BY <1>8, <1>9

\* An operation of the network thread: it goes on, or introduces a new source that
\* the renderer has, or changes a setting of the scene.
LEMMA OperationStep ==
  ASSUME PublicationTypes, SubscriptionInv, Operation
  PROVE  /\ PublicationTypes' /\ SubscriptionInv'
         /\ Busy("network") /\ ~ Publishing("network") /\ ~ InLoop("network") /\ ~ InLoop("network")'
         /\ Others("network")
         /\ \/ Resumes /\ UNCHANGED <<scene, renderer, agreed>>
            \/ /\ Resumes /\ renderer' = renderer
               /\ now.what \in Settings /\ now.what \notin ClientIsTold
               /\ SettingSet(scene', scene, now) /\ agreed' = agreed \ {now.what}
            \/ \E id \in Ids : /\ Introduces(id) /\ Grown(renderer', renderer, id)
                               /\ UNCHANGED <<scene, agreed>>
         /\ UNCHANGED <<client, _source_levels, arrays, link, whole_scene, overlapped, locked>>
<1>1. /\ scene \in Replicas /\ renderer \in Replicas /\ whole_scene \in Replicas
      /\ _highest_id \in 0 .. MaxId
      /\ client \in [Clients -> Replicas]
      /\ _source_levels \in [Clients -> SUBSET Ids]
      /\ ThreadsTyped
      /\ locked \in BOOLEAN
      /\ link \in [Clients -> Links]
      /\ requests \in 0 .. MaxRequests /\ turns \in 0 .. MaxTurns
      /\ overlapped \subseteq Clients /\ agreed \subseteq Settings
      /\ Busy("network") => Behind \in Seq(Later)
  BY DEF PublicationTypes
<1>2. Busy("network") /\ "network" \in Threads
  BY DEF Operation, Threads
<1>3. UNCHANGED <<client, _source_levels, arrays, link, whole_scene, overlapped, locked, requests, turns>>
  BY DEF Operation, subscription, bounded
<1>4. PICK call : call = now
  OBVIOUS
<1>5. /\ call.op \in Operations
      /\ new_source \/ set_source_position \/ set_processing_state \/ set_in_scene
  <2>1. CurrentCall("network").op \in Operations
    BY DEF Operation, new_source, set_source_position, set_processing_state, set_in_scene, Operations
  <2> QED
    BY <1>4, <2>1 DEF Operation, now
<1>6. call \in Later
  <2>1. call \in Later \cup AtOnce
    BY <1>1, <1>2, <1>4, LoopParts, FirstCall, ThreadNames DEF now, CurrentCall, Busy
  <2> QED
    BY <1>5, <2>1, OtherParts DEF Operations
<1>7. ~ Publishing("network") /\ ~ InLoop("network") /\ at = 0
  <2>1. ~ Publishing("network")
    BY <1>4, <1>5 DEF now, CurrentCall, Publishing
  <2> QED
    BY <1>1, <1>2, <2>1, Outside DEF SubscriptionInv, at
<1>8. ASSUME NEW calls, calls \in Seq(Later) \/ (\E id \in Ids : Transmits(id, Members, calls)), Instead(calls)
      PROVE  /\ ThreadsTyped' /\ Others("network") /\ ~ InLoop("network")' /\ SubscriptionInv'
             /\ calls \in Seq(Later) => Resumes
             /\ \A id \in Ids : Transmits(id, Members, calls) => Introduces(id)
             /\ (Busy("network") => Behind \in Seq(Later))'
  <2>1. PICK rest \in Seq(Later) : rest = Behind
    BY <1>1, <1>2
  <2>2. calls \o rest \in Seq(CallsOf("network"))
    <3>1. calls \in Seq(Later \cup AtOnce) /\ rest \in Seq(Later \cup AtOnce)
      <4>1. \A s \in Seq(Later) : s \in Seq(Later \cup AtOnce)
        OBVIOUS
      <4>2. calls \in Seq(Later) \/ calls \in Seq(Later \cup AtOnce)
        BY <1>8 DEF Transmits
      <4> QED
        BY <4>1, <4>2
    <3>2. calls \o rest \in Seq(Later \cup AtOnce)
      BY <3>1
    <3> QED
      BY <3>2, ThreadNames
  <2>3. ToDo("network", calls \o rest)
    BY <1>8, <2>1 DEF Instead, Behind
  <2>4. ThreadsTyped' /\ Gets("network", calls \o rest)
    BY <1>1, <1>2, <2>2, <2>3, ToDoChanges
  <2>5. Others("network") /\ ~ InLoop("network")'
    BY <1>7, <2>4 DEF Gets, InLoop
  <2>6. SubscriptionInv'
    BY <1>1, <1>2, <1>3, <1>7, <2>2, <2>3, SubscriptionGets
  <2>7. calls \in Seq(Later) => Resumes
    BY <1>1, <1>2, <1>7, <2>1, <2>4, GetsResumes
  <2>8. \A id \in Ids : Transmits(id, Members, calls) => Introduces(id)
    BY <1>1, <1>2, <1>7, <2>1, <2>4, GetsIntroduces
  <2>9. (Busy("network") => Behind \in Seq(Later))'
    BY <1>8, <2>7, <2>8 DEF Resumes, Introduces
  <2> QED
    BY <2>4, <2>5, <2>6, <2>7, <2>8, <2>9
<1>9. <<>> \in Seq(Later)
  OBVIOUS
<1>10. CASE new_source
  <2>1. _highest_id' \in 0 .. MaxId /\ UNCHANGED <<scene, agreed>>
    BY <1>1, <1>10, BoundsAssumption DEF new_source
  <2>2. \/ renderer' = renderer /\ Instead(<<>>)
        \/ \E id \in Ids : /\ renderer' = WithSource(renderer, id)
                           /\ Instead(Transmission(id, call.value))
    <3>1. _highest_id < MaxId => _highest_id + 1 \in Ids
      BY <1>1, BoundsAssumption DEF Ids
    <3> QED
      BY <1>4, <1>10, <3>1 DEF new_source, now
  <2>3. CASE renderer' = renderer /\ Instead(<<>>)
    <3>1. /\ ThreadsTyped' /\ Others("network") /\ ~ InLoop("network")' /\ SubscriptionInv' /\ Resumes
          /\ (Busy("network") => Behind \in Seq(Later))'
      BY <1>8, <1>9, <2>3
    <3>2. PublicationTypes'
      BY <1>1, <1>3, <2>1, <2>3, <3>1 DEF PublicationTypes
    <3> QED
      BY <1>2, <1>3, <1>7, <2>1, <2>3, <3>1, <3>2
  <2>4. CASE \E id \in Ids : /\ renderer' = WithSource(renderer, id)
                             /\ Instead(Transmission(id, call.value))
    <3>1. PICK id \in Ids : /\ renderer' = WithSource(renderer, id)
                            /\ Instead(Transmission(id, call.value))
      BY <2>4
    <3>2. PICK calls : calls = Transmission(id, call.value)
      OBVIOUS
    <3>3. Transmits(id, Members, calls)
      BY <1>6, <3>2, LaterParts, TransmissionCalls
    <3>4. /\ ThreadsTyped' /\ Others("network") /\ ~ InLoop("network")' /\ SubscriptionInv'
          /\ Introduces(id) /\ (Busy("network") => Behind \in Seq(Later))'
      BY <1>8, <3>1, <3>2, <3>3
    <3>5. renderer' \in Replicas /\ Grown(renderer', renderer, id)
      BY <1>1, <3>1, SourceAdded
    <3>6. PublicationTypes'
      BY <1>1, <1>3, <2>1, <3>4, <3>5 DEF PublicationTypes
    <3> QED
      BY <1>2, <1>3, <1>7, <2>1, <3>4, <3>5, <3>6
  <2> QED
    BY <2>2, <2>3, <2>4
<1>11. CASE set_source_position \/ set_processing_state
  <2>1. UNCHANGED <<scene, renderer, _highest_id, agreed>>
    BY <1>11 DEF set_source_position, set_processing_state
  <2>2. PICK calls \in Seq(Later) : Instead(calls)
    <3>1. CASE set_source_position
      <4>1. call.op = "move" /\ call.id \in Ids /\ call.value \in Values
        BY <1>4, <1>6, <3>1, LaterParts DEF set_source_position, now
      <4>2. PICK x \in Later : x = SetMember(call.id, "position", call.value)
        BY <4>1, CallsAreLater, MembersAssumption
      <4>3. <<x>> \in Seq(Later)
        OBVIOUS
      <4> QED
        BY <1>4, <1>9, <3>1, <4>2, <4>3 DEF set_source_position, now
    <3>2. CASE set_processing_state
      <4>1. PICK state \in Values :
              Instead(IF scene.settings["processing_state"] = state THEN <<>>
                      ELSE <<Call("setting", 0, "processing_state", state)>>)
        BY <3>2 DEF set_processing_state, Values
      <4>2. PICK x \in Later : x = Call("setting", 0, "processing_state", state)
        BY CallsAreLater, SettingsAssumption DEF Setting
      <4>3. <<x>> \in Seq(Later)
        OBVIOUS
      <4> QED
        BY <1>9, <4>1, <4>2, <4>3
    <3> QED
      BY <1>11, <3>1, <3>2
  <2>3. /\ ThreadsTyped' /\ Others("network") /\ ~ InLoop("network")' /\ SubscriptionInv' /\ Resumes
        /\ (Busy("network") => Behind \in Seq(Later))'
    BY <1>8, <2>2
  <2>4. PublicationTypes'
    BY <1>1, <1>3, <2>1, <2>3 DEF PublicationTypes
  <2> QED
    BY <1>2, <1>3, <1>7, <2>1, <2>3, <2>4
<1>12. CASE set_in_scene
  <2>1. /\ call.op = "scene_setting" /\ scene' = WithSetting(scene, call) /\ Instead(<<>>)
        /\ agreed' = agreed \ {call.what} /\ UNCHANGED <<renderer, _highest_id>>
    BY <1>4, <1>12 DEF set_in_scene, now
  <2>2. call.what = "amplitude_reference_distance" /\ call.value \in Values
    BY <1>6, <2>1, LaterParts
  <2>3. call.what \in Settings /\ call.what \notin ClientIsTold
    BY <2>2, SettingsAssumption DEF ClientIsTold
  <2>4. scene' \in Replicas /\ SettingSet(scene', scene, call)
    BY <1>1, <2>1, <2>2, <2>3, SettingChanged
  <2>5. /\ ThreadsTyped' /\ Others("network") /\ ~ InLoop("network")' /\ SubscriptionInv' /\ Resumes
        /\ (Busy("network") => Behind \in Seq(Later))'
    BY <1>8, <1>9, <2>1
  <2>6. PublicationTypes'
    BY <1>1, <1>3, <2>1, <2>4, <2>5 DEF PublicationTypes
  <2> QED
    BY <1>2, <1>3, <1>4, <1>7, <2>1, <2>3, <2>4, <2>5, <2>6
<1> QED
  BY <1>5, <1>10, <1>11, <1>12

LEMMA NothingIsReplica ==
  \A orientation \in Values : Nothing(orientation) \in Replicas
<1>1. ASSUME NEW orientation \in Values PROVE Nothing(orientation) \in Replicas
  <2>1. PICK g : g = [s \in Settings |-> CASE s = "processing_state"      -> 1
                                          [] s = "reference_orientation" -> orientation
                                          [] OTHER                       -> 0]
    OBVIOUS
  <2>2. g \in [Settings -> Values]
    BY <2>1 DEF Values
  <2>3. PICK f : f = [id \in {} |-> Defaults]
    OBVIOUS
  <2>4. {} \in SUBSET Ids /\ f \in [{} -> [Members -> Values]]
    BY <2>3
  <2>5. Replica(f, g) \in Replicas
    BY <2>2, <2>4, ReplicaOf
  <2> QED
    BY <2>1, <2>3, <2>5 DEF Nothing
<1> QED
  BY <1>1

LEMMA RequestStep ==
  ASSUME PublicationTypes, SubscriptionInv, Request
  PROVE  /\ PublicationTypes' /\ SubscriptionInv'
         /\ ~ Busy("network") /\ ~ InLoop("network") /\ ~ InLoop("network")'
         /\ \A c \in Clients : ~ Joining(c)
         /\ Others("network") /\ Resumes
         /\ UNCHANGED <<scene, renderer, client, _source_levels, arrays, link, whole_scene,
                        overlapped, agreed, locked>>
<1>1. /\ scene \in Replicas /\ renderer \in Replicas /\ whole_scene \in Replicas
      /\ _highest_id \in 0 .. MaxId
      /\ client \in [Clients -> Replicas]
      /\ _source_levels \in [Clients -> SUBSET Ids]
      /\ ThreadsTyped
      /\ locked \in BOOLEAN
      /\ link \in [Clients -> Links]
      /\ requests \in 0 .. MaxRequests /\ turns \in 0 .. MaxTurns
      /\ overlapped \subseteq Clients /\ agreed \subseteq Settings
  BY DEF PublicationTypes
<1>2. UNCHANGED <<scene, renderer, _highest_id, client, _source_levels, arrays, link, whole_scene,
                  overlapped, agreed, locked, turns>>
  BY DEF Request, subscription, replicas
<1>3. NetworkIsFree /\ requests' \in 0 .. MaxRequests
  BY <1>1, BoundsAssumption DEF Request
<1>4. /\ ~ Busy("network") /\ ~ InLoop("network") /\ "network" \in Threads
      /\ \A c \in Clients : ~ Joining(c)
  BY <1>1, <1>3, WhenFree DEF Threads
<1>5. PICK req \in Requests :
        ToDo("network", IF req.op \in {"load_scene", "load_nothing"} THEN load_scene(req) ELSE <<req>>)
  BY DEF Request
<1>6. PICK calls : calls = IF req.op \in {"load_scene", "load_nothing"} THEN load_scene(req) ELSE <<req>>
  OBVIOUS
<1>7. calls \in Seq(Later)
  BY <1>6, RequestedCalls
<1>8. calls \in Seq(CallsOf("network")) /\ ToDo("network", calls)
  <2>1. calls \in Seq(Later \cup AtOnce)
    BY <1>7
  <2> QED
    BY <1>5, <1>6, <2>1, ThreadNames
<1>9. ThreadsTyped' /\ Gets("network", calls)
  BY <1>1, <1>4, <1>8, ToDoChanges
<1>10. SubscriptionInv'
  BY <1>1, <1>2, <1>3, <1>4, <1>8, SubscriptionGets
<1>11. Others("network") /\ ~ InLoop("network")' /\ at' = 0 /\ thread'["network"].todo = calls
  <2>1. at = 0
    BY <1>1, <1>4, Outside DEF SubscriptionInv, at
  <2> QED
    BY <1>4, <1>9, <2>1 DEF Gets, InLoop, at
<1>12. Resumes
  BY <1>1, <1>4, <1>7, <1>11, ResumesWith
<1>13. PublicationTypes'
  BY <1>1, <1>2, <1>3, <1>9, <1>12 DEF PublicationTypes, Resumes
<1> QED
  BY <1>2, <1>4, <1>10, <1>11, <1>12, <1>13

\* Connections do not touch what is to be published.
LEMMA ConnectStep ==
  ASSUME PublicationTypes, SubscriptionInv, NEW c \in Clients, Connect(c)
  PROVE  /\ PublicationTypes' /\ SubscriptionInv'
         /\ ~ Busy("network") /\ ~ InLoop("network")
         /\ \A d \in Clients : ~ Joining(d)
         /\ link[c] = "none" /\ link'[c] = "subscribed"
         /\ \A d \in Clients \ {c} : link'[d] = link[d]
         /\ overlapped \subseteq overlapped'
         /\ \A n \in 1 .. Len(arrays), d \in Clients, k \in Nat :
              k <= Len(arrays[n]) /\ IsIn(d, arrays'[n], k) => IsIn(d, arrays[n], k)
         /\ UNCHANGED <<scene, renderer, client, _source_levels, thread, whole_scene, agreed, locked>>
<1>1. /\ scene \in Replicas /\ renderer \in Replicas /\ whole_scene \in Replicas
      /\ _highest_id \in 0 .. MaxId
      /\ client \in [Clients -> Replicas]
      /\ _source_levels \in [Clients -> SUBSET Ids]
      /\ ThreadsTyped
      /\ locked \in BOOLEAN
      /\ link \in [Clients -> Links]
      /\ requests \in 0 .. MaxRequests /\ turns \in 0 .. MaxTurns
      /\ overlapped \subseteq Clients /\ agreed \subseteq Settings
      /\ Busy("network") => Behind \in Seq(Later)
  BY DEF PublicationTypes
<1>2. /\ ~ Busy("network") /\ ~ InLoop("network")
      /\ \A d \in Clients : ~ Joining(d)
  BY <1>1, WhenFree DEF Connect
<1>3. UNCHANGED <<scene, renderer, _highest_id, client, _source_levels, thread, whole_scene,
                  agreed, locked, requests, turns>>
  BY DEF Connect, replicas, bounded
<1>4. /\ link[c] = "none" /\ link'[c] = "subscribed" /\ link' \in [Clients -> Links]
      /\ \A d \in Clients \ {c} : link'[d] = link[d]
  BY <1>1 DEF Connect, Links
<1>5. overlapped \subseteq overlapped' /\ overlapped' \subseteq Clients
  BY <1>1 DEF Connect, subscribe
<1>6. SubscriptionInv'
  BY <1>1, SubscriptionConnects
<1>7. ASSUME NEW n \in 1 .. Len(arrays), NEW d \in Clients, NEW k \in Nat,
             k <= Len(arrays[n]), IsIn(d, arrays'[n], k)
      PROVE  IsIn(d, arrays[n], k)
  <2>1. PICK i \in 1 .. k : arrays'[n][i] = d
    BY <1>7 DEF IsIn
  <2>2. PICK l \in Nat \ {0}, s \in Seq(Subscribers) : l = Len(arrays) /\ s = arrays[l] /\ s = _subscribers
    BY ArraysParts DEF SubscriptionInv
  <2>3. arrays \in Seq(Seq(Subscribers)) /\ Len(arrays[n]) \in Nat
    BY ArraysParts DEF SubscriptionInv, ArraysInv
  <2>4. \/ arrays' = Append(arrays, Append(s, c))
        \/ arrays' = [arrays EXCEPT ![l] = Append(s, c)]
    BY <2>2 DEF Connect, subscribe
  <2>5. arrays'[n] = arrays[n] \/ (arrays'[n] = Append(s, c) /\ arrays[n] = s)
    <3>1. PICK T : T = Append(s, c)
      OBVIOUS
    <3>2. CASE arrays' = Append(arrays, T)
      BY <2>2, <2>3, <3>2
    <3>3. CASE arrays' = [arrays EXCEPT ![l] = T]
      <4>1. n \in DOMAIN arrays
        BY <2>3
      <4> QED
        BY <2>2, <3>1, <3>3, <4>1
    <3> QED
      BY <2>4, <3>1, <3>2, <3>3
  <2>6. \A j \in 1 .. Len(s) : Append(s, c)[j] = s[j]
    OBVIOUS
  <2>7. i \in 1 .. Len(arrays[n])
    BY <1>7, <2>1, <2>3
  <2>8. arrays'[n][i] = arrays[n][i]
    BY <2>5, <2>6, <2>7
  <2> QED
    BY <2>1, <2>8 DEF IsIn
<1>8. (Busy("network") => Behind \in Seq(Later))' /\ ThreadsTyped'
  BY <1>1, <1>3, OthersKeepBehind DEF ThreadsTyped
<1>9. PublicationTypes'
  BY <1>1, <1>3, <1>4, <1>5, <1>8 DEF PublicationTypes
<1> QED
  BY <1>2, <1>3, <1>4, <1>5, <1>6, <1>7, <1>9

LEMMA ReadStep ==
  ASSUME PublicationTypes, SubscriptionInv, NEW c \in Clients, get_scene_as_XML(c)
  PROVE  /\ PublicationTypes' /\ SubscriptionInv'
         /\ link[c] = "subscribed" /\ link'[c] = "reading"
         /\ \A d \in Clients \ {c} : link'[d] = link[d]
         /\ whole_scene' = scene
         /\ UNCHANGED <<scene, renderer, client, _source_levels, arrays, thread, overlapped,
                        agreed, locked>>
<1>1. /\ scene \in Replicas /\ renderer \in Replicas /\ whole_scene \in Replicas
      /\ _highest_id \in 0 .. MaxId
      /\ client \in [Clients -> Replicas]
      /\ _source_levels \in [Clients -> SUBSET Ids]
      /\ ThreadsTyped
      /\ locked \in BOOLEAN
      /\ link \in [Clients -> Links]
      /\ requests \in 0 .. MaxRequests /\ turns \in 0 .. MaxTurns
      /\ overlapped \subseteq Clients /\ agreed \subseteq Settings
      /\ Busy("network") => Behind \in Seq(Later)
  BY DEF PublicationTypes
<1>2. UNCHANGED <<scene, renderer, _highest_id, client, _source_levels, arrays, thread, overlapped,
                  agreed, locked, requests, turns>> /\ whole_scene' = scene
  BY DEF get_scene_as_XML, replicas, bounded
<1>3. /\ link[c] = "subscribed" /\ link'[c] = "reading" /\ link' \in [Clients -> Links]
      /\ \A d \in Clients \ {c} : link'[d] = link[d]
  BY <1>1 DEF get_scene_as_XML, Links
<1>4. SubscriptionInv'
  BY <1>1, SubscriptionReads
<1>5. (Busy("network") => Behind \in Seq(Later))' /\ ThreadsTyped'
  BY <1>1, <1>2, OthersKeepBehind DEF ThreadsTyped
<1>6. PublicationTypes'
  BY <1>1, <1>2, <1>3, <1>5 DEF PublicationTypes
<1> QED
  BY <1>2, <1>3, <1>4, <1>6

\* The client has the sources that were read, as they were read, and perhaps others.
LEMMA WriteStep ==
  ASSUME PublicationTypes, SubscriptionInv, NEW c \in Clients, WriteScene(c)
  PROVE  /\ PublicationTypes' /\ SubscriptionInv'
         /\ link[c] = "reading" /\ link'[c] = "up"
         /\ \A d \in Clients \ {c} : link'[d] = link[d] /\ client'[d] = client[d]
         /\ Sources(whole_scene) \subseteq Sources(client'[c])
         /\ \A id \in Sources(whole_scene) : client'[c].sources[id] = whole_scene.sources[id]
         /\ client'[c].settings = whole_scene.settings
         /\ overlapped \subseteq overlapped'
         /\ UNCHANGED <<scene, renderer, _source_levels, arrays, thread, agreed, locked>>
<1>1. /\ scene \in Replicas /\ renderer \in Replicas /\ whole_scene \in Replicas
      /\ _highest_id \in 0 .. MaxId
      /\ client \in [Clients -> Replicas]
      /\ _source_levels \in [Clients -> SUBSET Ids]
      /\ ThreadsTyped
      /\ locked \in BOOLEAN
      /\ link \in [Clients -> Links]
      /\ requests \in 0 .. MaxRequests /\ turns \in 0 .. MaxTurns
      /\ overlapped \subseteq Clients /\ agreed \subseteq Settings
      /\ Busy("network") => Behind \in Seq(Later)
  BY DEF PublicationTypes
<1>2. UNCHANGED <<scene, renderer, _highest_id, _source_levels, arrays, thread,
                  agreed, locked, requests, turns>> /\ whole_scene' = Nothing(0)
  BY DEF WriteScene, bounded
<1>3. /\ link[c] = "reading" /\ link'[c] = "up" /\ link' \in [Clients -> Links]
      /\ \A d \in Clients \ {c} : link'[d] = link[d]
  BY <1>1 DEF WriteScene, Links
<1>4. overlapped \subseteq overlapped' /\ overlapped' \subseteq Clients
  BY <1>1 DEF WriteScene
<1>5. SubscriptionInv'
  BY <1>1, SubscriptionReads
<1>6. PICK w \in Replicas, old \in Replicas : w = whole_scene /\ old = client[c]
  BY <1>1
<1>7. PICK f : f = [id \in Sources(w) \cup Sources(old) |->
                      IF id \in Sources(w) THEN w.sources[id] ELSE old.sources[id]]
  OBVIOUS
<1>8. /\ Sources(w) \cup Sources(old) \in SUBSET Ids
      /\ f \in [Sources(w) \cup Sources(old) -> [Members -> Values]]
      /\ w.settings \in [Settings -> Values]
  BY <1>7, ReplicaParts
<1>9. PICK q \in Replicas : q = Replica(f, w.settings)
  BY <1>8, ReplicaOf
<1>10. q.sources = f /\ q.settings = w.settings
  BY <1>9 DEF Replica
<1>11. client' = [client EXCEPT ![c] = q]
  <2>1. client' = [client EXCEPT ![c] =
          Replica([id \in Sources(whole_scene) \cup Sources(client[c]) |->
                     IF id \in Sources(whole_scene) THEN whole_scene.sources[id]
                     ELSE client[c].sources[id]],
                  whole_scene.settings)]
    BY <1>1 DEF WriteScene, Sources
  <2> QED
    BY <1>6, <1>7, <1>9, <2>1
<1>12. /\ client' \in [Clients -> Replicas] /\ client'[c] = q
       /\ \A d \in Clients \ {c} : client'[d] = client[d]
  BY <1>1, <1>11
<1>13. Nothing(0) \in Replicas
  BY NothingIsReplica DEF Values
<1>14. (Busy("network") => Behind \in Seq(Later))' /\ ThreadsTyped'
  BY <1>1, <1>2, OthersKeepBehind DEF ThreadsTyped
<1>15. PublicationTypes'
  BY <1>1, <1>2, <1>3, <1>4, <1>12, <1>13, <1>14 DEF PublicationTypes
<1>16. Sources(q) = Sources(w) \cup Sources(old) /\ \A id \in Sources(w) : q.sources[id] = w.sources[id]
  BY <1>7, <1>10 DEF Sources
<1> QED
  BY <1>2, <1>3, <1>4, <1>5, <1>6, <1>10, <1>12, <1>15, <1>16

LEMMA DisconnectStep ==
  ASSUME PublicationTypes, SubscriptionInv, NEW c \in Clients, Disconnect(c)
  PROVE  /\ PublicationTypes' /\ SubscriptionInv'
         /\ ~ Busy("network") /\ ~ InLoop("network")
         /\ \A d \in Clients : ~ Joining(d)
         /\ link[c] = "up" /\ link'[c] = "gone"
         /\ \A d \in Clients \ {c} : link'[d] = link[d]
         /\ overlapped \subseteq overlapped'
         /\ \A t \in Threads : InLoop(t) => overlapped' = Clients
         /\ UNCHANGED <<scene, renderer, client, _source_levels, thread, whole_scene, agreed, locked>>
<1>1. /\ scene \in Replicas /\ renderer \in Replicas /\ whole_scene \in Replicas
      /\ _highest_id \in 0 .. MaxId
      /\ client \in [Clients -> Replicas]
      /\ _source_levels \in [Clients -> SUBSET Ids]
      /\ ThreadsTyped
      /\ locked \in BOOLEAN
      /\ link \in [Clients -> Links]
      /\ requests \in 0 .. MaxRequests /\ turns \in 0 .. MaxTurns
      /\ overlapped \subseteq Clients /\ agreed \subseteq Settings
      /\ Busy("network") => Behind \in Seq(Later)
  BY DEF PublicationTypes
<1>2. /\ ~ Busy("network") /\ ~ InLoop("network")
      /\ \A d \in Clients : ~ Joining(d)
      /\ \A t \in Threads : InLoop(t) => OthersInLoop
  BY <1>1, WhenFree DEF Disconnect
<1>3. UNCHANGED <<scene, renderer, _highest_id, client, _source_levels, thread, whole_scene,
                  agreed, locked, requests, turns>>
  BY DEF Disconnect, replicas, bounded
<1>4. /\ link[c] = "up" /\ link'[c] = "gone" /\ link' \in [Clients -> Links]
      /\ \A d \in Clients \ {c} : link'[d] = link[d]
  BY <1>1 DEF Disconnect, Links
<1>5. /\ overlapped \subseteq overlapped' /\ overlapped' \subseteq Clients
      /\ \A t \in Threads : InLoop(t) => overlapped' = Clients
  BY <1>1, <1>2 DEF Disconnect
<1>6. SubscriptionInv'
  BY <1>1, SubscriptionDisconnects
<1>7. (Busy("network") => Behind \in Seq(Later))' /\ ThreadsTyped'
  BY <1>1, <1>3, OthersKeepBehind DEF ThreadsTyped
<1>8. PublicationTypes'
  BY <1>1, <1>3, <1>4, <1>5, <1>7 DEF PublicationTypes
<1> QED
  BY <1>2, <1>3, <1>4, <1>5, <1>6, <1>8

LEMMA TurnStep ==
  ASSUME PublicationTypes, SubscriptionInv, set_reference_orientation
  PROVE  /\ PublicationTypes' /\ SubscriptionInv'
         /\ Others("tracker") /\ ~ InLoop("tracker") /\ ~ InLoop("tracker")'
         /\ UNCHANGED <<scene, renderer, client, _source_levels, arrays, link, whole_scene,
                        overlapped, agreed, locked>>
<1>1. /\ scene \in Replicas /\ renderer \in Replicas /\ whole_scene \in Replicas
      /\ _highest_id \in 0 .. MaxId
      /\ client \in [Clients -> Replicas]
      /\ _source_levels \in [Clients -> SUBSET Ids]
      /\ ThreadsTyped
      /\ locked \in BOOLEAN
      /\ link \in [Clients -> Links]
      /\ requests \in 0 .. MaxRequests /\ turns \in 0 .. MaxTurns
      /\ overlapped \subseteq Clients /\ agreed \subseteq Settings
      /\ Busy("network") => Behind \in Seq(Later)
  BY DEF PublicationTypes
<1>2. UNCHANGED <<scene, renderer, _highest_id, client, _source_levels, arrays, link, whole_scene,
                  overlapped, agreed, locked, requests>>
  BY DEF set_reference_orientation, subscription, replicas
<1>3. "tracker" \in Threads /\ ~ Busy("tracker") /\ ~ InLoop("tracker")
  BY <1>1, Outside DEF Threads, set_reference_orientation, SubscriptionInv
<1>4. turns' \in 0 .. MaxTurns
  BY <1>1, BoundsAssumption DEF set_reference_orientation
<1>5. PICK value \in Orientations : ToDo("tracker", <<Setting("reference_orientation", value)>>)
  BY DEF set_reference_orientation
<1>6. PICK call \in Turns : call = Setting("reference_orientation", value)
  BY OrientationsAssumption DEF Setting, Call, Turns, Asked, Values
<1>7. <<call>> \in Seq(CallsOf("tracker")) /\ ToDo("tracker", <<call>>)
  BY <1>5, <1>6, ThreadNames
<1>8. ThreadsTyped' /\ Gets("tracker", <<call>>)
  BY <1>1, <1>3, <1>7, ToDoChanges
<1>9. SubscriptionInv'
  BY <1>1, <1>2, <1>3, <1>7, SubscriptionGets
<1>10. Others("tracker") /\ ~ InLoop("tracker")'
  BY <1>3, <1>8 DEF Gets, InLoop
<1>11. (Busy("network") => Behind \in Seq(Later))'
  BY <1>1, <1>10, OthersKeepBehind DEF Others, Threads
<1>12. PublicationTypes'
  BY <1>1, <1>2, <1>4, <1>8, <1>11 DEF PublicationTypes
<1> QED
  BY <1>2, <1>3, <1>9, <1>10, <1>12

\* The levels that are published under the lock are those of sources that exist.
LEMMA UpdateStep ==
  ASSUME PublicationTypes, SubscriptionInv, update
  PROVE  /\ PublicationTypes' /\ SubscriptionInv'
         /\ Others("query") /\ ~ InLoop("query") /\ ~ InLoop("query")'
         /\ locked'
         /\ \A k \in DOMAIN thread'["query"].todo : thread'["query"].todo[k].id \in Sources(renderer)
         /\ UNCHANGED <<scene, renderer, client, _source_levels, arrays, link, whole_scene,
                        overlapped, agreed>>
<1>1. /\ scene \in Replicas /\ renderer \in Replicas /\ whole_scene \in Replicas
      /\ _highest_id \in 0 .. MaxId
      /\ client \in [Clients -> Replicas]
      /\ _source_levels \in [Clients -> SUBSET Ids]
      /\ ThreadsTyped
      /\ locked \in BOOLEAN
      /\ link \in [Clients -> Links]
      /\ requests \in 0 .. MaxRequests /\ turns \in 0 .. MaxTurns
      /\ overlapped \subseteq Clients /\ agreed \subseteq Settings
      /\ Busy("network") => Behind \in Seq(Later)
  BY DEF PublicationTypes
<1>2. UNCHANGED <<scene, renderer, _highest_id, client, _source_levels, arrays, link, whole_scene,
                  overlapped, agreed, requests, turns>> /\ locked' = TRUE
  BY DEF update, subscription, replicas, bounded
<1>3. "query" \in Threads /\ ~ Busy("query") /\ ~ InLoop("query")
  BY <1>1, Outside DEF Threads, update, SubscriptionInv
<1>4. PICK ids \in SUBSET Ids : ids = Sources(renderer)
  BY <1>1, ReplicaParts
<1>5. PICK n \in Nat : n = Cardinality(ids)
  <2>1. IsFiniteSet(1 .. MaxId)
    <3>1. PICK a \in Int, b \in Int : a = 1 /\ b = MaxId
      BY BoundsAssumption
    <3> QED
      BY <3>1, FS_Interval
  <2>2. IsFiniteSet(ids)
    BY <2>1, FS_Subset DEF Ids
  <2> QED
    BY <2>2, FS_CardinalityType
<1>6. PICK calls : calls = [k \in 1 .. n |-> Call("level", Nth(ids, k), "", 0)]
  OBVIOUS
<1>7. ASSUME NEW k \in 1 .. n
      PROVE  calls[k] \in Levels /\ calls[k].id \in ids
  <2>1. PICK id \in ids : id = Nth(ids, k)
    BY <1>5, NthIsElement
  <2>2. PICK call : call = [op |-> "level", id |-> id, what |-> "", value |-> 0]
    OBVIOUS
  <2>3. calls[k] = call
    BY <1>6, <2>1, <2>2 DEF Call
  <2>4. id \in Ids /\ 0 \in Values
    BY DEF Values
  <2>5. call \in Levels /\ call.id = id
    BY <2>2, <2>4 DEF Levels, Asked
  <2> QED
    BY <2>3, <2>5
<1>8. calls \in Seq(CallsOf("query")) /\ DOMAIN calls = 1 .. n
  <2>1. calls \in [1 .. n -> Levels]
    BY <1>6, <1>7
  <2>2. calls \in Seq(Levels)
    BY <2>1
  <2> QED
    BY <1>6, <2>2, ThreadNames
<1>9. ToDo("query", calls)
  <2>1. ToDo("query", [k \in 1 .. Cardinality(Sources(renderer)) |->
                         Call("level", Nth(Sources(renderer), k), "", 0)])
    BY Zenon DEF update, Sources
  <2> QED
    BY <1>4, <1>5, <1>6, <2>1
<1>10. ThreadsTyped' /\ Gets("query", calls)
  BY <1>1, <1>3, <1>8, <1>9, ToDoChanges
<1>11. SubscriptionInv'
  BY <1>1, <1>2, <1>3, <1>8, <1>9, SubscriptionGets
<1>12. Others("query") /\ ~ InLoop("query")' /\ thread'["query"].todo = calls
  BY <1>3, <1>10 DEF Gets, InLoop
<1>13. (Busy("network") => Behind \in Seq(Later))'
  BY <1>1, <1>12, OthersKeepBehind DEF Others, Threads
<1>14. PublicationTypes'
  BY <1>1, <1>2, <1>10, <1>13 DEF PublicationTypes
<1>15. \A k \in DOMAIN thread'["query"].todo : thread'["query"].todo[k].id \in Sources(renderer)
  BY <1>4, <1>7, <1>8, <1>12
<1> QED
  BY <1>2, <1>3, <1>11, <1>12, <1>14, <1>15

LEMMA UnlockStep ==
  ASSUME PublicationTypes, SubscriptionInv, Unlock
  PROVE  /\ PublicationTypes' /\ SubscriptionInv'
         /\ ~ Busy("query")
         /\ UNCHANGED <<scene, renderer, client, _source_levels, arrays, link, whole_scene, thread,
                        overlapped, agreed>>
<1>1. /\ scene \in Replicas /\ renderer \in Replicas /\ whole_scene \in Replicas
      /\ _highest_id \in 0 .. MaxId
      /\ client \in [Clients -> Replicas]
      /\ _source_levels \in [Clients -> SUBSET Ids]
      /\ ThreadsTyped
      /\ locked \in BOOLEAN
      /\ link \in [Clients -> Links]
      /\ requests \in 0 .. MaxRequests /\ turns \in 0 .. MaxTurns
      /\ overlapped \subseteq Clients /\ agreed \subseteq Settings
      /\ Busy("network") => Behind \in Seq(Later)
  BY DEF PublicationTypes
<1>2. /\ UNCHANGED <<scene, renderer, _highest_id, client, _source_levels, arrays, link, whole_scene,
                     overlapped, agreed, thread, requests, turns>>
      /\ locked' = FALSE /\ ~ Busy("query")
  BY DEF Unlock, subscription, replicas, bounded
<1>3. SubscriptionInv'
  BY <1>2, SubscriptionStays DEF Live, Joining
<1>4. (Busy("network") => Behind \in Seq(Later))' /\ ThreadsTyped'
  BY <1>1, <1>2, OthersKeepBehind DEF ThreadsTyped
<1>5. PublicationTypes'
  BY <1>1, <1>2, <1>4 DEF PublicationTypes
<1> QED
  BY <1>2, <1>3, <1>5

------------------------------------------------------------------------------
(* What the other threads do meanwhile                                     *)

LEMMA OtherThread ==
  ASSUME NEW u \in Threads, thread'[u] = thread[u]
  PROVE  /\ InLoop(u)' = InLoop(u) /\ Busy(u)' = Busy(u) /\ Publishing(u)' = Publishing(u)
         /\ CurrentCall(u)' = CurrentCall(u)
         /\ \A s : Sets(u, s)' = Sets(u, s)
         /\ arrays' = arrays => \A c : Told(u, c)' = Told(u, c)
BY DEF InLoop, Busy, Publishing, CurrentCall, Sets, Told, IsIn

LEMMA NetworkStands ==
  ASSUME thread'["network"] = thread["network"]
  PROVE  /\ now' = now /\ at' = at /\ Behind' = Behind
         /\ \A op : Now(op)' = Now(op)
         /\ \A id : Between(id)' = Between(id)
<1>1. now' = now /\ at' = at /\ Behind' = Behind /\ Busy("network")' = Busy("network")
  BY DEF now, at, Behind, Busy, CurrentCall
<1>2. ASSUME NEW op PROVE Now(op)' = Now(op)
  BY <1>1 DEF Now, now
<1> QED
  BY <1>1, <1>2 DEF Between

\* A thread that begins its loop or goes on in it has the same call as before.
LEMMA SameCall ==
  ASSUME NEW t \in Threads, Begins(t) \/ Goes(t)
  PROVE  /\ CurrentCall(t)' = CurrentCall(t) /\ Busy(t)' = Busy(t)
         /\ Publishing(t)' = Publishing(t)
BY DEF Begins, Goes, CurrentCall, Busy, Publishing

LEMMA SameNow ==
  ASSUME Begins("network") \/ Goes("network")
  PROVE  /\ now' = now /\ Behind' = Behind /\ Busy("network")' = Busy("network")
         /\ \A op : Now(op)' = Now(op)
<1>1. /\ now' = now /\ Behind' = Behind /\ Busy("network")' = Busy("network")
  BY DEF Begins, Goes, now, CurrentCall, Busy, Behind
<1>2. ASSUME NEW op PROVE Now(op)' = Now(op)
  BY <1>1 DEF Now, now
<1> QED
  BY <1>1, <1>2

------------------------------------------------------------------------------
(* The settings of the scene and the renderer                              *)

LEMMA SettingsKept ==
  ASSUME SettingsInv, agreed' \subseteq agreed,
         \A s \in agreed' : /\ scene'.settings[s] = scene.settings[s]
                            /\ renderer'.settings[s] = renderer.settings[s],
         \A u \in Threads, s \in agreed' :
           /\ Sets(u, s)' => /\ Sets(u, s) /\ CurrentCall(u)' = CurrentCall(u)
                             /\ thread'[u].next >= 2 => thread[u].next >= 2
           /\ Sets(u, s) /\ thread[u].next <= 2 => Sets(u, s)' /\ thread'[u].next <= 2
  PROVE  SettingsInv'
<1>1. ASSUME NEW s \in agreed'
      PROVE  /\ \A t, u \in Threads : Sets(t, s)' /\ Sets(u, s)' => t = u
             /\ \A t \in Threads : Sets(t, s)' /\ thread'[t].next >= 2
                  => scene'.settings[s] = CurrentCall(t)'.value
             /\ s \in RendererUses =>
                  \/ renderer'.settings[s] = scene'.settings[s]
                  \/ \E t \in Threads : Sets(t, s)' /\ thread'[t].next <= 2
  <2>1. s \in agreed
    OBVIOUS
  <2>2. \A t, u \in Threads : Sets(t, s)' /\ Sets(u, s)' => t = u
    BY <2>1 DEF SettingsInv
  <2>3. \A t \in Threads : Sets(t, s)' /\ thread'[t].next >= 2
          => scene'.settings[s] = CurrentCall(t)'.value
    BY <2>1 DEF SettingsInv
  <2>4. s \in RendererUses =>
          \/ renderer'.settings[s] = scene'.settings[s]
          \/ \E t \in Threads : Sets(t, s)' /\ thread'[t].next <= 2
    BY <2>1 DEF SettingsInv
  <2> QED
    BY <2>2, <2>3, <2>4
<1> QED
  BY <1>1 DEF SettingsInv

\* Threads that are not in their loops set nothing.
LEMMA SettingsRest ==
  ASSUME SettingsInv, agreed' \subseteq agreed,
         \A s \in agreed' : /\ scene'.settings[s] = scene.settings[s]
                            /\ renderer'.settings[s] = renderer.settings[s],
         \A u \in Threads : thread'[u] = thread[u] \/ (~ InLoop(u) /\ ~ InLoop(u)')
  PROVE  SettingsInv'
<1>1. ASSUME NEW u \in Threads, NEW s
      PROVE  /\ Sets(u, s)' => /\ Sets(u, s) /\ CurrentCall(u)' = CurrentCall(u)
                               /\ thread'[u].next >= 2 => thread[u].next >= 2
             /\ Sets(u, s) /\ thread[u].next <= 2 => Sets(u, s)' /\ thread'[u].next <= 2
  <2>1. CASE thread'[u] = thread[u]
    BY <2>1, OtherThread
  <2>2. CASE ~ InLoop(u) /\ ~ InLoop(u)'
    BY <2>2 DEF Sets
  <2> QED
    BY <2>1, <2>2
<1> QED
  BY <1>1, SettingsKept

LEMMA SettingsBegin ==
  ASSUME PublicationTypes, ArraysInv, SettingsInv, NEW t \in Threads, BeginLoop(t)
  PROVE  SettingsInv'
<1>1. PICK call : call = CurrentCall(t)
  OBVIOUS
<1>2. /\ Begins(t) /\ Publishing(t) /\ ~ InLoop(t)
      /\ UNCHANGED <<scene, renderer>>
      /\ agreed' \subseteq agreed \cup {call.what}
      /\ call.op # "setting" => agreed' = agreed
      /\ call.op = "setting" /\ call.what \in agreed' =>
           \A u \in Threads : InLoop(u) => CurrentCall(u).what # call.what
  BY <1>1, BeginStep
<1>3. /\ \A s : ~ Sets(t, s)
      /\ \A s : Sets(t, s)' => call.op = "setting" /\ call.what = s
      /\ CurrentCall(t)' = call /\ thread'[t].next = 1
      /\ call.op = "setting" => Sets(t, call.what)'
  <2>1. CurrentCall(t)' = call /\ thread'[t].next = 1
    BY <1>1, <1>2, SameCall DEF Begins
  <2> QED
    BY <1>2, <2>1 DEF Sets, InLoop
<1>4. ASSUME NEW u \in Threads, u # t
      PROVE  /\ \A s : Sets(u, s)' = Sets(u, s)
             /\ CurrentCall(u)' = CurrentCall(u) /\ thread'[u].next = thread[u].next
  BY <1>2, <1>4, OtherThread DEF Begins, Others
<1>5. ASSUME NEW s \in agreed'
      PROVE  /\ \A v, u \in Threads : Sets(v, s)' /\ Sets(u, s)' => v = u
             /\ \A v \in Threads : Sets(v, s)' /\ thread'[v].next >= 2
                  => scene'.settings[s] = CurrentCall(v)'.value
             /\ s \in RendererUses =>
                  \/ renderer'.settings[s] = scene'.settings[s]
                  \/ \E v \in Threads : Sets(v, s)' /\ thread'[v].next <= 2
  <2>1. CASE call.op = "setting" /\ call.what = s
    <3>1. \A u \in Threads : ~ Sets(u, s)
      BY <1>2, <2>1 DEF Sets
    <3>2. \A u \in Threads : Sets(u, s)' => u = t
      BY <1>4, <3>1
    <3>3. Sets(t, s)' /\ thread'[t].next <= 2 /\ ~ (thread'[t].next >= 2)
      BY <1>3, <2>1
    <3> QED
      BY <3>2, <3>3
  <2>2. CASE ~ (call.op = "setting" /\ call.what = s)
    <3>1. s \in agreed
      BY <1>2, <2>2
    <3>2. ~ Sets(t, s) /\ ~ Sets(t, s)'
      BY <1>3, <2>2
    <3>3. ASSUME NEW u \in Threads
          PROVE  /\ Sets(u, s)' <=> Sets(u, s)
                 /\ Sets(u, s) => /\ CurrentCall(u)' = CurrentCall(u)
                                  /\ thread'[u].next = thread[u].next
      <4>1. CASE u = t
        BY <3>2, <4>1
      <4>2. CASE u # t
        BY <1>4, <4>2
      <4> QED
        BY <4>1, <4>2
    <3>4. \A v, u \in Threads : Sets(v, s) /\ Sets(u, s) => v = u
      BY <3>1 DEF SettingsInv
    <3>5. \A v \in Threads : Sets(v, s) /\ thread[v].next >= 2
            => scene.settings[s] = CurrentCall(v).value
      BY <3>1 DEF SettingsInv
    <3>6. s \in RendererUses =>
            \/ renderer.settings[s] = scene.settings[s]
            \/ \E v \in Threads : Sets(v, s) /\ thread[v].next <= 2
      BY <3>1 DEF SettingsInv
    <3>7. scene'.settings[s] = scene.settings[s] /\ renderer'.settings[s] = renderer.settings[s]
      BY <1>2
    <3> QED
      BY <3>3, <3>4, <3>5, <3>6, <3>7
  <2> QED
    BY <2>1, <2>2
<1> QED
  BY <1>5 DEF SettingsInv

LEMMA SettingsToScene ==
  ASSUME PublicationTypes, SubscriptionInv, SettingsInv, NEW t \in Threads, ToScene(t)
  PROVE  SettingsInv'
<1>1. PICK call : call = CurrentCall(t)
  OBVIOUS
<1>2. /\ Publishing(t) /\ InLoop(t) /\ thread[t].next = 1 /\ Goes(t)
      /\ Changes(scene', scene, call)
      /\ UNCHANGED <<renderer, agreed>>
  BY <1>1, SceneStep
<1>3. CurrentCall(t)' = call /\ thread'[t].next = 2
  BY <1>1, <1>2, SameCall DEF Goes
<1>4. ASSUME NEW s PROVE Sets(t, s)' <=> Sets(t, s)
  BY <1>1, <1>2, <1>3 DEF Sets, InLoop
<1>5. ASSUME NEW u \in Threads, u # t
      PROVE  /\ \A s : Sets(u, s)' <=> Sets(u, s)
             /\ CurrentCall(u)' = CurrentCall(u) /\ thread'[u].next = thread[u].next
  BY <1>2, <1>5, OtherThread DEF Goes, Others
<1>6. /\ ThreadsTyped /\ agreed \subseteq Settings
      /\ call.op \in {"new_source", "delete_source", "delete_all_sources", "member", "setting", "level"}
  BY <1>1, <1>2, PublishedCall DEF PublicationTypes
<1>7. \A s \in Settings : scene'.settings[s] = IF call.op = "setting" /\ call.what = s THEN call.value
                                               ELSE scene.settings[s]
  BY <1>2, <1>6 DEF Changes, Grown, Shrunk, MemberSet, SettingSet
<1>8. ASSUME NEW s \in agreed
      PROVE  /\ \A v, u \in Threads : Sets(v, s)' /\ Sets(u, s)' => v = u
             /\ \A v \in Threads : Sets(v, s)' /\ thread'[v].next >= 2
                  => scene'.settings[s] = CurrentCall(v)'.value
             /\ s \in RendererUses =>
                  \/ renderer'.settings[s] = scene'.settings[s]
                  \/ \E v \in Threads : Sets(v, s)' /\ thread'[v].next <= 2
  <2>1. \A v \in Threads : Sets(v, s)' <=> Sets(v, s)
    BY <1>4, <1>5
  <2>2. \A v, u \in Threads : Sets(v, s) /\ Sets(u, s) => v = u
    BY DEF SettingsInv
  <2>3. s \in Settings
    BY <1>6
  <2>4. CASE call.op = "setting" /\ call.what = s
    <3>1. Sets(t, s) /\ scene'.settings[s] = call.value
      BY <1>1, <1>2, <1>7, <2>3, <2>4 DEF Sets
    <3>2. \A v \in Threads : Sets(v, s)' => v = t
      BY <2>1, <2>2, <3>1
    <3>3. Sets(t, s)' /\ thread'[t].next <= 2
      BY <1>3, <2>1, <3>1
    <3> QED
      BY <1>3, <3>1, <3>2, <3>3
  <2>5. CASE ~ (call.op = "setting" /\ call.what = s)
    <3>1. ~ Sets(t, s) /\ scene'.settings[s] = scene.settings[s]
      BY <1>1, <1>7, <2>3, <2>5 DEF Sets
    <3>2. ASSUME NEW v \in Threads, Sets(v, s)
          PROVE  CurrentCall(v)' = CurrentCall(v) /\ thread'[v].next = thread[v].next
      BY <1>5, <3>1, <3>2
    <3>3. \A v \in Threads : Sets(v, s) /\ thread[v].next >= 2
            => scene.settings[s] = CurrentCall(v).value
      BY DEF SettingsInv
    <3>4. s \in RendererUses =>
            \/ renderer.settings[s] = scene.settings[s]
            \/ \E v \in Threads : Sets(v, s) /\ thread[v].next <= 2
      BY DEF SettingsInv
    <3> QED
      BY <1>2, <2>1, <2>2, <3>1, <3>2, <3>3, <3>4
  <2> QED
    BY <2>4, <2>5
<1> QED
  BY <1>2, <1>8 DEF SettingsInv

LEMMA SettingsToRenderer ==
  ASSUME PublicationTypes, SubscriptionInv, SettingsInv, NEW t \in Threads, ToRenderer(t)
  PROVE  SettingsInv'
<1>1. PICK call : call = CurrentCall(t)
  OBVIOUS
<1>2. /\ Publishing(t) /\ InLoop(t) /\ thread[t].next = 2
      /\ \/ thread' = thread /\ RemovesOne(call)
         \/ (Goes(t) \/ Ends(t)) /\ Follows(call)
      /\ UNCHANGED <<scene, agreed>>
  BY <1>1, RendererStep
<1>3. /\ ThreadsTyped /\ agreed \subseteq Settings
      /\ call.op \in {"new_source", "delete_source", "delete_all_sources", "member", "setting", "level"}
  BY <1>1, <1>2, PublishedCall DEF PublicationTypes
<1>4. CASE thread' = thread /\ RemovesOne(call)
  <2>1. renderer'.settings = renderer.settings
    BY <1>4 DEF RemovesOne, Shrunk
  <2> QED
    BY <1>2, <1>4, <2>1, SettingsRest
<1>5. CASE (Goes(t) \/ Ends(t)) /\ Follows(call)
  <2>1. ASSUME NEW s, Sets(t, s)'
        PROVE  Sets(t, s) /\ CurrentCall(t)' = call
    <3>1. Goes(t)
      BY <1>5, <2>1 DEF Ends, Sets, InLoop
    <3>2. CurrentCall(t)' = call
      BY <1>1, <3>1, SameCall
    <3> QED
      BY <1>1, <1>2, <2>1, <3>2 DEF Sets
  <2>2. ASSUME NEW u \in Threads, u # t
        PROVE  /\ \A s : Sets(u, s)' <=> Sets(u, s)
               /\ CurrentCall(u)' = CurrentCall(u) /\ thread'[u].next = thread[u].next
    BY <1>5, <2>2, OtherThread DEF Goes, Ends, Others
  <2>3. \A s \in Settings : renderer'.settings[s] =
          IF call.op = "setting" /\ call.what = s /\ s \in RendererUses THEN call.value
          ELSE renderer.settings[s]
    BY <1>3, <1>5 DEF Follows, Grown, Shrunk, MemberSet, SettingSet
  <2>4. ASSUME NEW s \in agreed
        PROVE  /\ \A v, u \in Threads : Sets(v, s)' /\ Sets(u, s)' => v = u
               /\ \A v \in Threads : Sets(v, s)' /\ thread'[v].next >= 2
                    => scene'.settings[s] = CurrentCall(v)'.value
               /\ s \in RendererUses =>
                    \/ renderer'.settings[s] = scene'.settings[s]
                    \/ \E v \in Threads : Sets(v, s)' /\ thread'[v].next <= 2
    <3>1. ASSUME NEW v \in Threads, Sets(v, s)'
          PROVE  Sets(v, s) /\ CurrentCall(v)' = CurrentCall(v)
                 /\ (v = t \/ thread'[v].next = thread[v].next)
      BY <1>1, <2>1, <2>2, <3>1
    <3>2. /\ \A v, u \in Threads : Sets(v, s) /\ Sets(u, s) => v = u
          /\ \A v \in Threads : Sets(v, s) /\ thread[v].next >= 2
               => scene.settings[s] = CurrentCall(v).value
          /\ s \in RendererUses =>
               \/ renderer.settings[s] = scene.settings[s]
               \/ \E v \in Threads : Sets(v, s) /\ thread[v].next <= 2
      BY DEF SettingsInv
    <3>3. \A v \in Threads : Sets(v, s)' /\ thread'[v].next >= 2
            => scene'.settings[s] = CurrentCall(v)'.value
      BY <1>2, <3>1, <3>2
    <3>4. s \in RendererUses =>
            \/ renderer'.settings[s] = scene'.settings[s]
            \/ \E v \in Threads : Sets(v, s)' /\ thread'[v].next <= 2
      <4>1. CASE Sets(t, s) /\ s \in RendererUses
        <5>1. call.op = "setting" /\ call.what = s
          BY <1>1, <4>1 DEF Sets
        <5>2. renderer'.settings[s] = call.value
          BY <1>3, <2>3, <4>1, <5>1
        <5>3. scene.settings[s] = call.value
          BY <1>1, <1>2, <3>2, <4>1
        <5> QED
          BY <1>2, <5>2, <5>3
      <4>2. CASE ~ Sets(t, s) /\ s \in RendererUses
        <5>1. ~ (call.op = "setting" /\ call.what = s)
          BY <1>1, <1>2, <4>2 DEF Sets
        <5>2. renderer'.settings[s] = renderer.settings[s]
          BY <1>3, <2>3, <5>1
        <5>3. \A v \in Threads : Sets(v, s) => Sets(v, s)' /\ thread'[v].next = thread[v].next
          BY <2>2, <4>2
        <5> QED
          BY <1>2, <3>2, <4>2, <5>2, <5>3
      <4> QED
        BY <4>1, <4>2
    <3> QED
      BY <3>1, <3>2, <3>3, <3>4
  <2> QED
    BY <1>2, <2>4 DEF SettingsInv
<1> QED
  BY <1>2, <1>4, <1>5

LEMMA SettingsToClient ==
  ASSUME PublicationTypes, SubscriptionInv, SettingsInv, NEW t \in Threads, ToClient(t)
  PROVE  SettingsInv'
<1>1. /\ Publishing(t) /\ InLoop(t) /\ thread[t].next >= 3
      /\ Goes(t) \/ Ends(t)
      /\ UNCHANGED <<scene, renderer, agreed>>
  BY ClientStep
<1>2. thread[t].next \in Nat
  BY LoopParts DEF PublicationTypes
<1>3. ASSUME NEW u \in Threads, NEW s
      PROVE  /\ Sets(u, s)' => /\ Sets(u, s) /\ CurrentCall(u)' = CurrentCall(u)
                               /\ thread'[u].next >= 2 => thread[u].next >= 2
             /\ Sets(u, s) /\ thread[u].next <= 2 => Sets(u, s)' /\ thread'[u].next <= 2
  <2>1. CASE u # t
    <3>1. thread'[u] = thread[u]
      BY <1>1, <2>1 DEF Goes, Ends, Others
    <3> QED
      BY <3>1, OtherThread
  <2>2. CASE u = t /\ Goes(t)
    <3>1. CurrentCall(t)' = CurrentCall(t)
      BY <2>2, SameCall
    <3> QED
      BY <1>1, <1>2, <2>2, <3>1 DEF Sets
  <2>3. CASE u = t /\ Ends(t)
    <3>1. ~ InLoop(t)'
      BY <2>3 DEF Ends, InLoop
    <3> QED
      BY <1>1, <1>2, <2>3, <3>1 DEF Sets
  <2> QED
    BY <1>1, <2>1, <2>2, <2>3
<1> QED
  BY <1>1, <1>3, SettingsKept

------------------------------------------------------------------------------
(* The sources of the scene and the renderer                               *)

SourcesAgree ==
  /\ Sources(scene) = Sources(renderer)
  /\ \A id \in Sources(scene), m \in Members \cap RendererUses :
       scene.sources[id][m] = renderer.sources[id][m]

LEMMA SourcesKept ==
  ASSUME SourcesInv, scene'.sources = scene.sources, renderer'.sources = renderer.sources,
         thread'["network"] = thread["network"]
  PROVE  SourcesInv'
<1>1. /\ now' = now /\ at' = at
      /\ \A op : Now(op)' = Now(op)
      /\ \A id : Between(id)' = Between(id)
  BY NetworkStands
<1> QED
  BY <1>1 DEF SourcesInv

LEMMA SourcesBegin ==
  ASSUME PublicationTypes, SubscriptionInv, SourcesInv, NEW t \in Threads, BeginLoop(t)
  PROVE  SourcesInv'
<1>1. Begins(t) /\ ~ InLoop(t) /\ UNCHANGED <<scene, renderer>>
  BY BeginStep DEF SubscriptionInv
<1>2. CASE t # "network"
  <2>1. thread'["network"] = thread["network"]
    BY <1>1, <1>2 DEF Begins, Others, Threads
  <2> QED
    BY <1>1, <2>1, SourcesKept
<1>3. CASE t = "network"
  <2>1. at = 0 /\ at' = 1
    BY <1>1, <1>3, Outside DEF SubscriptionInv, PublicationTypes, Begins, at
  <2>2. now' = now /\ \A op : Now(op)' = Now(op)
    BY <1>1, <1>3, SameNow
  <2>3. \A id : Between(id)' <=> Between(id)
    BY <2>1, <2>2 DEF Between
  <2> QED
    BY <1>1, <2>1, <2>2, <2>3 DEF SourcesInv
<1> QED
  BY <1>2, <1>3

LEMMA SourcesToScene ==
  ASSUME PublicationTypes, SubscriptionInv, SourcesInv, NEW t \in Threads, ToScene(t)
  PROVE  SourcesInv'
<1>1. PICK call : call = CurrentCall(t)
  OBVIOUS
<1>2. /\ Publishing(t) /\ thread[t].next = 1 /\ Goes(t)
      /\ Changes(scene', scene, call)
      /\ UNCHANGED renderer
  BY <1>1, SceneStep
<1>3. /\ call.op \in {"new_source", "delete_source", "delete_all_sources", "member", "setting", "level"}
      /\ call.op \in {"new_source", "delete_source", "delete_all_sources", "member"} => t = "network"
      /\ call.op \in {"new_source", "delete_source", "member"} => call.id \in Ids
      /\ call.op = "member" => call.what \in Members
      /\ scene \in Replicas /\ renderer \in Replicas
  BY <1>1, <1>2, PublishedCall DEF PublicationTypes
<1>4. CASE t # "network"
  <2>1. thread'["network"] = thread["network"]
    BY <1>2, <1>4 DEF Goes, Others, Threads
  <2>2. scene'.sources = scene.sources
    BY <1>2, <1>3, <1>4 DEF Changes, SettingSet
  <2> QED
    BY <1>2, <2>1, <2>2, SourcesKept
<1>5. CASE t = "network"
  <2>1. /\ now = call /\ now' = call /\ at = 1 /\ at' = 2 /\ Busy("network") /\ Busy("network")'
        /\ \A op : Now(op) <=> call.op = op
        /\ \A op : Now(op)' <=> call.op = op
    <3>1. now = call /\ Busy("network") /\ at = 1 /\ at' = 2
      BY <1>1, <1>2, <1>5 DEF now, Publishing, at, Goes
    <3>2. now' = now /\ \A op : Now(op)' = Now(op)
      BY <1>2, <1>5, SameNow
    <3>3. \A op : Now(op) <=> call.op = op
      BY <3>1 DEF Now, now
    <3> QED
      BY <1>2, <1>5, <3>1, <3>2, <3>3, SameNow
  <2>2. /\ \A id : Between(id) <=> call.op = "new_source" /\ call.id = id
        /\ \A id : Between(id)' <=> \/ call.op = "delete_source" /\ call.id = id
                                    \/ call.op = "delete_all_sources"
    BY <2>1 DEF Between
  <2>3. /\ \A id \in Ids : Between(id) \/ (id \in Sources(scene) <=> id \in Sources(renderer))
        /\ call.op = "new_source" =>
             /\ call.id \in Sources(renderer)
             /\ call.id \notin Sources(scene) => \A m \in Members : renderer.sources[call.id][m] = 0
        /\ \A id \in Sources(scene) \cap Sources(renderer), m \in Members \cap RendererUses :
             scene.sources[id][m] = renderer.sources[id][m]
    BY <2>1 DEF SourcesInv, Sources
  <2>4. /\ \A id \in Ids : Between(id)' \/ (id \in Sources(scene') <=> id \in Sources(renderer))
        /\ \A id \in Sources(scene') \cap Sources(renderer), m \in Members \cap RendererUses :
             \/ scene'.sources[id][m] = renderer.sources[id][m]
             \/ call.op = "member" /\ call.id = id /\ call.what = m
        /\ call.op = "member" /\ call.id \in Sources(scene') =>
             scene'.sources[call.id][call.what] = call.value
        /\ call.op = "delete_source" => call.id \notin Sources(scene')
        /\ call.op = "delete_all_sources" => Sources(scene') = {}
    <3>1. CASE call.op = "new_source"
      <4>1. Grown(scene', scene, call.id)
        BY <1>2, <3>1 DEF Changes
      <4>2. ASSUME NEW id \in Ids
            PROVE  id \in Sources(scene') <=> id \in Sources(renderer)
        <5>1. CASE id = call.id
          BY <2>3, <3>1, <4>1, <5>1 DEF Grown
        <5>2. CASE id # call.id
          BY <2>2, <2>3, <4>1, <5>2 DEF Grown
        <5> QED
          BY <5>1, <5>2
      <4>3. ASSUME NEW id \in Sources(scene') \cap Sources(renderer), NEW m \in Members \cap RendererUses
            PROVE  scene'.sources[id][m] = renderer.sources[id][m]
        <5>1. CASE id \in Sources(scene)
          BY <2>3, <4>1, <5>1 DEF Grown
        <5>2. CASE id \notin Sources(scene)
          <6>1. id = call.id
            BY <4>1, <5>2 DEF Grown
          <6> QED
            BY <2>3, <3>1, <4>1, <5>2, <6>1 DEF Grown
        <5> QED
          BY <5>1, <5>2
      <4> QED
        BY <3>1, <4>2, <4>3
    <3>2. CASE call.op \in {"delete_source", "delete_all_sources"}
      <4>1. PICK ids : /\ Shrunk(scene', scene, ids)
                       /\ ids = IF call.op = "delete_source" THEN {call.id} ELSE Ids
        BY <1>2, <3>2 DEF Changes
      <4>2. Sources(scene) \subseteq Ids
        BY <1>3, ReplicaParts
      <4>3. Sources(scene') = Sources(scene) \ ids /\ \A i \in Sources(scene') : scene'.sources[i] = scene.sources[i]
        BY <4>1 DEF Shrunk
      <4>4. \A id \in Ids : Between(id)' \/ (id \in Sources(scene') <=> id \in Sources(renderer))
        BY <2>2, <2>3, <3>2, <4>1, <4>3
      <4>5. \A id \in Sources(scene') \cap Sources(renderer), m \in Members \cap RendererUses :
              scene'.sources[id][m] = renderer.sources[id][m]
        BY <2>3, <4>3
      <4>6. /\ call.op = "delete_source" => call.id \notin Sources(scene')
            /\ call.op = "delete_all_sources" => Sources(scene') = {}
        BY <4>1, <4>2, <4>3
      <4> QED
        BY <3>2, <4>4, <4>5, <4>6
    <3>3. CASE call.op = "member"
      <4>1. MemberSet(scene', scene, call)
        BY <1>2, <3>3 DEF Changes
      <4>2. \A id \in Ids : id \in Sources(scene') <=> id \in Sources(renderer)
        BY <2>2, <2>3, <3>3, <4>1 DEF MemberSet
      <4>3. \A id \in Sources(scene') \cap Sources(renderer), m \in Members \cap RendererUses :
             \/ scene'.sources[id][m] = renderer.sources[id][m]
             \/ call.id = id /\ call.what = m
        BY <2>3, <4>1 DEF MemberSet
      <4>4. call.id \in Sources(scene') => scene'.sources[call.id][call.what] = call.value
        BY <1>3, <3>3, <4>1 DEF MemberSet
      <4> QED
        BY <3>3, <4>2, <4>3, <4>4
    <3>4. CASE call.op \in {"setting", "level"}
      <4>1. scene'.sources = scene.sources /\ Sources(scene') = Sources(scene)
        BY <1>2, <3>4 DEF Changes, SettingSet, Sources
      <4> QED
        BY <2>2, <2>3, <3>4, <4>1
    <3> QED
      BY <1>3, <3>1, <3>2, <3>3, <3>4
  <2>5. renderer' = renderer /\ ~ (at' <= 1)
    BY <1>2, <2>1
  <2> QED
    BY <2>1, <2>2, <2>4, <2>5 DEF SourcesInv, Sources
<1> QED
  BY <1>4, <1>5

\* After its loop the network thread turns to something else than a new source.
LEMMA SourcesResume ==
  ASSUME SourcesAgree', Resumes
  PROVE  SourcesInv'
<1>1. at' = 0
  BY DEF Resumes
<1>2. ~ (at' = 2) /\ ~ (at' >= 2)
  <2>1. PICK n \in Int : n = at'
    BY <1>1
  <2> QED
    BY <1>1, <2>1
<1>3. ~ Now("new_source")'
  <2> SUFFICES ASSUME Now("new_source")' PROVE FALSE
    OBVIOUS
  <2>1. Busy("network")' /\ now'.op = "new_source"
    BY DEF Now, now
  <2>2. PICK call \in Later : call = now'
    BY <2>1 DEF Resumes
  <2> QED
    BY <2>1, <2>2, LaterParts
<1> QED
  BY <1>2, <1>3 DEF SourcesAgree, SourcesInv, Sources

LEMMA SourcesToRenderer ==
  ASSUME PublicationTypes, SubscriptionInv, SourcesInv, NEW t \in Threads, ToRenderer(t)
  PROVE  SourcesInv'
<1>1. PICK call : call = CurrentCall(t)
  OBVIOUS
<1>2. /\ Publishing(t) /\ thread[t].next = 2
      /\ \/ thread' = thread /\ RemovesOne(call)
         \/ (Goes(t) \/ Ends(t)) /\ Follows(call)
      /\ UNCHANGED scene
  BY <1>1, RendererStep
<1>3. /\ call.op \in {"new_source", "delete_source", "delete_all_sources", "member", "setting", "level"}
      /\ call.op \in {"new_source", "delete_source", "delete_all_sources", "member"} => t = "network"
      /\ call.op \in {"new_source", "delete_source", "member"} => call.id \in Ids
      /\ call.op = "member" => call.what \in Members
      /\ scene \in Replicas /\ renderer \in Replicas
      /\ Busy("network") => Behind \in Seq(Later)
      /\ ThreadsTyped
  BY <1>1, <1>2, PublishedCall DEF PublicationTypes
<1>4. CASE t # "network"
  <2>1. (Goes(t) \/ Ends(t)) /\ Follows(call)
    BY <1>2, <1>3, <1>4 DEF RemovesOne
  <2>2. thread'["network"] = thread["network"]
    BY <1>4, <2>1 DEF Goes, Ends, Others, Threads
  <2>3. renderer'.sources = renderer.sources
    BY <1>3, <1>4, <2>1 DEF Follows, SettingSet
  <2> QED
    BY <1>2, <2>2, <2>3, SourcesKept
<1>5. CASE t = "network"
  <2>1. /\ now = call /\ at = 2 /\ Busy("network")
        /\ \A op : Now(op) <=> call.op = op
    <3>1. now = call /\ Busy("network") /\ at = 2
      BY <1>1, <1>2, <1>5 DEF now, Publishing, at
    <3>2. \A op : Now(op) <=> call.op = op
      BY <3>1 DEF Now, now
    <3> QED
      BY <3>1, <3>2
  <2>2. \A id : Between(id) <=> \/ call.op = "delete_source" /\ call.id = id
                                \/ call.op = "delete_all_sources"
    BY <2>1 DEF Between
  <2>3. /\ \A id \in Ids : Between(id) \/ (id \in Sources(scene) <=> id \in Sources(renderer))
        /\ \A id \in Sources(scene) \cap Sources(renderer), m \in Members \cap RendererUses :
             \/ scene.sources[id][m] = renderer.sources[id][m]
             \/ call.op = "member" /\ call.id = id /\ call.what = m
        /\ call.op = "member" /\ call.id \in Sources(scene) =>
             scene.sources[call.id][call.what] = call.value
        /\ call.op = "delete_source" => call.id \notin Sources(scene)
        /\ call.op = "delete_all_sources" => Sources(scene) = {}
    BY <2>1 DEF SourcesInv, Sources
  <2>4. Sources(scene) \subseteq Ids /\ Sources(renderer) \subseteq Ids
    BY <1>3, ReplicaParts
  <2>5. CASE thread' = thread /\ RemovesOne(call)
    <3>1. call.op = "delete_all_sources" /\ Sources(scene) = {}
      BY <2>3, <2>5 DEF RemovesOne
    <3>2. /\ now' = now /\ at' = at
          /\ \A op : Now(op)' = Now(op)
          /\ \A id : Between(id)' = Between(id)
      BY <2>5, NetworkStands
    <3>3. \A id : Between(id)'
      BY <2>2, <3>1, <3>2
    <3>4. /\ ~ Now("new_source")' /\ ~ Now("member")' /\ ~ Now("delete_source")'
          /\ Sources(scene)' = {} /\ scene' = scene
      BY <1>2, <2>1, <3>1, <3>2 DEF Sources
    <3> QED
      BY <3>3, <3>4 DEF SourcesInv, Sources
  <2>6. CASE (Goes(t) \/ Ends(t)) /\ Follows(call)
    <3>1. SourcesAgree'
      <4>1. CASE call.op \in {"new_source", "level", "setting"}
        <5>1. renderer'.sources = renderer.sources /\ Sources(renderer') = Sources(renderer)
          BY <2>6, <4>1 DEF Follows, SettingSet, Sources
        <5>2. Sources(scene) = Sources(renderer)
          BY <2>2, <2>3, <2>4, <4>1
        <5> QED
          BY <1>2, <2>3, <4>1, <5>1, <5>2 DEF SourcesAgree, Sources
      <4>2. CASE call.op = "delete_all_sources"
        <5>1. renderer' = renderer /\ Sources(renderer) = {}
          BY <2>6, <4>2 DEF Follows
        <5> QED
          BY <1>2, <2>3, <4>2, <5>1 DEF SourcesAgree, Sources
      <4>3. CASE call.op = "delete_source"
        <5>1. Shrunk(renderer', renderer, {call.id})
          BY <2>6, <4>3 DEF Follows
        <5>2. Sources(scene) = Sources(renderer) \ {call.id}
          BY <2>2, <2>3, <2>4, <4>3
        <5>3. Sources(scene) = Sources(renderer')
          BY <5>1, <5>2 DEF Shrunk
        <5>4. \A id \in Sources(scene), m \in Members \cap RendererUses :
                scene.sources[id][m] = renderer'.sources[id][m]
          BY <2>3, <4>3, <5>1, <5>2, <5>3 DEF Shrunk
        <5> QED
          BY <1>2, <5>3, <5>4 DEF SourcesAgree, Sources
      <4>4. CASE call.op = "member"
        <5>1. Sources(scene) = Sources(renderer)
          BY <2>2, <2>3, <2>4, <4>4
        <5>2. CASE call.what \in RendererUses
          <6>1. MemberSet(renderer', renderer, call)
            BY <2>6, <4>4, <5>2 DEF Follows
          <6>2. ASSUME NEW id \in Sources(scene), NEW m \in Members \cap RendererUses
                PROVE  scene.sources[id][m] = renderer'.sources[id][m]
            <7>1. CASE call.id = id /\ call.what = m
              BY <2>3, <4>4, <5>1, <6>1, <7>1 DEF MemberSet
            <7>2. CASE ~ (call.id = id /\ call.what = m)
              BY <2>3, <5>1, <6>1, <7>2 DEF MemberSet
            <7> QED
              BY <7>1, <7>2
          <6>3. Sources(renderer') = Sources(renderer)
            BY <6>1 DEF MemberSet
          <6> QED
            BY <1>2, <5>1, <6>2, <6>3 DEF SourcesAgree, Sources
        <5>3. CASE call.what \notin RendererUses
          <6>1. renderer' = renderer
            BY <2>6, <4>4, <5>3 DEF Follows
          <6> QED
            BY <1>2, <2>3, <5>1, <5>3, <6>1 DEF SourcesAgree, Sources
        <5> QED
          BY <5>2, <5>3
      <4> QED
        BY <1>3, <4>1, <4>2, <4>3, <4>4
    <3>2. CASE Goes(t)
      <4>1. at' = 3 /\ now' = now /\ \A op : Now(op)' = Now(op)
        BY <1>5, <2>1, <3>2, SameNow DEF Goes, at
      <4>2. /\ call.op = "member" /\ call.id \in Sources(scene) =>
                 scene.sources[call.id][call.what] = call.value
            /\ call.op = "delete_source" => call.id \notin Sources(scene)
            /\ call.op = "delete_all_sources" => Sources(scene) = {}
        BY <2>3
      <4>3. /\ Sources(scene) = Sources(renderer')
            /\ \A id \in Sources(scene), m \in Members \cap RendererUses :
                 scene.sources[id][m] = renderer'.sources[id][m]
        BY <1>2, <3>1 DEF SourcesAgree, Sources
      <4>4. ~ (at' <= 1)
        BY <4>1
      <4> QED
        BY <1>2, <2>1, <4>1, <4>2, <4>3, <4>4 DEF SourcesInv, Sources
    <3>3. CASE Ends(t)
      BY <1>3, <1>5, <2>1, <3>1, <3>3, EndsResumes, SourcesResume
    <3> QED
      BY <2>6, <3>2, <3>3
  <2> QED
    BY <1>2, <2>5, <2>6
<1> QED
  BY <1>4, <1>5

\* When the loop is over, or has not begun, the scene and the renderer agree.
LEMMA SourcesSettled ==
  ASSUME PublicationTypes, SourcesInv, ~ Busy("network") \/ at >= 3 \/ now.op \in Operations, at \in Nat
  PROVE  SourcesAgree
<1>1. \A id : ~ Between(id)
  BY DEF Between, Now, now, Operations
<1>2. ~ (Now("member") /\ at = 2)
  BY DEF Now, now, Operations
<1>3. Sources(scene) \subseteq Ids /\ Sources(renderer) \subseteq Ids
  BY ReplicaParts DEF PublicationTypes
<1>4. Sources(scene) = Sources(renderer)
  BY <1>1, <1>3 DEF SourcesInv, Sources
<1> QED
  BY <1>2, <1>4 DEF SourcesInv, SourcesAgree, Sources

LEMMA SourcesToClient ==
  ASSUME PublicationTypes, SubscriptionInv, SourcesInv, NEW t \in Threads, ToClient(t)
  PROVE  SourcesInv'
<1>1. /\ Publishing(t) /\ thread[t].next >= 3 /\ thread[t].next \in Nat
      /\ Goes(t) \/ Ends(t)
      /\ UNCHANGED <<scene, renderer>>
      /\ ThreadsTyped /\ (Busy("network") => Behind \in Seq(Later))
  BY ClientStep, LoopParts DEF PublicationTypes
<1>2. CASE t # "network"
  <2>1. thread'["network"] = thread["network"]
    BY <1>1, <1>2 DEF Goes, Ends, Others, Threads
  <2> QED
    BY <1>1, <2>1, SourcesKept
<1>3. CASE t = "network"
  <2>1. at >= 3 /\ at \in Nat /\ Busy("network")
    BY <1>1, <1>3 DEF at, Publishing
  <2>2. SourcesAgree /\ SourcesAgree'
    <3>1. SourcesAgree
      BY <2>1, SourcesSettled
    <3> QED
      BY <1>1, <3>1 DEF SourcesAgree, Sources
  <2>3. CASE Goes(t)
    <3>1. at' = at + 1 /\ now' = now /\ \A op : Now(op)' = Now(op)
      BY <1>3, <2>3, SameNow DEF Goes, at
    <3>2. at >= 2 /\ at' >= 2 /\ ~ (at' = 2) /\ ~ (at' <= 1)
      BY <2>1, <3>1
    <3>3. /\ Now("member") /\ now.id \in Sources(scene) =>
               scene.sources[now.id][now.what] = now.value
          /\ Now("delete_source") => now.id \notin Sources(scene)
          /\ Now("delete_all_sources") => Sources(scene) = {}
      BY <3>2 DEF SourcesInv, Sources
    <3>4. /\ Sources(scene) = Sources(renderer)
          /\ \A id \in Sources(scene), m \in Members \cap RendererUses :
               scene.sources[id][m] = renderer.sources[id][m]
      BY <2>2 DEF SourcesAgree
    <3> QED
      BY <1>1, <3>1, <3>2, <3>3, <3>4 DEF SourcesInv, Sources
  <2>4. CASE Ends(t)
    BY <1>1, <1>3, <2>1, <2>2, <2>4, EndsResumes, SourcesResume
  <2> QED
    BY <1>1, <2>3, <2>4
<1> QED
  BY <1>2, <1>3

LEMMA SourcesOperation ==
  ASSUME PublicationTypes, SubscriptionInv, SourcesInv, Operation
  PROVE  SourcesInv'
<1>1. /\ Busy("network") /\ ~ InLoop("network") /\ now.op \in Operations
      /\ \/ Resumes /\ UNCHANGED <<scene, renderer, agreed>>
         \/ Resumes /\ renderer' = renderer /\ SettingSet(scene', scene, now)
         \/ \E id \in Ids : /\ Introduces(id) /\ Grown(renderer', renderer, id)
                            /\ UNCHANGED <<scene, agreed>>
  <2>1. now.op \in Operations
    BY DEF Operation, new_source, set_source_position, set_processing_state, set_in_scene,
           Operations, now
  <2> QED
    BY <2>1, OperationStep
<1>2. at = 0
  BY <1>1, Outside DEF PublicationTypes, SubscriptionInv, at, Threads
<1>3. SourcesAgree
  BY <1>1, <1>2, SourcesSettled
<1>4. CASE Resumes /\ (UNCHANGED <<scene, renderer, agreed>>
                       \/ (renderer' = renderer /\ SettingSet(scene', scene, now)))
  <2>1. scene'.sources = scene.sources /\ renderer'.sources = renderer.sources
    BY <1>4 DEF SettingSet
  <2>2. SourcesAgree'
    BY <1>3, <2>1 DEF SourcesAgree, Sources
  <2> QED
    BY <1>4, <2>2, SourcesResume
<1>5. CASE \E id \in Ids : /\ Introduces(id) /\ Grown(renderer', renderer, id)
                           /\ UNCHANGED <<scene, agreed>>
  <2>1. PICK id \in Ids : Introduces(id) /\ Grown(renderer', renderer, id) /\ UNCHANGED scene
    BY <1>5
  <2>2. /\ at' = 0 /\ Now("new_source")' /\ now'.id = id
        /\ ~ Now("member")' /\ ~ Now("delete_source")' /\ ~ Now("delete_all_sources")'
    BY <2>1 DEF Introduces, Now, now
  <2>3. \A i : Between(i)' <=> i = id
    BY <2>2 DEF Between
  <2>4. \A i \in Ids : i = id \/ (i \in Sources(scene) <=> i \in Sources(renderer'))
    BY <1>3, <2>1 DEF SourcesAgree, Grown
  <2>5. /\ id \in Sources(renderer')
        /\ id \notin Sources(scene) => \A m \in Members : renderer'.sources[id][m] = 0
    BY <1>3, <2>1 DEF SourcesAgree, Grown
  <2>6. \A i \in Sources(scene) \cap Sources(renderer'), m \in Members \cap RendererUses :
          scene.sources[i][m] = renderer'.sources[i][m]
    BY <1>3, <2>1 DEF SourcesAgree, Grown
  <2> QED
    BY <2>1, <2>2, <2>3, <2>4, <2>5, <2>6 DEF SourcesInv, Sources
<1> QED
  BY <1>1, <1>4, <1>5

LEMMA SourcesRequest ==
  ASSUME PublicationTypes, SubscriptionInv, SourcesInv, Request
  PROVE  SourcesInv'
<1>1. ~ Busy("network") /\ ~ InLoop("network") /\ Resumes /\ UNCHANGED <<scene, renderer>>
  BY RequestStep
<1>2. at = 0
  BY <1>1, Outside DEF PublicationTypes, SubscriptionInv, at, Threads
<1>3. SourcesAgree
  BY <1>1, <1>2, SourcesSettled
<1>4. SourcesAgree'
  BY <1>1, <1>3 DEF SourcesAgree, Sources
<1> QED
  BY <1>1, <1>4, SourcesResume

\* The other actions of the three other threads, and of connections.
Elsewhere ==
  \/ \E c \in Clients : Connect(c) \/ get_scene_as_XML(c) \/ WriteScene(c) \/ Disconnect(c)
  \/ set_reference_orientation \/ update \/ Unlock

LEMMA ElsewhereStep ==
  ASSUME PublicationTypes, SubscriptionInv, Elsewhere
  PROVE  /\ PublicationTypes' /\ SubscriptionInv'
         /\ thread'["network"] = thread["network"]
         /\ \A u \in Threads : thread'[u] = thread[u] \/ (~ InLoop(u) /\ ~ InLoop(u)')
         /\ overlapped \subseteq overlapped'
         /\ UNCHANGED <<scene, renderer, _source_levels, agreed>>
<1>1. ASSUME NEW c \in Clients, Connect(c)
      PROVE  /\ PublicationTypes' /\ SubscriptionInv' /\ overlapped \subseteq overlapped'
             /\ UNCHANGED <<scene, renderer, _source_levels, agreed, thread>>
  BY <1>1, ConnectStep
<1>2. ASSUME NEW c \in Clients, get_scene_as_XML(c)
      PROVE  /\ PublicationTypes' /\ SubscriptionInv' /\ overlapped \subseteq overlapped'
             /\ UNCHANGED <<scene, renderer, _source_levels, agreed, thread>>
  BY <1>2, ReadStep
<1>3. ASSUME NEW c \in Clients, WriteScene(c)
      PROVE  /\ PublicationTypes' /\ SubscriptionInv' /\ overlapped \subseteq overlapped'
             /\ UNCHANGED <<scene, renderer, _source_levels, agreed, thread>>
  BY <1>3, WriteStep
<1>4. ASSUME NEW c \in Clients, Disconnect(c)
      PROVE  /\ PublicationTypes' /\ SubscriptionInv' /\ overlapped \subseteq overlapped'
             /\ UNCHANGED <<scene, renderer, _source_levels, agreed, thread>>
  BY <1>4, DisconnectStep
<1>5. CASE Unlock
  BY <1>5, UnlockStep
<1>6. CASE set_reference_orientation
  <2>1. /\ PublicationTypes' /\ SubscriptionInv'
        /\ Others("tracker") /\ ~ InLoop("tracker") /\ ~ InLoop("tracker")'
        /\ UNCHANGED <<scene, renderer, _source_levels, agreed, overlapped>>
    BY <1>6, TurnStep
  <2> QED
    BY <2>1 DEF Others, Threads
<1>7. CASE update
  <2>1. /\ PublicationTypes' /\ SubscriptionInv'
        /\ Others("query") /\ ~ InLoop("query") /\ ~ InLoop("query")'
        /\ UNCHANGED <<scene, renderer, _source_levels, agreed, overlapped>>
    BY <1>7, UpdateStep
  <2> QED
    BY <2>1 DEF Others, Threads
<1> QED
  BY <1>1, <1>2, <1>3, <1>4, <1>5, <1>6, <1>7 DEF Elsewhere

LEMMA SettingsOperation ==
  ASSUME PublicationTypes, SubscriptionInv, SettingsInv, Operation
  PROVE  SettingsInv'
<1>1. /\ ~ InLoop("network") /\ ~ InLoop("network")' /\ Others("network")
      /\ \/ UNCHANGED <<scene, renderer, agreed>>
         \/ /\ renderer' = renderer /\ now.what \in Settings
            /\ SettingSet(scene', scene, now) /\ agreed' = agreed \ {now.what}
         \/ \E id \in Ids : Grown(renderer', renderer, id) /\ UNCHANGED <<scene, agreed>>
  BY OperationStep
<1>2. agreed \subseteq Settings
  BY DEF PublicationTypes
<1>3. /\ agreed' \subseteq agreed
      /\ \A s \in agreed' : /\ scene'.settings[s] = scene.settings[s]
                            /\ renderer'.settings[s] = renderer.settings[s]
  BY <1>1, <1>2 DEF Grown, SettingSet
<1>4. \A u \in Threads : thread'[u] = thread[u] \/ (~ InLoop(u) /\ ~ InLoop(u)')
  BY <1>1 DEF Others
<1> QED
  BY <1>3, <1>4, SettingsRest

LEMMA SettingsRequest ==
  ASSUME PublicationTypes, SubscriptionInv, SettingsInv, Request
  PROVE  SettingsInv'
<1>1. /\ ~ InLoop("network") /\ ~ InLoop("network")' /\ Others("network")
      /\ UNCHANGED <<scene, renderer, agreed>>
  BY RequestStep
<1>2. \A u \in Threads : thread'[u] = thread[u] \/ (~ InLoop(u) /\ ~ InLoop(u)')
  BY <1>1 DEF Others
<1> QED
  BY <1>1, <1>2, SettingsRest

LEMMA Moves ==
  ASSUME Next
  PROVE  \/ \E t \in Threads : BeginLoop(t) \/ ToScene(t) \/ ToRenderer(t) \/ ToClient(t)
         \/ Operation \/ Request \/ Elsewhere
BY DEF Next, Elsewhere

LEMMA SubscriptionNext ==
  ASSUME PublicationTypes, SubscriptionInv, Next
  PROVE  PublicationTypes' /\ SubscriptionInv'
<1>1. ASSUME NEW t \in Threads, BeginLoop(t) PROVE PublicationTypes' /\ SubscriptionInv'
  <2>1. ArraysInv /\ ThreadsTyped
    BY DEF SubscriptionInv, PublicationTypes
  <2> QED
    BY <1>1, <2>1, BeginStep, SubscriptionBegins
<1>2. ASSUME NEW t \in Threads, ToScene(t) PROVE PublicationTypes' /\ SubscriptionInv'
  <2>1. ThreadsTyped
    BY DEF PublicationTypes
  <2> QED
    BY <1>2, <2>1, SceneStep, SubscriptionAdvances
<1>3. ASSUME NEW t \in Threads, ToRenderer(t) PROVE PublicationTypes' /\ SubscriptionInv'
  <2>1. ThreadsTyped
    BY DEF PublicationTypes
  <2>2. /\ PublicationTypes' /\ Publishing(t) /\ InLoop(t)
        /\ thread' = thread \/ Advance(t)
        /\ UNCHANGED <<arrays, link, overlapped>>
    BY <1>3, RendererStep
  <2>3. CASE thread' = thread
    BY <2>2, <2>3, SubscriptionStays DEF Live, Joining
  <2>4. CASE Advance(t)
    BY <2>1, <2>2, <2>4, SubscriptionAdvances
  <2> QED
    BY <2>2, <2>3, <2>4
<1>4. ASSUME NEW t \in Threads, ToClient(t) PROVE PublicationTypes' /\ SubscriptionInv'
  <2>1. ThreadsTyped
    BY DEF PublicationTypes
  <2> QED
    BY <1>4, <2>1, ClientStep, SubscriptionAdvances
<1>5. CASE Operation
  BY <1>5, OperationStep
<1>6. CASE Request
  BY <1>6, RequestStep
<1>7. CASE Elsewhere
  BY <1>7, ElsewhereStep
<1> QED
  BY <1>1, <1>2, <1>3, <1>4, <1>5, <1>6, <1>7, Moves

LEMMA SettingsNext ==
  ASSUME PublicationTypes, SubscriptionInv, SettingsInv, Next
  PROVE  SettingsInv'
<1>1. ArraysInv
  BY DEF SubscriptionInv
<1>2. CASE Elsewhere
  <2>1. /\ \A u \in Threads : thread'[u] = thread[u] \/ (~ InLoop(u) /\ ~ InLoop(u)')
        /\ UNCHANGED <<scene, renderer, agreed>>
    BY <1>2, ElsewhereStep
  <2> QED
    BY <2>1, SettingsRest
<1> QED
  BY <1>1, <1>2, Moves, SettingsBegin, SettingsToScene, SettingsToRenderer, SettingsToClient,
     SettingsOperation, SettingsRequest

LEMMA SourcesNext ==
  ASSUME PublicationTypes, SubscriptionInv, SourcesInv, Next
  PROVE  SourcesInv'
<1>1. ArraysInv
  BY DEF SubscriptionInv
<1>2. CASE Elsewhere
  <2>1. thread'["network"] = thread["network"] /\ UNCHANGED <<scene, renderer>>
    BY <1>2, ElsewhereStep
  <2> QED
    BY <2>1, SourcesKept
<1> QED
  BY <1>1, <1>2, Moves, SourcesBegin, SourcesToScene, SourcesToRenderer, SourcesToClient,
     SourcesOperation, SourcesRequest

------------------------------------------------------------------------------
(* The initial state                                                       *)

LEMMA InitIdle ==
  ASSUME Init
  PROVE  /\ ThreadsTyped
         /\ \A t \in Threads : /\ thread[t] = Idle /\ ~ Busy(t) /\ ~ InLoop(t) /\ ~ Publishing(t)
                               /\ \A s : ~ Sets(t, s)
         /\ \A op : ~ Now(op)
         /\ \A id : ~ Between(id)
<1>1. ASSUME NEW t \in Threads PROVE thread[t] = Idle /\ thread[t] \in States(t)
  <2>1. thread[t] = Idle
    BY DEF Init
  <2>2. Idle \in States(t)
    BY DEF Idle, States
  <2> QED
    BY <2>1, <2>2
<1>2. ThreadsTyped
  BY <1>1 DEF ThreadsTyped, Init
<1>3. ASSUME NEW t \in Threads
      PROVE ~ Busy(t) /\ ~ InLoop(t) /\ ~ Publishing(t) /\ \A s : ~ Sets(t, s)
  BY <1>1 DEF Idle, Busy, InLoop, Publishing, Sets
<1>4. \A op : ~ Now(op)
  BY <1>3 DEF Now, Threads
<1> QED
  BY <1>1, <1>2, <1>3, <1>4 DEF Between

LEMMA InitTypes ==
  Init => PublicationTypes
<1> SUFFICES ASSUME Init PROVE PublicationTypes
  OBVIOUS
<1>1. scene \in Replicas /\ renderer \in Replicas /\ whole_scene \in Replicas
      /\ client \in [Clients -> Replicas]
  BY NothingIsReplica DEF Init, Values
<1>2. /\ _highest_id \in 0 .. MaxId /\ requests \in 0 .. MaxRequests /\ turns \in 0 .. MaxTurns
      /\ _source_levels \in [Clients -> SUBSET Ids] /\ locked \in BOOLEAN
      /\ link \in [Clients -> Links] /\ overlapped \subseteq Clients /\ agreed \subseteq Settings
  <2>1. _highest_id \in 0 .. MaxId /\ requests \in 0 .. MaxRequests /\ turns \in 0 .. MaxTurns
    BY BoundsAssumption DEF Init
  <2>2. _source_levels \in [Clients -> SUBSET Ids]
    BY DEF Init
  <2>3. link \in [Clients -> Links]
    BY DEF Init, Links
  <2>4. locked \in BOOLEAN /\ overlapped \subseteq Clients /\ agreed \subseteq Settings
    BY DEF Init
  <2> QED
    BY <2>1, <2>2, <2>3, <2>4
<1>3. ThreadsTyped /\ ~ Busy("network")
  BY InitIdle DEF Threads
<1> QED
  BY <1>1, <1>2, <1>3 DEF PublicationTypes

LEMMA InitSubscription ==
  Init => SubscriptionInv
<1> SUFFICES ASSUME Init PROVE SubscriptionInv
  OBVIOUS
<1>1. PICK s : s = <<"scene", "renderer">>
  OBVIOUS
<1>2. s \in Seq(Subscribers) /\ Len(s) = 2 /\ s[1] = "scene" /\ s[2] = "renderer"
  BY <1>1 DEF Subscribers
<1>3. arrays = <<s>> /\ \A c \in Clients : link[c] = "none"
  BY <1>1 DEF Init
<1>4. arrays \in Seq(Seq(Subscribers)) /\ arrays # <<>> /\ Len(arrays) = 1 /\ arrays[1] = s
  BY <1>2, <1>3
<1>5. \A c \in Clients : ~ Live(c) /\ ~ Joining(c)
  BY <1>3 DEF Live, Joining
<1>6. ArraysInv
  BY <1>2, <1>4, <1>5 DEF ArraysInv
<1>7. LoopsInv
  <2>1. \A t \in Threads : thread[t] = Idle /\ ~ InLoop(t)
    BY InitIdle
  <2>2. Idle.array = 1 /\ Idle.end = 0
    BY DEF Idle
  <2> QED
    BY <2>1, <2>2 DEF LoopsInv, Threads
<1> QED
  BY <1>5, <1>6, <1>7 DEF SubscriptionInv, JoinInv

LEMMA InitReplicas ==
  Init => SettingsInv /\ SourcesInv
<1> SUFFICES ASSUME Init PROVE SettingsInv /\ SourcesInv
  OBVIOUS
<1>1. /\ \A t \in Threads : \A s : ~ Sets(t, s)
      /\ \A op : ~ Now(op)
  BY InitIdle
<1>2. \A s \in agreed : renderer.settings[s] = scene.settings[s]
  BY DEF Init, Nothing, Replica
<1>3. DOMAIN scene.sources = {} /\ DOMAIN renderer.sources = {}
  BY DEF Init, Nothing, Replica
<1> QED
  BY <1>1, <1>2, <1>3 DEF SettingsInv, SourcesInv

------------------------------------------------------------------------------
(* What the invariant says of the renderer                                 *)

LEMMA FollowedByRenderer ==
  ASSUME PublicationTypes, SubscriptionInv, SettingsInv, SourcesInv
  PROVE  RendererFollowsScene
<1> DEFINE members == Members \cap RendererUses
           settings == Settings \cap RendererUses \cap agreed
<1>1. ThreadsTyped /\ LoopsInv
  BY DEF PublicationTypes, SubscriptionInv
<1>2. ASSUME NEW op \in CallsOfExistence \cup {"member"}, Now(op)
      PROVE  now \in InProgress /\ now.op = op
  <2>1. Publishing("network") /\ now.op = op
    BY <1>2 DEF Now, now, Publishing, CurrentCall, CallsOfExistence, Operations
  <2> QED
    BY <2>1 DEF InProgress, now, Threads
<1>3. ASSUME NEW t \in Threads, NEW s, Sets(t, s)
      PROVE  CurrentCall(t) \in InProgress /\ CurrentCall(t).what = s
  BY <1>1, <1>3, Outside DEF Sets, InProgress
<1>4. ASSUME NEW id \in Ids, Between(id)
      PROVE  \E call \in InProgress : call.op \in CallsOfExistence /\ call.id \in {0, id}
  <2>1. CASE Now("delete_all_sources")
    <3>1. Publishing("network") /\ now.op = "delete_all_sources"
      BY <2>1 DEF Now, now, Publishing, CurrentCall, Operations
    <3>2. now.id = 0
      BY <1>1, <3>1, PublishedCall DEF Threads, now
    <3> QED
      BY <1>2, <2>1, <3>2 DEF CallsOfExistence
  <2>2. CASE ~ Now("delete_all_sources")
    BY <1>2, <1>4, <2>2 DEF Between, CallsOfExistence
  <2> QED
    BY <2>1, <2>2
<1>5. ASSUME NEW id \in Ids
      PROVE  \/ \E call \in InProgress : call.op \in CallsOfExistence /\ call.id \in {0, id}
             \/ /\ id \in DOMAIN scene.sources <=> id \in DOMAIN renderer.sources
                /\ id \in DOMAIN scene.sources =>
                     \A m \in members : \/ scene.sources[id][m] = renderer.sources[id][m]
                                        \/ \E call \in InProgress : call.id = id /\ call.what = m
  BY <1>2, <1>4 DEF SourcesInv
<1>6. ASSUME NEW s \in settings
      PROVE  \/ scene.settings[s] = renderer.settings[s]
             \/ \E call \in InProgress : call.what = s
  BY <1>3 DEF SettingsInv
<1> QED
  BY <1>5, <1>6, Zenon DEF RendererFollowsScene, Agree

------------------------------------------------------------------------------
(* What a client that joins has read                                       *)

LEMMA ReadKept ==
  ASSUME ReadInv, whole_scene' = whole_scene,
         \A c \in Clients : link'[c] = "reading" =>
           /\ link[c] = "reading" /\ scene'.sources = scene.sources
           /\ c \in overlapped => c \in overlapped'
           /\ \A s \in Settings : s # "reference_orientation" \/ c \notin overlapped'
                => scene'.settings[s] = scene.settings[s]
  PROVE  ReadInv'
<1>1. ASSUME NEW c \in Clients, link'[c] = "reading"
      PROVE  /\ whole_scene'.sources = scene'.sources
             /\ \A s \in Settings : s # "reference_orientation" \/ c \notin overlapped'
                  => whole_scene'.settings[s] = scene'.settings[s]
  <2>1. /\ whole_scene.sources = scene.sources
        /\ \A s \in Settings : s # "reference_orientation" \/ c \notin overlapped
             => whole_scene.settings[s] = scene.settings[s]
    BY <1>1 DEF ReadInv
  <2> QED
    BY <1>1, <2>1
<1> QED
  BY <1>1 DEF ReadInv

LEMMA ReadNext ==
  ASSUME PublicationTypes, SubscriptionInv, ReadInv, Next
  PROVE  ReadInv'
<1>1. ThreadsTyped /\ ArraysInv /\ JoinInv
  BY DEF PublicationTypes, SubscriptionInv
<1>2. ASSUME NEW t \in Threads, BeginLoop(t) \/ ToRenderer(t) \/ ToClient(t)
      PROVE  ReadInv'
  <2>1. UNCHANGED <<scene, link, whole_scene>> /\ overlapped \subseteq overlapped'
    BY <1>1, <1>2, BeginStep, RendererStep, ClientStep
  <2> QED
    BY <2>1, ReadKept
<1>3. ASSUME NEW t \in Threads, ToScene(t)
      PROVE  ReadInv'
  <2>1. PICK call : call = CurrentCall(t)
    OBVIOUS
  <2>2. /\ Publishing(t) /\ InLoop(t) /\ Changes(scene', scene, call)
        /\ UNCHANGED <<link, whole_scene, overlapped>>
    BY <1>3, <2>1, SceneStep
  <2>3. ASSUME NEW c \in Clients, link[c] = "reading"
        PROVE  /\ scene'.sources = scene.sources
               /\ \A s \in Settings : s # "reference_orientation" \/ c \notin overlapped
                    => scene'.settings[s] = scene.settings[s]
    <3>1. ~ Busy("network") /\ c \in overlapped
      BY <1>1, <2>2, <2>3 DEF JoinInv, Joining
    <3>2. t # "network"
      BY <2>2, <3>1 DEF Publishing
    <3>3. CASE t = "query"
      <4>1. call.op = "level"
        BY <1>1, <2>1, <2>2, <3>3, PublishedCall
      <4> QED
        BY <2>2, <4>1 DEF Changes
    <3>4. CASE t = "tracker"
      <4>1. call.op = "setting" /\ call.what = "reference_orientation"
        <5>1. call \in Turns
          BY <1>1, <2>1, <2>2, <3>4, PublishedCall, ThreadNames
        <5> QED
          BY <5>1, OtherParts
      <4> QED
        BY <2>2, <3>1, <4>1 DEF Changes, SettingSet
    <3> QED
      BY <3>2, <3>3, <3>4 DEF Threads
  <2> QED
    BY <2>2, <2>3, ReadKept
<1>4. ASSUME Operation \/ Request
      PROVE  ReadInv'
  <2>1. link' = link /\ \A c \in Clients : ~ Joining(c)
    BY <1>1, <1>4, OperationStep, RequestStep DEF JoinInv
  <2> QED
    BY <2>1 DEF ReadInv, Joining
<1>5. ASSUME NEW c \in Clients, Connect(c) \/ Disconnect(c)
      PROVE  ReadInv'
  <2>1. /\ \A d \in Clients : ~ Joining(d)
        /\ link'[c] # "reading" /\ \A d \in Clients \ {c} : link'[d] = link[d]
    BY <1>5, ConnectStep, DisconnectStep
  <2> QED
    BY <2>1 DEF ReadInv, Joining
<1>6. ASSUME NEW c \in Clients, get_scene_as_XML(c)
      PROVE  ReadInv'
  <2>1. /\ link[c] = "subscribed" /\ whole_scene' = scene /\ scene' = scene
        /\ \A d \in Clients \ {c} : link'[d] = link[d]
    BY <1>6, ReadStep
  <2>2. \A d \in Clients : link'[d] = "reading" => d = c
    BY <1>1, <2>1 DEF JoinInv, Joining
  <2> QED
    BY <2>1, <2>2 DEF ReadInv
<1>7. ASSUME NEW c \in Clients, WriteScene(c)
      PROVE  ReadInv'
  <2>1. /\ link[c] = "reading" /\ link'[c] = "up"
        /\ \A d \in Clients \ {c} : link'[d] = link[d]
    BY <1>7, WriteStep
  <2>2. \A d \in Clients : link'[d] # "reading"
    BY <1>1, <2>1 DEF JoinInv, Joining
  <2> QED
    BY <2>2 DEF ReadInv
<1>8. ASSUME set_reference_orientation \/ update \/ Unlock
      PROVE  ReadInv'
  <2>1. UNCHANGED <<scene, link, whole_scene, overlapped>>
    BY <1>8, TurnStep, UpdateStep, UnlockStep
  <2> QED
    BY <2>1, ReadKept
<1> QED
  BY <1>2, <1>3, <1>4, <1>5, <1>6, <1>7, <1>8 DEF Next

------------------------------------------------------------------------------
(* Levels                                                                  *)

LEMMA QueryKept ==
  ASSUME QueryInv, Busy("query")' => locked', Sources(renderer) \subseteq Sources(renderer'),
         thread'["query"].todo = thread["query"].todo
  PROVE  QueryInv'
<1>1. PICK todo : todo = thread["query"].todo
  OBVIOUS
<1>2. thread'["query"].todo = todo
  BY <1>1
<1>3. \A k \in DOMAIN todo : todo[k].id \in Sources(renderer)
  BY <1>1 DEF QueryInv, Sources
<1> QED
  BY <1>2, <1>3 DEF QueryInv, Sources

LEMMA QueryLoop ==
  ASSUME ThreadsTyped, QueryInv, NEW t \in Threads, Busy(t), Begins(t) \/ Goes(t) \/ Ends(t),
         locked' = locked, Busy("query") => Sources(renderer) \subseteq Sources(renderer')
  PROVE  QueryInv'
<1>1. PICK todo : todo = thread["query"].todo
  OBVIOUS
<1>2. todo \in Seq(Levels)
  BY <1>1, LoopParts, ThreadNames
<1>3. /\ todo # <<>> => locked /\ Sources(renderer) \subseteq Sources(renderer')
      /\ \A k \in DOMAIN todo : todo[k].id \in Sources(renderer)
  BY <1>1 DEF QueryInv, Sources, Busy
<1>4. PICK later : later = thread'["query"].todo
  OBVIOUS
<1>5. later = todo \/ (later = Tail(todo) /\ todo # <<>>)
  <2>1. CASE t = "query"
    BY <1>1, <1>4, <2>1 DEF Begins, Goes, Ends, Busy
  <2>2. CASE t # "query"
    BY <1>1, <1>4, <2>2, ThreadNames DEF Begins, Goes, Ends, Others
  <2> QED
    BY <2>1, <2>2
<1>6. /\ later # <<>> => todo # <<>>
      /\ \A k \in DOMAIN later : later[k].id \in Sources(renderer')
  <2>1. CASE later = todo
    <3>1. \A k \in DOMAIN todo : todo # <<>>
      BY <1>2
    <3> QED
      BY <1>3, <2>1, <3>1
  <2>2. CASE later = Tail(todo) /\ todo # <<>>
    <3>1. /\ DOMAIN later = 1 .. Len(todo) - 1 /\ DOMAIN todo = 1 .. Len(todo) /\ Len(todo) \in Nat
          /\ \A k \in 1 .. Len(todo) - 1 : later[k] = todo[k + 1]
      BY <1>2, <2>2, FirstCall
    <3>2. ASSUME NEW k \in DOMAIN later PROVE later[k].id \in Sources(renderer')
      <4>1. k + 1 \in DOMAIN todo /\ later[k] = todo[k + 1]
        BY <3>1
      <4> QED
        BY <1>3, <2>2, <4>1
    <3> QED
      BY <2>2, <3>2
  <2> QED
    BY <1>5, <2>1, <2>2
<1> QED
  BY <1>3, <1>4, <1>6 DEF QueryInv, Sources, Busy

LEMMA QueryNext ==
  ASSUME PublicationTypes, SubscriptionInv, QueryInv, Next
  PROVE  QueryInv'
<1>1. ThreadsTyped /\ ArraysInv
  BY DEF PublicationTypes, SubscriptionInv
<1>2. ASSUME NEW t \in Threads, BeginLoop(t) \/ ToScene(t) \/ ToClient(t)
      PROVE  QueryInv'
  <2>1. /\ Publishing(t) /\ (Begins(t) \/ Goes(t) \/ Ends(t))
        /\ UNCHANGED <<renderer, locked>>
    BY <1>1, <1>2, BeginStep, SceneStep, ClientStep
  <2> QED
    BY <1>1, <2>1, QueryLoop DEF Publishing
<1>3. ASSUME NEW t \in Threads, ToRenderer(t)
      PROVE  QueryInv'
  <2>1. PICK call : call = CurrentCall(t)
    OBVIOUS
  <2>2. /\ Publishing(t)
        /\ call.op \in {"delete_source", "delete_all_sources"} => ~ locked
        /\ \/ thread' = thread /\ RemovesOne(call)
           \/ (Goes(t) \/ Ends(t)) /\ Follows(call)
        /\ locked' = locked
    BY <1>3, <2>1, RendererStep
  <2>3. call.op \in {"new_source", "delete_source", "delete_all_sources", "member", "setting", "level"}
    BY <1>1, <2>1, <2>2, PublishedCall
  <2>4. CASE thread' = thread /\ RemovesOne(call)
    <3>1. ~ Busy("query") /\ ~ Busy("query")'
      BY <2>2, <2>4 DEF RemovesOne, QueryInv, Busy
    <3> QED
      BY <3>1 DEF QueryInv, Busy
  <2>5. CASE (Goes(t) \/ Ends(t)) /\ Follows(call)
    <3>1. Busy("query") => call.op \notin {"delete_source", "delete_all_sources"}
      BY <2>2 DEF QueryInv
    <3>2. Busy("query") => Sources(renderer) \subseteq Sources(renderer')
      BY <2>3, <2>5, <3>1 DEF Follows, MemberSet, SettingSet, Sources
    <3> QED
      BY <1>1, <2>2, <2>5, <3>2, QueryLoop DEF Publishing
  <2> QED
    BY <2>2, <2>4, <2>5
<1>4. ASSUME Operation \/ Request
      PROVE  QueryInv'
  <2>1. /\ Others("network") /\ locked' = locked
        /\ renderer' = renderer \/ \E id \in Ids : Grown(renderer', renderer, id)
    BY <1>4, OperationStep, RequestStep
  <2>2. thread'["query"] = thread["query"]
    BY <2>1 DEF Others, Threads
  <2>3. Sources(renderer) \subseteq Sources(renderer')
    BY <2>1 DEF Grown
  <2>4. Busy("query")' => locked'
    BY <2>1, <2>2 DEF QueryInv, Busy
  <2> QED
    BY <2>2, <2>3, <2>4, QueryKept
<1>5. ASSUME NEW c \in Clients, Connect(c) \/ get_scene_as_XML(c) \/ WriteScene(c) \/ Disconnect(c)
      PROVE  QueryInv'
  <2>1. UNCHANGED <<renderer, thread, locked>>
    BY <1>5, ConnectStep, ReadStep, WriteStep, DisconnectStep
  <2> QED
    BY <2>1, QueryKept DEF QueryInv, Busy
<1>6. CASE set_reference_orientation
  <2>1. Others("tracker") /\ UNCHANGED <<renderer, locked>>
    BY <1>6, TurnStep
  <2>2. thread'["query"] = thread["query"]
    BY <2>1 DEF Others, Threads
  <2> QED
    BY <2>1, <2>2, QueryKept DEF QueryInv, Busy
<1>7. CASE update
  <2>1. /\ locked' /\ renderer' = renderer
        /\ \A k \in DOMAIN thread'["query"].todo : thread'["query"].todo[k].id \in Sources(renderer)
    BY <1>7, UpdateStep
  <2> QED
    BY <2>1 DEF QueryInv, Sources
<1>8. CASE Unlock
  <2>1. ~ Busy("query") /\ UNCHANGED <<renderer, thread>>
    BY <1>8, UnlockStep
  <2> QED
    BY <2>1, QueryKept DEF Busy
<1> QED
  BY <1>2, <1>3, <1>4, <1>5, <1>6, <1>7, <1>8 DEF Next

------------------------------------------------------------------------------
(* Whom a loop has told                                                    *)

LEMMA TellsCurrent ==
  ASSUME ThreadsTyped, ArraysInv, LoopsInv, NEW t \in Threads, InLoop(t), Goes(t),
         arrays' = arrays, NEW c
  PROVE  Told(t, c)' <=> Told(t, c) \/ Current(t) = c
<1> DEFINE array == arrays[thread[t].array]
<1> HIDE DEF array
<1>1. PICK next \in Int : next = thread[t].next
  BY LoopParts
<1>2. next >= 1
  BY <1>1, Order
<1>3. Current(t) = array[next] /\ (Told(t, c) <=> IsIn(c, array, next - 1))
  BY <1>1 DEF Current, Told, array
<1>4. Told(t, c)' <=> \E i \in 1 .. thread'[t].next - 1 : arrays'[thread'[t].array][i] = c
  BY DEF Told, IsIn
<1>5. Told(t, c)' <=> \E i \in 1 .. next : array[i] = c
  <2>1. thread'[t].next - 1 = next /\ arrays'[thread'[t].array] = array
    BY <1>1 DEF Goes, array
  <2> QED
    BY <1>4, <2>1
<1> QED
  BY <1>2, <1>3, <1>5 DEF IsIn

\* The scene and the renderer come first.
LEMMA ToldNobody ==
  ASSUME ThreadsTyped, ArraysInv, LoopsInv, NEW t \in Threads, thread[t].next <= 3,
         NEW c \in Clients
  PROVE  ~ Told(t, c)
<1> DEFINE array == arrays[thread[t].array]
<1> HIDE DEF array
<1>1. PICK next \in Nat : next = thread[t].next
  BY LoopParts
<1>2. CASE next = 0
  BY <1>1, <1>2 DEF Told, IsIn
<1>3. CASE next # 0
  <2>1. InLoop(t)
    BY <1>1, <1>3 DEF InLoop
  <2>2. thread[t].array \in 1 .. Len(arrays)
    BY <2>1, Order
  <2>3. array[1] = "scene" /\ array[2] = "renderer"
    BY <1>1, <2>2 DEF ArraysInv, array
  <2>4. c # "scene" /\ c # "renderer"
    BY ClientsAssumption
  <2>5. \A i \in 1 .. next - 1 : i = 1 \/ i = 2
    BY <1>1
  <2> QED
    BY <1>1, <2>3, <2>4, <2>5 DEF Told, IsIn, array
<1> QED
  BY <1>2, <1>3

\* Who is connected is told of everything the network thread publishes, and of what
\* another thread publishes unless it may have been overlooked.
LEMMA ToldAll ==
  ASSUME ThreadsTyped, ArraysInv, LoopsInv, NEW t \in Threads, InLoop(t), Ends(t),
         NEW c \in Clients, Live(c), t = "network" \/ c \notin overlapped
  PROVE  Told(t, c) \/ Current(t) = c
<1> DEFINE array == arrays[thread[t].array]
<1> HIDE DEF array
<1>1. PICK next \in Int, end \in Int : next = thread[t].next /\ end = thread[t].end
  BY LoopParts
<1>2. IsIn(c, array, end)
  <2>1. CASE t = "network"
    <3>1. array = _subscribers /\ end = Len(_subscribers)
      BY <1>1, <2>1, ArraysParts DEF LoopsInv, array
    <3> QED
      BY <3>1 DEF ArraysInv
  <2>2. CASE t # "network"
    BY <1>1, <2>2 DEF LoopsInv, array
  <2> QED
    BY <2>1, <2>2
<1>3. next >= end
  BY <1>1 DEF Ends
<1>4. PICK i \in 1 .. end : array[i] = c
  BY <1>2 DEF IsIn
<1>5. i = next \/ i \in 1 .. next - 1
  <2>1. next <= end
    BY <1>1, Order
  <2> QED
    BY <1>3, <1>4, <2>1
<1> QED
  BY <1>1, <1>4, <1>5 DEF Told, IsIn, Current, array

LEMMA DeletingStands ==
  ASSUME thread'["network"] = thread["network"], arrays' = arrays, NEW id, NEW c
  PROVE  Deleting(id, c)' <=> Deleting(id, c)
<1>1. /\ now' = now /\ at' = at
      /\ \A op : Now(op)' = Now(op)
      /\ Told("network", c)' = Told("network", c)
  BY NetworkStands, OtherThread DEF Threads
<1> QED
  BY <1>1 DEF Deleting

LEMMA LevelsKept ==
  ASSUME LevelsInv, _source_levels' = _source_levels,
         \A c \in Clients : /\ link'[c] = "none" => link[c] = "none"
                            /\ Live(c)' => Live(c) \/ link[c] = "none",
         \A c \in Clients : \A id \in _source_levels[c] : Live(c) =>
           /\ id \in Sources(renderer) => id \in Sources(renderer') \/ Deleting(id, c)'
           /\ Deleting(id, c) => id \in Sources(renderer') \/ Deleting(id, c)'
  PROVE  LevelsInv'
<1>1. \A c \in Clients : link'[c] = "none" => _source_levels'[c] = {}
  BY DEF LevelsInv
<1>2. ASSUME NEW c \in Clients, Live(c)', NEW id \in _source_levels'[c]
      PROVE  id \in Sources(renderer') \/ Deleting(id, c)'
  <2>1. Live(c) /\ id \in _source_levels[c]
    BY <1>2 DEF LevelsInv
  <2> QED
    BY <2>1 DEF LevelsInv, Sources
<1> QED
  BY <1>1, <1>2 DEF LevelsInv, Sources

LEMMA LevelsBegin ==
  ASSUME PublicationTypes, SubscriptionInv, LevelsInv, NEW t \in Threads, BeginLoop(t)
  PROVE  LevelsInv'
<1>1. Begins(t) /\ ~ InLoop(t) /\ UNCHANGED <<renderer, _source_levels, arrays, link>>
  BY BeginStep DEF SubscriptionInv
<1>2. ASSUME NEW c, NEW id, Deleting(id, c)
      PROVE  Deleting(id, c)'
  <2>1. InLoop("network")
    <3>1. PICK n \in Nat : n = thread["network"].next
      BY LoopParts DEF PublicationTypes, Threads
    <3> QED
      BY <1>2, <3>1 DEF Deleting, at, InLoop
  <2>2. thread'["network"] = thread["network"]
    BY <1>1, <2>1 DEF Begins, Others, Threads
  <2> QED
    BY <1>1, <1>2, <2>2, DeletingStands
<1> QED
  BY <1>1, <1>2, LevelsKept DEF Live

LEMMA LevelsToScene ==
  ASSUME PublicationTypes, SubscriptionInv, LevelsInv, NEW t \in Threads, ToScene(t)
  PROVE  LevelsInv'
<1>1. thread[t].next = 1 /\ Goes(t) /\ UNCHANGED <<renderer, _source_levels, arrays, link>>
  BY SceneStep
<1>2. ASSUME NEW c, NEW id, Deleting(id, c)
      PROVE  Deleting(id, c)'
  <2>1. thread["network"].next # 1
    BY <1>2 DEF Deleting, at
  <2>2. thread'["network"] = thread["network"]
    BY <1>1, <2>1 DEF Goes, Others, Threads
  <2> QED
    BY <1>1, <1>2, <2>2, DeletingStands
<1> QED
  BY <1>1, <1>2, LevelsKept DEF Live

LEMMA LevelsToRenderer ==
  ASSUME PublicationTypes, SubscriptionInv, LevelsInv, NEW t \in Threads, ToRenderer(t)
  PROVE  LevelsInv'
<1>1. PICK call : call = CurrentCall(t)
  OBVIOUS
<1>2. /\ Publishing(t) /\ InLoop(t) /\ thread[t].next = 2
      /\ \/ thread' = thread /\ RemovesOne(call)
         \/ (Goes(t) \/ Ends(t)) /\ Follows(call)
      /\ UNCHANGED <<_source_levels, arrays, link>>
  BY <1>1, RendererStep
<1>3. /\ call.op \in {"new_source", "delete_source", "delete_all_sources", "member", "setting", "level"}
      /\ call.op \in {"new_source", "delete_source", "delete_all_sources", "member"} => t = "network"
      /\ ThreadsTyped /\ ArraysInv /\ LoopsInv
  BY <1>1, <1>2, PublishedCall DEF PublicationTypes, SubscriptionInv
<1>4. CASE t # "network"
  <2>1. (Goes(t) \/ Ends(t)) /\ Sources(renderer') = Sources(renderer)
    BY <1>2, <1>3, <1>4 DEF RemovesOne, Follows, SettingSet, Sources
  <2>2. thread'["network"] = thread["network"]
    BY <1>4, <2>1 DEF Goes, Ends, Others, Threads
  <2>3. \A c, id : Deleting(id, c)' <=> Deleting(id, c)
    BY <1>2, <2>2, DeletingStands
  <2> QED
    BY <1>2, <2>1, <2>3, LevelsKept DEF Live
<1>5. CASE t = "network"
  <2>1. /\ now = call /\ at = 2 /\ Busy("network")
        /\ \A op : Now(op) <=> call.op = op
    <3>1. now = call /\ Busy("network") /\ at = 2
      BY <1>1, <1>2, <1>5 DEF now, Publishing, at
    <3>2. \A op : Now(op) <=> call.op = op
      BY <3>1 DEF Now, now
    <3> QED
      BY <3>1, <3>2
  <2>2. ASSUME ~ Ends(t)
        PROVE  /\ at' >= 2 /\ now' = call /\ \A op : Now(op)' <=> call.op = op
               /\ \A c \in Clients : ~ Told("network", c)'
    <3>1. CASE thread' = thread
      <4>1. at' = at /\ now' = now /\ \A op : Now(op)' = Now(op)
        BY <3>1, NetworkStands
      <4>2. \A c \in Clients : ~ Told("network", c)
        BY <1>2, <1>3, <1>5, ToldNobody
      <4>3. \A c \in Clients : ~ Told("network", c)'
        BY <1>2, <3>1, <4>2, OtherThread DEF Threads
      <4> QED
        BY <2>1, <4>1, <4>3
    <3>2. CASE Goes(t)
      <4>1. at' = 3 /\ now' = now /\ \A op : Now(op)' = Now(op)
        BY <1>5, <2>1, <3>2, SameNow DEF Goes, at
      <4>2. \A c \in Clients : ~ Told("network", c) /\ Current("network") # c
        <5>1. \A c \in Clients : ~ Told("network", c)
          BY <1>2, <1>3, <1>5, ToldNobody
        <5>2. Current("network") = "renderer"
          BY <1>2, <1>3, <1>5, Order
        <5> QED
          BY <5>1, <5>2, ClientsAssumption
      <4>3. ASSUME NEW c \in Clients PROVE ~ Told("network", c)'
        BY <1>2, <1>3, <1>5, <3>2, <4>2, TellsCurrent
      <4> QED
        BY <2>1, <4>1, <4>3
    <3> QED
      BY <1>2, <2>2, <3>1, <3>2
  <2>3. ASSUME NEW c \in Clients, Live(c)
        PROVE  ~ Ends(t)
    <3> SUFFICES ASSUME Ends(t) PROVE FALSE
      OBVIOUS
    <3>1. Told("network", c) \/ Current("network") = c
      BY <1>2, <1>3, <1>5, <2>3, ToldAll
    <3>2. ~ Told("network", c)
      BY <1>2, <1>3, <1>5, ToldNobody
    <3>3. Current("network") = "renderer"
      BY <1>2, <1>3, <1>5, Order
    <3> QED
      BY <3>1, <3>2, <3>3, ClientsAssumption
  <2>4. ASSUME NEW c \in Clients, Live(c), NEW id
        PROVE  /\ id \in Sources(renderer) => id \in Sources(renderer') \/ Deleting(id, c)'
               /\ Deleting(id, c) => Deleting(id, c)'
    <3>1. /\ at' >= 2 /\ now' = call /\ ~ Told("network", c)'
          /\ \A op : Now(op)' <=> call.op = op
      BY <2>2, <2>3, <2>4
    <3>2. Deleting(id, c) => Deleting(id, c)'
      BY <2>1, <3>1 DEF Deleting
    <3>3. CASE call.op \in {"delete_source", "delete_all_sources"}
      <4>1. \/ Sources(renderer') = Sources(renderer) \ {call.id}
            \/ call.op = "delete_all_sources"
        BY <1>2, <2>3, <2>4, <3>3 DEF RemovesOne, Follows, Shrunk
      <4> QED
        BY <3>1, <3>2, <3>3, <4>1 DEF Deleting
    <3>4. CASE call.op \notin {"delete_source", "delete_all_sources"}
      <4>1. Sources(renderer') = Sources(renderer)
        BY <1>2, <1>3, <3>4 DEF RemovesOne, Follows, MemberSet, SettingSet, Sources
      <4> QED
        BY <3>2, <4>1
    <3> QED
      BY <3>2, <3>3, <3>4
  <2> QED
    BY <1>2, <2>4, LevelsKept DEF Live
<1> QED
  BY <1>4, <1>5

LEMMA LevelsToClient ==
  ASSUME PublicationTypes, SubscriptionInv, QueryInv, LevelsInv, NEW t \in Threads, ToClient(t)
  PROVE  LevelsInv'
<1>1. PICK call, d : call = CurrentCall(t) /\ d = Current(t)
  OBVIOUS
<1>2. /\ Publishing(t) /\ InLoop(t) /\ thread[t].next >= 3
      /\ d \in Clients /\ link[d] # "none"
      /\ Goes(t) \/ Ends(t)
      /\ UNCHANGED <<renderer, arrays, link>>
      /\ \A c \in Clients : c # d => _source_levels'[c] = _source_levels[c]
      /\ link[d] # "gone" =>
           _source_levels'[d] = CASE call.op = "level"              -> _source_levels[d] \cup {call.id}
                                  [] call.op = "delete_source"      -> _source_levels[d] \ {call.id}
                                  [] call.op = "delete_all_sources" -> {}
                                  [] OTHER                          -> _source_levels[d]
  BY <1>1, ClientStep
<1>3. /\ call.op \in {"new_source", "delete_source", "delete_all_sources", "member", "setting", "level"}
      /\ call.op \in {"new_source", "delete_source", "delete_all_sources", "member"} => t = "network"
      /\ call.op = "level" <=> t = "query"
      /\ ThreadsTyped /\ ArraysInv /\ LoopsInv
  BY <1>1, <1>2, PublishedCall DEF PublicationTypes, SubscriptionInv
<1>4. \A c \in Clients : link'[c] = "none" => _source_levels'[c] = {}
  BY <1>2 DEF LevelsInv
<1>5. t = "query" => call.id \in Sources(renderer)
  <2> SUFFICES ASSUME t = "query" PROVE call.id \in Sources(renderer)
    OBVIOUS
  <2>1. thread["query"].todo \in Seq(Levels) /\ thread["query"].todo # <<>>
    BY <1>2, <1>3, LoopParts, ThreadNames DEF Publishing, Busy
  <2>2. call = thread["query"].todo[1] /\ 1 \in DOMAIN thread["query"].todo
    BY <1>1, <2>1, FirstCall DEF CurrentCall
  <2> QED
    BY <2>2 DEF QueryInv, Sources
<1>6. ASSUME NEW c \in Clients, Live(c), NEW id, Deleting(id, c), c # d \/ t # "network"
      PROVE  Deleting(id, c)'
  <2>1. CASE t # "network"
    <3>1. thread'["network"] = thread["network"]
      BY <1>2, <2>1 DEF Goes, Ends, Others, Threads
    <3> QED
      BY <1>2, <1>6, <3>1, DeletingStands
  <2>2. CASE t = "network"
    <3>1. Goes("network")
      BY <1>1, <1>2, <1>3, <1>6, <2>2, ToldAll DEF Deleting
    <3>2. at' = at + 1 /\ now' = now /\ \A op : Now(op)' = Now(op)
      BY <3>1, SameNow DEF Goes, at
    <3>3. at' >= 2
      <4>1. at \in Nat
        BY <1>3, LoopParts DEF at, Threads
      <4> QED
        BY <1>2, <2>2, <3>2, <4>1 DEF at
    <3>4. ~ Told("network", c)'
      BY <1>1, <1>2, <1>3, <1>6, <2>2, <3>1, TellsCurrent DEF Deleting
    <3> QED
      BY <1>6, <3>2, <3>3, <3>4 DEF Deleting
  <2> QED
    BY <2>1, <2>2
<1>7. ASSUME NEW c \in Clients, Live(c)', NEW id \in _source_levels'[c]
      PROVE  id \in Sources(renderer') \/ Deleting(id, c)'
  <2>1. Live(c) /\ \A i \in _source_levels[c] : i \in Sources(renderer) \/ Deleting(i, c)
    BY <1>2, <1>7 DEF Live, LevelsInv, Sources
  <2>2. CASE c # d
    BY <1>2, <1>6, <1>7, <2>1, <2>2
  <2>3. CASE c = d
    <3>1. link[d] # "gone"
      BY <2>1, <2>3 DEF Live
    <3>2. CASE t = "network"
      <4>1. now = call /\ \A op : Now(op) => call.op = op
        BY <1>1, <3>2 DEF Now, now
      <4>2. call.op = "delete_all_sources" => _source_levels'[d] = {}
        BY <1>2, <3>1
      <4>3. call.op = "delete_source" => id # call.id
        BY <1>2, <1>7, <2>3, <3>1
      <4>4. id \in _source_levels[c]
        BY <1>2, <1>3, <1>7, <2>3, <3>1, <3>2, <4>2
      <4>5. ~ Deleting(id, c)
        BY <1>7, <2>3, <4>1, <4>2, <4>3 DEF Deleting
      <4> QED
        BY <1>2, <2>1, <4>4, <4>5
    <3>3. CASE t # "network"
      <4>1. id \in _source_levels[c] \/ id \in Sources(renderer)
        BY <1>2, <1>3, <1>5, <1>7, <2>3, <3>1, <3>3
      <4> QED
        BY <1>2, <1>6, <2>1, <3>3, <4>1
    <3> QED
      BY <3>2, <3>3
  <2> QED
    BY <2>2, <2>3
<1> QED
  BY <1>4, <1>7 DEF LevelsInv, Sources

LEMMA LevelsNext ==
  ASSUME PublicationTypes, SubscriptionInv, QueryInv, LevelsInv, Next
  PROVE  LevelsInv'
<1>1. ASSUME NEW c, NEW id, ~ InLoop("network")
      PROVE  ~ Deleting(id, c)
  <2>1. at = 0
    BY <1>1, Outside DEF PublicationTypes, SubscriptionInv, at, Threads
  <2> QED
    BY <2>1 DEF Deleting
<1>2. ASSUME Operation \/ Request
      PROVE  LevelsInv'
  <2>1. /\ ~ InLoop("network") /\ UNCHANGED <<_source_levels, link>>
        /\ renderer' = renderer \/ \E id \in Ids : Grown(renderer', renderer, id)
    BY <1>2, OperationStep, RequestStep
  <2>2. Sources(renderer) \subseteq Sources(renderer')
    BY <2>1 DEF Grown
  <2> QED
    BY <1>1, <2>1, <2>2, LevelsKept DEF Live
<1>3. ASSUME NEW c \in Clients, Connect(c) \/ Disconnect(c)
      PROVE  LevelsInv'
  <2>1. /\ ~ InLoop("network") /\ UNCHANGED <<_source_levels, renderer>>
        /\ \A d \in Clients : link'[d] = link[d] \/ (link[d] = "none" /\ link'[d] # "none")
                                                 \/ link'[d] = "gone"
    BY <1>3, ConnectStep, DisconnectStep
  <2> QED
    BY <1>1, <2>1, LevelsKept DEF Live
<1>4. ASSUME \/ \E c \in Clients : get_scene_as_XML(c) \/ WriteScene(c)
             \/ set_reference_orientation \/ update \/ Unlock
      PROVE  LevelsInv'
  <2>1. /\ thread'["network"] = thread["network"]
        /\ UNCHANGED <<_source_levels, renderer>>
    BY <1>4, ElsewhereStep DEF Elsewhere
  <2>2. /\ arrays' = arrays
        /\ \A d \in Clients : link'[d] = link[d] \/ (Live(d) /\ link'[d] # "none")
    BY <1>4, ReadStep, WriteStep, TurnStep, UpdateStep, UnlockStep DEF Live
  <2>3. \A c, id : Deleting(id, c)' <=> Deleting(id, c)
    BY <2>1, <2>2, DeletingStands
  <2> QED
    BY <2>1, <2>2, <2>3, LevelsKept DEF Live
<1> QED
  BY <1>2, <1>3, <1>4, LevelsBegin, LevelsToScene, LevelsToRenderer, LevelsToClient DEF Next

------------------------------------------------------------------------------
(* The settings of the clients                                             *)

LEMMA ClientSettingsKept ==
  ASSUME ClientSettingsInv, agreed' \subseteq agreed, overlapped \subseteq overlapped',
         \A c \in Clients : link'[c] = "up" =>
           link[c] = "up" /\ client'[c].settings = client[c].settings,
         \A s \in agreed' : scene'.settings[s] = scene.settings[s],
         \A c \in Clients, s \in agreed' :
           link'[c] = "up" /\ (s # "reference_orientation" \/ c \notin overlapped')
             => (OwesSetting(s, c) => OwesSetting(s, c)')
  PROVE  ClientSettingsInv'
<1>1. ASSUME NEW c \in Clients, link'[c] = "up",
             NEW s \in Settings \cap ClientIsTold \cap agreed',
             s # "reference_orientation" \/ c \notin overlapped'
      PROVE  scene'.settings[s] = client'[c].settings[s] \/ OwesSetting(s, c)'
  <2>1. s \in agreed /\ (s # "reference_orientation" \/ c \notin overlapped) /\ link[c] = "up"
    BY <1>1
  <2>2. scene.settings[s] = client[c].settings[s] \/ OwesSetting(s, c)
    BY <1>1, <2>1 DEF ClientSettingsInv
  <2> QED
    BY <1>1, <2>2
<1> QED
  BY <1>1 DEF ClientSettingsInv

LEMMA OwesStands ==
  ASSUME arrays' = arrays, NEW c, NEW s,
         \A u \in Threads : thread'[u] = thread[u] \/ ~ Sets(u, s) \/ Told(u, c)
                              \/ (Sets(u, s)' /\ ~ Told(u, c)'),
         OwesSetting(s, c)
  PROVE  OwesSetting(s, c)'
<1>1. PICK u \in Threads : Sets(u, s) /\ ~ Told(u, c)
  BY DEF OwesSetting
<1>2. Sets(u, s)' /\ ~ Told(u, c)'
  BY <1>1, OtherThread
<1> QED
  BY <1>2 DEF OwesSetting

LEMMA ClientSettingsBegin ==
  ASSUME PublicationTypes, SubscriptionInv, ClientSettingsInv, NEW t \in Threads, BeginLoop(t)
  PROVE  ClientSettingsInv'
<1>1. PICK call : call = CurrentCall(t)
  OBVIOUS
<1>2. /\ Begins(t) /\ Publishing(t) /\ ~ InLoop(t)
      /\ UNCHANGED <<scene, client, link, arrays>> /\ overlapped \subseteq overlapped'
      /\ agreed' \subseteq agreed \cup {call.what}
      /\ call.op # "setting" => agreed' = agreed
  BY <1>1, BeginStep DEF SubscriptionInv
<1>3. CurrentCall(t)' = call /\ thread'[t].next = 1
  BY <1>1, <1>2, SameCall DEF Begins
<1>4. ASSUME NEW c, call.op = "setting" PROVE OwesSetting(call.what, c)'
  <2>1. Sets(t, call.what)'
    BY <1>3, <1>4 DEF Sets, InLoop
  <2>2. ~ Told(t, c)'
    BY <1>3 DEF Told, IsIn
  <2> QED
    BY <2>1, <2>2 DEF OwesSetting
<1>5. ASSUME NEW c, NEW s, OwesSetting(s, c) PROVE OwesSetting(s, c)'
  <2>1. ~ Sets(t, s) /\ \A u \in Threads : u # t => thread'[u] = thread[u]
    BY <1>2 DEF Sets, Begins, Others
  <2> QED
    BY <1>2, <1>5, <2>1, OwesStands
<1>6. ASSUME NEW c \in Clients, link'[c] = "up",
             NEW s \in Settings \cap ClientIsTold \cap agreed',
             s # "reference_orientation" \/ c \notin overlapped'
      PROVE  scene'.settings[s] = client'[c].settings[s] \/ OwesSetting(s, c)'
  <2>1. CASE call.op = "setting" /\ s = call.what
    BY <1>4, <2>1
  <2>2. CASE ~ (call.op = "setting" /\ s = call.what)
    <3>1. s \in agreed /\ (s # "reference_orientation" \/ c \notin overlapped) /\ link[c] = "up"
      BY <1>2, <1>6, <2>2
    <3>2. scene.settings[s] = client[c].settings[s] \/ OwesSetting(s, c)
      BY <1>6, <3>1 DEF ClientSettingsInv
    <3> QED
      BY <1>2, <1>5, <3>2
  <2> QED
    BY <2>1, <2>2
<1> QED
  BY <1>6 DEF ClientSettingsInv

\* The loop does not end before the subscriber is told who is still to be told.
LEMMA OwedByCurrent ==
  ASSUME PublicationTypes, SubscriptionInv, NEW t \in Threads, Publishing(t), Ends(t),
         NEW c \in Clients, Live(c), NEW s, s # "reference_orientation" \/ c \notin overlapped,
         Sets(t, s), ~ Told(t, c)
  PROVE  Current(t) = c
<1>1. ThreadsTyped /\ ArraysInv /\ LoopsInv /\ InLoop(t)
      /\ CurrentCall(t).op = "setting" /\ CurrentCall(t).what = s
  BY DEF PublicationTypes, SubscriptionInv, Sets
<1>2. t = "network" \/ c \notin overlapped
  <2>1. t # "query"
    BY <1>1, PublishedCall
  <2>2. t = "tracker" => s = "reference_orientation"
    BY <1>1, PublishedCall
  <2> QED
    BY <2>1, <2>2 DEF Threads
<1> QED
  BY <1>1, <1>2, ToldAll

LEMMA ClientSettingsToScene ==
  ASSUME PublicationTypes, SubscriptionInv, ClientSettingsInv, NEW t \in Threads, ToScene(t)
  PROVE  ClientSettingsInv'
<1>1. PICK call : call = CurrentCall(t)
  OBVIOUS
<1>2. /\ Publishing(t) /\ InLoop(t) /\ thread[t].next = 1 /\ Goes(t)
      /\ Changes(scene', scene, call)
      /\ UNCHANGED <<client, agreed, link, arrays, overlapped>>
  BY <1>1, SceneStep
<1>3. CurrentCall(t)' = call /\ thread'[t].next = 2
  BY <1>1, <1>2, SameCall DEF Goes
<1>4. /\ ThreadsTyped /\ ArraysInv /\ LoopsInv
      /\ call.op \in {"new_source", "delete_source", "delete_all_sources", "member", "setting", "level"}
  BY <1>1, <1>2, PublishedCall DEF PublicationTypes, SubscriptionInv
<1>5. ASSUME NEW c \in Clients PROVE ~ Told(t, c)'
  <2>1. ~ Told(t, c)
    BY <1>2, <1>4, ToldNobody
  <2>2. Current(t) = "scene"
    BY <1>2, <1>4, Order
  <2> QED
    BY <1>2, <1>4, <2>1, <2>2, TellsCurrent, ClientsAssumption
<1>6. \A s : Sets(t, s)' <=> Sets(t, s)
  BY <1>1, <1>2, <1>3 DEF Sets, InLoop
<1>7. ASSUME NEW c \in Clients, NEW s, OwesSetting(s, c) PROVE OwesSetting(s, c)'
  <2>1. \A u \in Threads : u # t => thread'[u] = thread[u]
    BY <1>2 DEF Goes, Others
  <2> QED
    BY <1>2, <1>5, <1>6, <1>7, <2>1, OwesStands
<1>8. \A s \in Settings : scene'.settings[s] = IF call.op = "setting" /\ call.what = s THEN call.value
                                               ELSE scene.settings[s]
  BY <1>2, <1>4 DEF Changes, Grown, Shrunk, MemberSet, SettingSet
<1>9. ASSUME NEW c \in Clients, link'[c] = "up",
             NEW s \in Settings \cap ClientIsTold \cap agreed',
             s # "reference_orientation" \/ c \notin overlapped'
      PROVE  scene'.settings[s] = client'[c].settings[s] \/ OwesSetting(s, c)'
  <2>1. CASE call.op = "setting" /\ call.what = s
    <3>1. Sets(t, s)
      BY <1>1, <1>2, <2>1 DEF Sets
    <3> QED
      BY <1>5, <1>6, <3>1 DEF OwesSetting
  <2>2. CASE ~ (call.op = "setting" /\ call.what = s)
    <3>1. scene.settings[s] = client[c].settings[s] \/ OwesSetting(s, c)
      BY <1>2, <1>9 DEF ClientSettingsInv
    <3> QED
      BY <1>2, <1>7, <1>8, <2>2, <3>1
  <2> QED
    BY <2>1, <2>2
<1> QED
  BY <1>9 DEF ClientSettingsInv

LEMMA ClientSettingsToRenderer ==
  ASSUME PublicationTypes, SubscriptionInv, ClientSettingsInv, NEW t \in Threads, ToRenderer(t)
  PROVE  ClientSettingsInv'
<1>1. /\ Publishing(t) /\ InLoop(t) /\ thread[t].next = 2
      /\ thread' = thread \/ Goes(t) \/ Ends(t)
      /\ UNCHANGED <<scene, client, agreed, link, arrays, overlapped>>
  BY RendererStep
<1>2. ThreadsTyped /\ ArraysInv /\ LoopsInv
  BY DEF PublicationTypes, SubscriptionInv
<1>3. ASSUME NEW c \in Clients PROVE ~ Told(t, c) /\ Current(t) # c
  <2>1. Current(t) = "renderer"
    BY <1>1, <1>2, Order
  <2> QED
    BY <1>1, <1>2, <2>1, ToldNobody, ClientsAssumption
<1>4. ASSUME NEW c \in Clients, Live(c), NEW s, s # "reference_orientation" \/ c \notin overlapped,
             OwesSetting(s, c)
      PROVE  OwesSetting(s, c)'
  <2>1. CASE thread' = thread
    BY <1>1, <1>4, <2>1, OwesStands
  <2>2. CASE Goes(t)
    <3>1. \A u \in Threads : u # t => thread'[u] = thread[u]
      BY <2>2 DEF Goes, Others
    <3>2. ~ Told(t, c)'
      BY <1>1, <1>2, <1>3, <1>4, <2>2, TellsCurrent
    <3>3. Sets(t, s)' <=> Sets(t, s)
      <4>1. CurrentCall(t)' = CurrentCall(t) /\ thread'[t].next = 3
        BY <1>1, <2>2, SameCall DEF Goes
      <4> QED
        BY <1>1, <4>1 DEF Sets, InLoop
    <3> QED
      BY <1>1, <1>4, <3>1, <3>2, <3>3, OwesStands
  <2>3. CASE Ends(t)
    <3>1. ~ Sets(t, s)
      BY <1>1, <1>3, <1>4, <2>3, OwedByCurrent
    <3>2. \A u \in Threads : u # t => thread'[u] = thread[u]
      BY <2>3 DEF Ends, Others
    <3> QED
      BY <1>1, <1>4, <3>1, <3>2, OwesStands
  <2> QED
    BY <1>1, <2>1, <2>2, <2>3
<1> QED
  BY <1>1, <1>4, ClientSettingsKept DEF Live

LEMMA ClientSettingsToClient ==
  ASSUME PublicationTypes, SubscriptionInv, SettingsInv, ClientSettingsInv,
         NEW t \in Threads, ToClient(t)
  PROVE  ClientSettingsInv'
<1>1. PICK call, d : call = CurrentCall(t) /\ d = Current(t)
  OBVIOUS
<1>2. /\ Publishing(t) /\ InLoop(t) /\ thread[t].next >= 3
      /\ d \in Clients
      /\ Goes(t) \/ Ends(t)
      /\ UNCHANGED <<scene, arrays, link, overlapped, agreed>>
      /\ \A c \in Clients : c # d => client'[c] = client[c]
      /\ link[d] # "gone" => ClientChanges(client'[d], client[d], call)
  BY <1>1, ClientStep
<1>3. /\ ThreadsTyped /\ ArraysInv /\ LoopsInv
      /\ call.op \in {"new_source", "delete_source", "delete_all_sources", "member", "setting", "level"}
  BY <1>1, <1>2, PublishedCall DEF PublicationTypes, SubscriptionInv
<1>4. /\ thread[t].next \in Nat /\ thread[t].next >= 2
      /\ \A u \in Threads : u # t => thread'[u] = thread[u]
  BY <1>2, <1>3, LoopParts DEF Goes, Ends, Others
\* Who is not told now still is to be told what was to be told.
<1>5. ASSUME NEW c \in Clients, Live(c), NEW s, s # "reference_orientation" \/ c \notin overlapped,
             OwesSetting(s, c), c # d \/ ~ Sets(t, s)
      PROVE  OwesSetting(s, c)'
  <2>1. CASE ~ Sets(t, s)
    BY <1>2, <1>4, <1>5, <2>1, OwesStands
  <2>2. CASE Sets(t, s) /\ Told(t, c)
    BY <1>2, <1>4, <1>5, <2>2, OwesStands
  <2>3. CASE Sets(t, s) /\ ~ Told(t, c)
    <3>1. Goes(t)
      BY <1>1, <1>2, <1>5, <2>3, OwedByCurrent
    <3>2. ~ Told(t, c)'
      BY <1>1, <1>2, <1>3, <1>5, <2>3, <3>1, TellsCurrent
    <3>3. Sets(t, s)'
      <4>1. CurrentCall(t)' = CurrentCall(t) /\ thread'[t].next > 0
        BY <1>4, <3>1, SameCall DEF Goes
      <4> QED
        BY <2>3, <4>1 DEF Sets, InLoop
    <3> QED
      BY <3>2, <3>3 DEF OwesSetting
  <2> QED
    BY <2>1, <2>2, <2>3
<1>6. ASSUME NEW c \in Clients, link'[c] = "up",
             NEW s \in Settings \cap ClientIsTold \cap agreed',
             s # "reference_orientation" \/ c \notin overlapped'
      PROVE  scene'.settings[s] = client'[c].settings[s] \/ OwesSetting(s, c)'
  <2>1. /\ s \in agreed /\ Live(c) /\ link[c] = "up"
        /\ s # "reference_orientation" \/ c \notin overlapped
        /\ scene.settings[s] = client[c].settings[s] \/ OwesSetting(s, c)
    BY <1>2, <1>6 DEF ClientSettingsInv, Live
  <2>2. CASE c # d
    BY <1>2, <1>5, <2>1, <2>2
  <2>3. CASE c = d /\ Sets(t, s)
    <3>1. call.op = "setting" /\ call.what = s
      BY <1>1, <2>3 DEF Sets
    <3>2. SettingSet(client'[d], client[d], call)
      BY <1>2, <1>6, <2>1, <2>3, <3>1 DEF ClientChanges
    <3>3. client'[d].settings[s] = call.value
      BY <3>1, <3>2 DEF SettingSet
    <3>4. scene.settings[s] = call.value
      BY <1>1, <1>4, <2>1, <2>3 DEF SettingsInv
    <3> QED
      BY <1>2, <2>3, <3>3, <3>4
  <2>4. CASE c = d /\ ~ Sets(t, s)
    <3>1. ~ (call.op = "setting" /\ call.what = s)
      BY <1>1, <1>2, <2>4 DEF Sets
    <3>2. ClientChanges(client'[d], client[d], call)
      BY <1>2, <2>1, <2>4
    <3>3. client'[d].settings[s] = client[d].settings[s]
      <4>1. CASE call.op = "setting"
        BY <3>1, <3>2, <4>1 DEF ClientChanges, SettingSet
      <4>2. CASE call.op = "member"
        BY <3>2, <4>2 DEF ClientChanges, Grown, MemberSet
      <4>3. CASE call.op \in {"new_source", "delete_source", "delete_all_sources", "level"}
        BY <3>2, <4>3 DEF ClientChanges, Grown, Shrunk
      <4> QED
        BY <1>3, <4>1, <4>2, <4>3
    <3> QED
      BY <1>2, <1>5, <2>1, <2>4, <3>3
  <2> QED
    BY <2>2, <2>3, <2>4
<1> QED
  BY <1>6 DEF ClientSettingsInv

LEMMA ClientSettingsElsewhere ==
  ASSUME PublicationTypes, SubscriptionInv, ReadInv, ClientSettingsInv, Elsewhere
  PROVE  ClientSettingsInv'
<1>1. /\ \A u \in Threads : thread'[u] = thread[u] \/ (~ InLoop(u) /\ ~ InLoop(u)')
      /\ overlapped \subseteq overlapped'
      /\ UNCHANGED <<scene, renderer, agreed>>
      /\ ThreadsTyped /\ ArraysInv /\ LoopsInv /\ JoinInv
      /\ agreed \subseteq Settings
  BY ElsewhereStep DEF PublicationTypes, SubscriptionInv
<1>2. \A u \in Threads : \A s : Sets(u, s) => thread'[u] = thread[u]
  BY <1>1 DEF Sets
<1>3. ASSUME arrays' = arrays, NEW c, NEW s, OwesSetting(s, c)
      PROVE  OwesSetting(s, c)'
  BY <1>2, <1>3, OwesStands
<1>4. ASSUME NEW c \in Clients, Connect(c)
      PROVE  ClientSettingsInv'
  <2>1. /\ UNCHANGED <<client, thread>> /\ link'[c] = "subscribed"
        /\ \A d \in Clients \ {c} : link'[d] = link[d]
        /\ \A n \in 1 .. Len(arrays), d \in Clients, k \in Nat :
             k <= Len(arrays[n]) /\ IsIn(d, arrays'[n], k) => IsIn(d, arrays[n], k)
    BY <1>4, ConnectStep
  <2>2. ASSUME NEW d \in Clients, NEW s, OwesSetting(s, d)
        PROVE  OwesSetting(s, d)'
    <3>1. PICK u \in Threads : Sets(u, s) /\ ~ Told(u, d)
      BY <2>2 DEF OwesSetting
    <3>2. Sets(u, s)'
      BY <2>1, <3>1, OtherThread
    <3>3. PICK n, k : n = thread[u].array /\ k = thread[u].next - 1
      OBVIOUS
    <3>4. n \in 1 .. Len(arrays) /\ k \in Nat /\ k <= Len(arrays[n])
      <4>1. PICK m \in Nat \ {0}, e \in Nat : m = thread[u].next /\ e = thread[u].end
        BY <1>1, <3>1, Order DEF Sets
      <4>2. n \in 1 .. Len(arrays) /\ m <= e /\ e <= Len(arrays[n])
        BY <1>1, <3>1, <3>3, <4>1, Order DEF Sets
      <4>3. Len(arrays[n]) \in Nat
        BY <1>1, <4>2, ArraysParts
      <4> QED
        BY <3>3, <4>1, <4>2, <4>3
    <3>5. ~ IsIn(d, arrays'[n], k)
      BY <2>1, <3>1, <3>3, <3>4 DEF Told
    <3>6. ~ Told(u, d)'
      BY <2>1, <3>3, <3>5 DEF Told, IsIn
    <3> QED
      BY <3>2, <3>6 DEF OwesSetting
  <2>3. \A d \in Clients : link'[d] = "up" => link[d] = "up"
    BY <2>1
  <2> QED
    BY <1>1, <2>1, <2>2, <2>3, ClientSettingsKept
<1>5. ASSUME NEW c \in Clients, Disconnect(c)
      PROVE  ClientSettingsInv'
  <2>1. /\ UNCHANGED <<client, thread>> /\ link'[c] = "gone"
        /\ ~ InLoop("network")
        /\ \A d \in Clients \ {c} : link'[d] = link[d]
        /\ \A t \in Threads : InLoop(t) => overlapped' = Clients
    BY <1>5, DisconnectStep
  <2>2. ASSUME NEW d \in Clients, NEW s, OwesSetting(s, d)
        PROVE  s = "reference_orientation" /\ d \in overlapped'
    <3>1. PICK u \in Threads : Sets(u, s)
      BY <2>2 DEF OwesSetting
    <3>2. InLoop(u) /\ CurrentCall(u).op = "setting" /\ CurrentCall(u).what = s
      BY <3>1 DEF Sets
    <3>3. Publishing(u) /\ u # "network"
      BY <1>1, <2>1, <3>2, Outside
    <3>4. u # "query" /\ (u = "tracker" => s = "reference_orientation")
      BY <1>1, <3>2, <3>3, PublishedCall
    <3> QED
      BY <2>1, <3>2, <3>3, <3>4 DEF Threads
  <2>3. \A d \in Clients : link'[d] = "up" => link[d] = "up"
    BY <2>1
  <2> QED
    BY <1>1, <2>1, <2>2, <2>3, ClientSettingsKept
<1>6. ASSUME NEW c \in Clients, WriteScene(c)
      PROVE  ClientSettingsInv'
  <2>1. /\ link[c] = "reading" /\ arrays' = arrays
        /\ \A d \in Clients \ {c} : link'[d] = link[d] /\ client'[d] = client[d]
        /\ client'[c].settings = whole_scene.settings
    BY <1>6, WriteStep
  <2>2. ASSUME NEW d \in Clients, link'[d] = "up",
               NEW s \in Settings \cap ClientIsTold \cap agreed',
               s # "reference_orientation" \/ d \notin overlapped'
        PROVE  scene'.settings[s] = client'[d].settings[s] \/ OwesSetting(s, d)'
    <3>1. s # "reference_orientation" \/ d \notin overlapped
      BY <1>1, <2>2
    <3>2. CASE d = c
      BY <1>1, <2>1, <3>1, <3>2 DEF ReadInv
    <3>3. CASE d # c
      <4>1. scene.settings[s] = client[d].settings[s] \/ OwesSetting(s, d)
        BY <1>1, <2>1, <2>2, <3>1, <3>3 DEF ClientSettingsInv
      <4> QED
        BY <1>1, <1>3, <2>1, <3>3, <4>1
    <3> QED
      BY <3>2, <3>3
  <2> QED
    BY <2>2 DEF ClientSettingsInv
<1>7. ASSUME (\E c \in Clients : get_scene_as_XML(c)) \/ set_reference_orientation \/ update \/ Unlock
      PROVE  ClientSettingsInv'
  <2>1. UNCHANGED <<client, arrays>> /\ \A d \in Clients : link'[d] = "up" => link[d] = "up"
    BY <1>7, ReadStep, TurnStep, UpdateStep, UnlockStep
  <2> QED
    BY <1>1, <1>3, <2>1, ClientSettingsKept
<1> QED
  BY <1>4, <1>5, <1>6, <1>7 DEF Elsewhere

LEMMA ClientSettingsNext ==
  ASSUME PublicationTypes, SubscriptionInv, ReadInv, SettingsInv, ClientSettingsInv, Next
  PROVE  ClientSettingsInv'
<1>1. agreed \subseteq Settings
  BY DEF PublicationTypes
<1>2. ASSUME Operation \/ Request
      PROVE  ClientSettingsInv'
  <2>1. /\ ~ InLoop("network") /\ Others("network")
        /\ UNCHANGED <<client, arrays, link, overlapped>>
        /\ \/ UNCHANGED <<scene, agreed>>
           \/ SettingSet(scene', scene, now) /\ agreed' = agreed \ {now.what}
    BY <1>2, OperationStep, RequestStep
  <2>2. agreed' \subseteq agreed /\ \A s \in agreed' : scene'.settings[s] = scene.settings[s]
    BY <1>1, <2>1 DEF SettingSet
  <2>3. \A u \in Threads : \A s : thread'[u] = thread[u] \/ ~ Sets(u, s)
    BY <2>1 DEF Others, Sets
  <2>4. \A c \in Clients : \A s : OwesSetting(s, c) => OwesSetting(s, c)'
    BY <2>1, <2>3, OwesStands
  <2> QED
    BY <2>1, <2>2, <2>4, ClientSettingsKept
<1> QED
  BY <1>2, Moves, ClientSettingsBegin, ClientSettingsToScene, ClientSettingsToRenderer,
     ClientSettingsToClient, ClientSettingsElsewhere

------------------------------------------------------------------------------
(* The sources of the clients                                              *)

LEMMA IntroducedNext ==
  ASSUME PublicationTypes, SubscriptionInv, IntroducedInv, Next
  PROVE  IntroducedInv'
<1>1. ThreadsTyped /\ ArraysInv
  BY DEF PublicationTypes, SubscriptionInv
<1>2. ASSUME Resumes PROVE IntroducedInv'
  <2> SUFFICES ASSUME Now("new_source")' PROVE FALSE
    BY DEF IntroducedInv
  <2>1. Busy("network")' /\ now'.op = "new_source"
    BY DEF Now, now
  <2>2. PICK call \in Later : call = now'
    BY <1>2, <2>1 DEF Resumes
  <2> QED
    BY <2>1, <2>2, LaterParts
<1>3. ASSUME UNCHANGED <<now, Behind>>, Now("new_source")' => Now("new_source")
      PROVE  IntroducedInv'
  BY <1>3 DEF IntroducedInv
<1>4. ASSUME thread'["network"] = thread["network"]
      PROVE  IntroducedInv'
  <2>1. UNCHANGED <<now, Behind>> /\ Now("new_source")' = Now("new_source")
    BY <1>4, NetworkStands
  <2> QED
    BY <1>3, <2>1
<1>5. ASSUME NEW t \in Threads, BeginLoop(t) \/ ToScene(t) \/ ToRenderer(t) \/ ToClient(t)
      PROVE  IntroducedInv'
  <2>1. Publishing(t) /\ (thread' = thread \/ Begins(t) \/ Goes(t) \/ Ends(t))
    BY <1>1, <1>5, BeginStep, SceneStep, RendererStep, ClientStep
  <2>2. CASE t # "network" \/ thread' = thread
    BY <1>4, <2>1, <2>2 DEF Begins, Goes, Ends, Others, Threads
  <2>3. CASE t = "network" /\ (Begins(t) \/ Goes(t))
    <3>1. UNCHANGED <<now, Behind>> /\ Now("new_source")' = Now("new_source")
      BY <2>3, SameNow
    <3> QED
      BY <1>3, <3>1
  <2>4. CASE t = "network" /\ Ends(t)
    <3>1. Busy("network") /\ Behind \in Seq(Later)
      BY <2>1, <2>4 DEF Publishing, PublicationTypes
    <3> QED
      BY <1>1, <1>2, <2>4, <3>1, EndsResumes
  <2> QED
    BY <2>1, <2>2, <2>3, <2>4
<1>6. CASE Operation
  <2>1. Resumes \/ \E id \in Ids : Introduces(id)
    BY <1>6, OperationStep
  <2>2. ASSUME NEW id \in Ids, Introduces(id) PROVE IntroducedInv'
    BY <2>2 DEF Introduces, IntroducedInv
  <2> QED
    BY <1>2, <2>1, <2>2
<1>7. CASE Request
  BY <1>2, <1>7, RequestStep
<1>8. CASE Elsewhere
  BY <1>4, <1>8, ElsewhereStep
<1> QED
  BY <1>5, <1>6, <1>7, <1>8, Moves

LEMMA ClientSourcesKept ==
  ASSUME ClientSourcesInv, scene'.sources = scene.sources,
         \A c \in Clients : link'[c] = "up" =>
           link[c] = "up" /\ client'[c].sources = client[c].sources,
         \A c \in Clients : link'[c] = "up" =>
           /\ \A id \in Ids : OwesSource(id, c) => OwesSource(id, c)'
           /\ \A id \in Ids, m \in Members : OwesMember(id, m, c) => OwesMember(id, m, c)',
         Sources(scene) \subseteq Ids
  PROVE  ClientSourcesInv'
<1>1. ASSUME NEW c \in Clients, link'[c] = "up"
      PROVE  /\ \A id \in Sources(scene') : id \in Sources(client'[c]) \/ OwesSource(id, c)'
             /\ \A id \in Sources(scene') \cap Sources(client'[c]), m \in Members \cap ClientIsTold :
                  scene'.sources[id][m] = client'[c].sources[id][m] \/ OwesMember(id, m, c)'
  <2>1. /\ \A id \in Sources(scene) : id \in Sources(client[c]) \/ OwesSource(id, c)
        /\ \A id \in Sources(scene) \cap Sources(client[c]), m \in Members \cap ClientIsTold :
             scene.sources[id][m] = client[c].sources[id][m] \/ OwesMember(id, m, c)
    BY <1>1 DEF ClientSourcesInv, Sources
  <2>2. Sources(scene') = Sources(scene) /\ Sources(client'[c]) = Sources(client[c])
    BY <1>1 DEF Sources
  <2> QED
    BY <1>1, <2>1, <2>2
<1> QED
  BY <1>1 DEF ClientSourcesInv, Sources

LEMMA OwesSourceStands ==
  ASSUME thread'["network"] = thread["network"], arrays' = arrays, NEW c
  PROVE  /\ \A id : OwesSource(id, c)' <=> OwesSource(id, c)
         /\ \A id, m : OwesMember(id, m, c)' <=> OwesMember(id, m, c)
<1>1. /\ now' = now /\ at' = at /\ Behind' = Behind
      /\ \A op : Now(op)' = Now(op)
      /\ Told("network", c)' = Told("network", c)
      /\ Busy("network")' = Busy("network")
  BY NetworkStands, OtherThread DEF Threads
<1>2. ASSUME NEW id PROVE OwesSource(id, c)' <=> OwesSource(id, c)
  BY <1>1 DEF OwesSource
<1>3. ASSUME NEW id, NEW m PROVE OwesMember(id, m, c)' <=> OwesMember(id, m, c)
  BY <1>1 DEF OwesMember, Pending
<1> QED
  BY <1>2, <1>3

LEMMA ClientSourcesBegin ==
  ASSUME PublicationTypes, SubscriptionInv, ClientSourcesInv, NEW t \in Threads, BeginLoop(t)
  PROVE  ClientSourcesInv'
<1>1. /\ Begins(t) /\ ~ InLoop(t) /\ UNCHANGED <<scene, client, link, arrays>>
      /\ Sources(scene) \subseteq Ids
  BY BeginStep, ReplicaParts DEF SubscriptionInv, PublicationTypes
<1>2. CASE t # "network"
  <2>1. thread'["network"] = thread["network"]
    BY <1>1, <1>2 DEF Begins, Others, Threads
  <2> QED
    BY <1>1, <2>1, OwesSourceStands, ClientSourcesKept
<1>3. CASE t = "network"
  <2>1. at = 0 /\ at' = 1
    BY <1>1, <1>3, Outside DEF SubscriptionInv, PublicationTypes, Begins, at
  <2>2. /\ now' = now /\ Behind' = Behind /\ Busy("network")' = Busy("network")
        /\ \A op : Now(op)' = Now(op)
    BY <1>1, <1>3, SameNow
  <2>3. \A c : ~ Told("network", c)'
    BY <2>1 DEF Told, IsIn, at
  <2>4. ASSUME NEW id, NEW c PROVE ~ OwesSource(id, c)
    BY <2>1 DEF OwesSource
  <2>5. ASSUME NEW id, NEW m, NEW c, OwesMember(id, m, c) PROVE OwesMember(id, m, c)'
    BY <2>2, <2>3, <2>5 DEF OwesMember, Pending
  <2> QED
    BY <1>1, <2>4, <2>5, ClientSourcesKept
<1> QED
  BY <1>2, <1>3

LEMMA ClientSourcesToScene ==
  ASSUME PublicationTypes, SubscriptionInv, ClientSourcesInv, NEW t \in Threads, ToScene(t)
  PROVE  ClientSourcesInv'
<1>1. PICK call : call = CurrentCall(t)
  OBVIOUS
<1>2. /\ Publishing(t) /\ InLoop(t) /\ thread[t].next = 1 /\ Goes(t)
      /\ Changes(scene', scene, call)
      /\ UNCHANGED <<client, link, arrays>>
  BY <1>1, SceneStep
<1>3. /\ ThreadsTyped /\ ArraysInv /\ LoopsInv /\ Sources(scene) \subseteq Ids
      /\ call.op \in {"new_source", "delete_source", "delete_all_sources", "member", "setting", "level"}
      /\ call.op \in {"new_source", "delete_source", "delete_all_sources", "member"} => t = "network"
  BY <1>1, <1>2, PublishedCall, ReplicaParts DEF PublicationTypes, SubscriptionInv
<1>4. CASE t # "network"
  <2>1. thread'["network"] = thread["network"] /\ scene'.sources = scene.sources
    BY <1>2, <1>3, <1>4 DEF Goes, Others, Threads, Changes, SettingSet
  <2> QED
    BY <1>2, <1>3, <2>1, OwesSourceStands, ClientSourcesKept
<1>5. CASE t = "network"
  <2>1. /\ now = call /\ at = 1 /\ at' = 2 /\ now' = call /\ Behind' = Behind
        /\ Busy("network") /\ Busy("network")'
        /\ \A op : (Now(op) <=> call.op = op) /\ (Now(op)' <=> call.op = op)
    <3>1. now = call /\ Busy("network") /\ at = 1 /\ at' = 2
      BY <1>1, <1>2, <1>5 DEF now, Publishing, Goes, at
    <3>2. \A op : Now(op) <=> call.op = op
      BY <3>1 DEF Now, now
    <3> QED
      BY <1>2, <1>5, <3>1, <3>2, SameNow
  <2>2. ASSUME NEW c \in Clients PROVE ~ Told("network", c)'
    <3>1. ~ Told(t, c)
      BY <1>2, <1>3, ToldNobody
    <3>2. Current(t) = "scene"
      BY <1>2, <1>3, Order
    <3> QED
      BY <1>2, <1>3, <1>5, <3>1, <3>2, TellsCurrent, ClientsAssumption
  <2>3. ASSUME NEW c \in Clients, NEW id
        PROVE  /\ ~ OwesSource(id, c)
               /\ call.op = "new_source" /\ id = call.id => OwesSource(id, c)'
    BY <2>1, <2>2 DEF OwesSource
  <2>4. ASSUME NEW c \in Clients, NEW id, NEW m
        PROVE  /\ OwesMember(id, m, c) => OwesMember(id, m, c)'
               /\ call.op = "new_source" /\ id = call.id => OwesMember(id, m, c)'
               /\ call.op = "member" /\ id = call.id /\ m = call.what => OwesMember(id, m, c)'
    BY <2>1, <2>2 DEF OwesMember, Pending
  <2>5. /\ \A id \in Sources(scene') : id \in Sources(scene) \/ (call.op = "new_source" /\ id = call.id)
        /\ \A id \in Sources(scene'), m \in Members :
             \/ id \in Sources(scene) /\ scene'.sources[id][m] = scene.sources[id][m]
             \/ call.op = "new_source" /\ id = call.id
             \/ call.op = "member" /\ id = call.id /\ m = call.what
    <3>1. CASE call.op = "new_source"
      BY <1>2, <3>1 DEF Changes, Grown
    <3>2. CASE call.op \in {"delete_source", "delete_all_sources"}
      BY <1>2, <3>2 DEF Changes, Shrunk
    <3>3. CASE call.op = "member"
      BY <1>2, <3>3 DEF Changes, MemberSet
    <3>4. CASE call.op \in {"setting", "level"}
      BY <1>2, <3>4 DEF Changes, SettingSet, Sources
    <3> QED
      BY <1>3, <3>1, <3>2, <3>3, <3>4
  <2>6. ASSUME NEW c \in Clients, link'[c] = "up"
        PROVE  /\ \A id \in Sources(scene') : id \in Sources(client'[c]) \/ OwesSource(id, c)'
               /\ \A id \in Sources(scene') \cap Sources(client'[c]), m \in Members \cap ClientIsTold :
                    scene'.sources[id][m] = client'[c].sources[id][m] \/ OwesMember(id, m, c)'
    <3>1. /\ \A id \in Sources(scene) : id \in Sources(client[c]) \/ OwesSource(id, c)
          /\ \A id \in Sources(scene) \cap Sources(client[c]), m \in Members \cap ClientIsTold :
               scene.sources[id][m] = client[c].sources[id][m] \/ OwesMember(id, m, c)
      BY <1>2, <2>6 DEF ClientSourcesInv, Sources
    <3>2. client' = client
      BY <1>2
    <3> QED
      BY <2>3, <2>4, <2>5, <2>6, <3>1, <3>2
  <2> QED
    BY <2>6 DEF ClientSourcesInv, Sources
<1> QED
  BY <1>4, <1>5

LEMMA ClientSourcesToRenderer ==
  ASSUME PublicationTypes, SubscriptionInv, ClientSourcesInv, NEW t \in Threads, ToRenderer(t)
  PROVE  ClientSourcesInv'
<1>1. /\ Publishing(t) /\ InLoop(t) /\ thread[t].next = 2
      /\ thread' = thread \/ Goes(t) \/ Ends(t)
      /\ UNCHANGED <<scene, client, link, arrays>>
  BY RendererStep
<1>2. ThreadsTyped /\ ArraysInv /\ LoopsInv /\ Sources(scene) \subseteq Ids
  BY ReplicaParts DEF PublicationTypes, SubscriptionInv
<1>3. CASE t # "network" \/ thread' = thread
  <2>1. thread'["network"] = thread["network"]
    BY <1>1, <1>3 DEF Goes, Ends, Others, Threads
  <2> QED
    BY <1>1, <1>2, <2>1, OwesSourceStands, ClientSourcesKept
<1>4. ASSUME NEW c \in Clients PROVE ~ Told(t, c) /\ Current(t) # c
  <2>1. Current(t) = "renderer"
    BY <1>1, <1>2, Order
  <2> QED
    BY <1>1, <1>2, <2>1, ToldNobody, ClientsAssumption
<1>5. CASE t = "network" /\ Goes(t)
  <2>1. /\ at' = 3 /\ at = 2 /\ now' = now /\ Behind' = Behind
        /\ Busy("network")' = Busy("network")
        /\ \A op : Now(op)' = Now(op)
    BY <1>1, <1>5, SameNow DEF Goes, at
  <2>2. ASSUME NEW c \in Clients PROVE ~ Told("network", c)'
    BY <1>1, <1>2, <1>4, <1>5, TellsCurrent
  <2>3. ASSUME NEW c \in Clients, NEW id, OwesSource(id, c) PROVE OwesSource(id, c)'
    BY <2>1, <2>2, <2>3 DEF OwesSource
  <2>4. ASSUME NEW c \in Clients, NEW id, NEW m, OwesMember(id, m, c) PROVE OwesMember(id, m, c)'
    BY <2>1, <2>2, <2>4 DEF OwesMember, Pending
  <2> QED
    BY <1>1, <1>2, <2>3, <2>4, ClientSourcesKept
<1>6. CASE t = "network" /\ Ends(t)
  <2>1. \A c \in Clients : ~ Live(c)
    BY <1>1, <1>2, <1>4, <1>6, ToldAll
  <2> QED
    BY <1>1, <2>1 DEF ClientSourcesInv, Live
<1> QED
  BY <1>1, <1>3, <1>5, <1>6

LEMMA ClientSourcesToClient ==
  ASSUME PublicationTypes, SubscriptionInv, SourcesInv, IntroducedInv, ClientSourcesInv,
         NEW t \in Threads, ToClient(t)
  PROVE  ClientSourcesInv'
<1>1. PICK call, d : call = CurrentCall(t) /\ d = Current(t)
  OBVIOUS
<1>2. /\ Publishing(t) /\ InLoop(t) /\ thread[t].next >= 3
      /\ d \in Clients
      /\ Goes(t) \/ Ends(t)
      /\ UNCHANGED <<scene, arrays, link>>
      /\ \A c \in Clients : c # d => client'[c] = client[c]
      /\ link[d] # "gone" => ClientChanges(client'[d], client[d], call)
  BY <1>1, ClientStep
<1>3. /\ ThreadsTyped /\ ArraysInv /\ LoopsInv /\ Sources(scene) \subseteq Ids
      /\ call.op \in {"new_source", "delete_source", "delete_all_sources", "member", "setting", "level"}
      /\ call.op \in {"new_source", "delete_source", "delete_all_sources", "member"} => t = "network"
      /\ call.op = "member" => call.what \in Members
  BY <1>1, <1>2, PublishedCall, ReplicaParts DEF PublicationTypes, SubscriptionInv
<1>4. CASE t # "network"
  <2>1. thread'["network"] = thread["network"]
    BY <1>2, <1>4 DEF Goes, Ends, Others, Threads
  <2>2. ASSUME NEW c \in Clients, link'[c] = "up"
        PROVE  link[c] = "up" /\ client'[c].sources = client[c].sources
    <3>1. CASE c = d
      <4>1. ClientChanges(client'[d], client[d], call) /\ call.op \in {"setting", "level"}
        BY <1>2, <1>3, <1>4, <2>2, <3>1
      <4> QED
        BY <1>2, <2>2, <3>1, <4>1 DEF ClientChanges, SettingSet
    <3>2. CASE c # d
      BY <1>2, <2>2, <3>2
    <3> QED
      BY <3>1, <3>2
  <2> QED
    BY <1>2, <1>3, <2>1, <2>2, OwesSourceStands, ClientSourcesKept
<1>5. CASE t = "network"
  <2>1. /\ now = call /\ at \in Nat /\ at >= 3 /\ at >= 2 /\ Busy("network")
        /\ \A op : Now(op) <=> call.op = op
    <3>1. now = call /\ Busy("network") /\ at >= 3 /\ at \in Nat
      BY <1>1, <1>2, <1>3, <1>5, LoopParts DEF now, Publishing, at
    <3>2. \A op : Now(op) <=> call.op = op
      BY <3>1 DEF Now, now
    <3> QED
      BY <3>1, <3>2
  <2>2. /\ call.op = "member" /\ call.id \in Sources(scene) =>
             scene.sources[call.id][call.what] = call.value
        /\ call.op = "delete_source" => call.id \notin Sources(scene)
        /\ call.op = "delete_all_sources" => Sources(scene) = {}
    BY <2>1 DEF SourcesInv, Sources
  <2> DEFINE Owed(id, m, c) == \/ call.op = "member" /\ call.id = id /\ call.what = m
                                    /\ ~ Told("network", c) /\ c # d
                               \/ call.op = "new_source" /\ call.id = id
                               \/ Pending(id, m, Behind)
  \* The subscriber has nothing left that it is owed but what the loop still has to tell
  \* others, or what comes later.
  <2>3. ASSUME NEW c \in Clients, link[c] = "up"
        PROVE  /\ \A id \in Sources(scene) :
                    id \in Sources(client'[c]) \/ (OwesSource(id, c) /\ c # d)
               /\ \A id \in Sources(scene) \cap Sources(client'[c]), m \in Members \cap ClientIsTold :
                    scene.sources[id][m] = client'[c].sources[id][m] \/ Owed(id, m, c)
    <3>1. /\ \A id \in Sources(scene) : id \in Sources(client[c]) \/ OwesSource(id, c)
          /\ \A id \in Sources(scene) \cap Sources(client[c]), m \in Members \cap ClientIsTold :
               scene.sources[id][m] = client[c].sources[id][m] \/ OwesMember(id, m, c)
      BY <2>3 DEF ClientSourcesInv, Sources
    <3>2. /\ \A id : OwesSource(id, c) => call.op = "new_source" /\ call.id = id
          /\ \A id, m : OwesMember(id, m, c) =>
               \/ call.op = "member" /\ call.id = id /\ call.what = m /\ ~ Told("network", c)
               \/ call.op = "new_source" /\ call.id = id
               \/ Pending(id, m, Behind)
      BY <2>1 DEF OwesSource, OwesMember
    <3>3. CASE c # d
      <4>1. client'[c] = client[c]
        BY <1>2, <3>3
      <4> QED
        BY <3>1, <3>2, <3>3, <4>1
    <3>4. CASE c = d
      <4>1. ClientChanges(client'[c], client[c], call)
        BY <1>2, <2>3, <3>4
      <4>2. CASE call.op = "new_source"
        <5>1. Grown(client'[c], client[c], call.id)
          BY <4>1, <4>2 DEF ClientChanges
        <5>2. \A id \in Sources(scene) : id \in Sources(client'[c])
          BY <3>1, <3>2, <5>1 DEF Grown
        <5>3. ASSUME NEW id \in Sources(scene) \cap Sources(client'[c]),
                     NEW m \in Members \cap ClientIsTold
              PROVE  scene.sources[id][m] = client'[c].sources[id][m] \/ Owed(id, m, c)
          <6>1. CASE id = call.id
            BY <4>2, <6>1
          <6>2. CASE id # call.id
            <7>1. id \in Sources(client[c]) /\ client'[c].sources[id] = client[c].sources[id]
              BY <5>1, <6>2 DEF Grown
            <7>2. OwesMember(id, m, c) => Owed(id, m, c)
              BY <3>2, <4>2
            <7> QED
              BY <3>1, <7>1, <7>2
          <6> QED
            BY <6>1, <6>2
        <5> QED
          BY <5>2, <5>3
      <4>3. CASE call.op \in {"delete_source", "delete_all_sources"}
        <5>1. PICK ids : /\ Shrunk(client'[c], client[c], ids)
                         /\ \A id \in Sources(scene) : id \notin ids
          BY <2>2, <4>1, <4>3 DEF ClientChanges
        <5>2. \A id \in Sources(scene) : id \in Sources(client'[c])
          BY <3>1, <3>2, <4>3, <5>1 DEF Shrunk
        <5>3. \A id \in Sources(client'[c]) :
                id \in Sources(client[c]) /\ client'[c].sources[id] = client[c].sources[id]
          BY <5>1 DEF Shrunk
        <5>4. \A id, m : OwesMember(id, m, c) => Owed(id, m, c)
          BY <3>2, <4>3
        <5> QED
          BY <3>1, <5>2, <5>3, <5>4
      <4>4. CASE call.op = "member" /\ call.what \in ClientIsTold
        <5>1. PICK p \in Replicas : Grown(p, client[c], call.id) /\ MemberSet(client'[c], p, call)
          BY <4>1, <4>4 DEF ClientChanges
        <5>2. \A id \in Sources(scene) : id \in Sources(client[c]) /\ id \in Sources(client'[c])
          BY <3>1, <3>2, <4>4, <5>1 DEF Grown, MemberSet
        <5>3. ASSUME NEW id \in Sources(scene), NEW m \in Members
              PROVE  client'[c].sources[id][m] = IF id = call.id /\ m = call.what THEN call.value
                                                 ELSE client[c].sources[id][m]
          BY <5>1, <5>2 DEF Grown, MemberSet
        <5>4. ASSUME NEW id \in Sources(scene), NEW m \in Members \cap ClientIsTold
              PROVE  scene.sources[id][m] = client'[c].sources[id][m] \/ Owed(id, m, c)
          <6>1. CASE id = call.id /\ m = call.what
            BY <2>2, <4>4, <5>3, <6>1
          <6>2. CASE ~ (id = call.id /\ m = call.what)
            <7>1. OwesMember(id, m, c) => Owed(id, m, c)
              BY <3>2, <6>2
            <7>2. client'[c].sources[id][m] = client[c].sources[id][m]
              BY <5>3, <6>2
            <7> QED
              BY <3>1, <5>2, <7>1, <7>2
          <6> QED
            BY <6>1, <6>2
        <5> QED
          BY <5>2, <5>4
      <4>5. CASE call.op \in {"setting", "level"} \/ (call.op = "member" /\ call.what \notin ClientIsTold)
        <5>1. client'[c].sources = client[c].sources /\ Sources(client'[c]) = Sources(client[c])
          BY <4>1, <4>5 DEF ClientChanges, SettingSet, Sources
        <5>2. \A id \in Sources(scene) : id \in Sources(client'[c])
          BY <3>1, <3>2, <4>5, <5>1
        <5>3. \A id, m : m \in ClientIsTold /\ OwesMember(id, m, c) => Owed(id, m, c)
          BY <3>2, <4>5
        <5> QED
          BY <3>1, <5>1, <5>2, <5>3
      <4> QED
        BY <1>3, <4>2, <4>3, <4>4, <4>5
    <3> QED
      BY <3>3, <3>4
  <2> HIDE DEF Owed
  <2>4. CASE Goes(t)
    <3>1. /\ at' = at + 1 /\ now' = now /\ Behind' = Behind
          /\ Busy("network")' = Busy("network")
          /\ \A op : Now(op)' = Now(op)
      BY <1>5, <2>4, SameNow DEF Goes, at
    <3>2. at' >= 2
      BY <2>1, <3>1
    <3>3. ASSUME NEW c \in Clients PROVE Told("network", c)' <=> Told("network", c) \/ c = d
      BY <1>1, <1>2, <1>3, <1>5, <2>4, TellsCurrent
    <3>4. ASSUME NEW c \in Clients, NEW id, OwesSource(id, c), c # d
          PROVE  OwesSource(id, c)'
      BY <3>1, <3>2, <3>3, <3>4 DEF OwesSource
    <3>5. ASSUME NEW c \in Clients, NEW id, NEW m, Owed(id, m, c)
          PROVE  OwesMember(id, m, c)'
      <4>1. /\ now' = call /\ Busy("network")' /\ \A op : Now(op)' <=> call.op = op
            /\ Pending(id, m, Behind') <=> Pending(id, m, Behind)
        BY <2>1, <3>1
      <4> QED
        BY <3>3, <3>5, <4>1 DEF OwesMember, Owed, Pending
    <3>6. ASSUME NEW c \in Clients, link'[c] = "up"
          PROVE  /\ \A id \in Sources(scene') : id \in Sources(client'[c]) \/ OwesSource(id, c)'
                 /\ \A id \in Sources(scene') \cap Sources(client'[c]), m \in Members \cap ClientIsTold :
                      scene'.sources[id][m] = client'[c].sources[id][m] \/ OwesMember(id, m, c)'
      BY <1>2, <2>3, <3>4, <3>5, <3>6
    <3> QED
      BY <3>6 DEF ClientSourcesInv, Sources
  <2>5. CASE Ends(t)
    <3>1. Resumes
      BY <1>3, <1>5, <2>1, <2>5, EndsResumes DEF PublicationTypes
    <3>2. ASSUME NEW c \in Clients, link[c] = "up"
          PROVE  Told("network", c) \/ c = d
      BY <1>1, <1>2, <1>3, <1>5, <2>5, <3>2, ToldAll DEF Live
    <3>3. ASSUME NEW c PROVE ~ Told("network", c)'
      BY <3>1 DEF Resumes, Told, IsIn, at
    <3>4. ASSUME NEW c \in Clients, link[c] = "up", NEW id \in Ids,
                 NEW m \in Members \cap ClientIsTold, Owed(id, m, c)
          PROVE  OwesMember(id, m, c)'
      <4>1. Pending(id, m, Behind)
        BY <2>1, <3>2, <3>4 DEF Owed, IntroducedInv
      <4>2. /\ Busy("network")'
            /\ \/ Pending(id, m, Behind')
               \/ Now("member")' /\ now'.id = id /\ now'.what = m
        BY <2>1, <3>1, <4>1 DEF Resumes
      <4> QED
        BY <3>3, <4>2 DEF OwesMember, Pending
    <3>5. ASSUME NEW c \in Clients, link'[c] = "up"
          PROVE  /\ \A id \in Sources(scene') : id \in Sources(client'[c]) \/ OwesSource(id, c)'
                 /\ \A id \in Sources(scene') \cap Sources(client'[c]), m \in Members \cap ClientIsTold :
                      scene'.sources[id][m] = client'[c].sources[id][m] \/ OwesMember(id, m, c)'
      <4>1. \A id : ~ (OwesSource(id, c) /\ c # d)
        BY <1>2, <3>2, <3>5 DEF OwesSource
      <4> QED
        BY <1>2, <1>3, <2>3, <3>4, <3>5, <4>1
    <3> QED
      BY <3>5 DEF ClientSourcesInv, Sources
  <2> QED
    BY <1>2, <2>4, <2>5
<1> QED
  BY <1>4, <1>5

LEMMA ClientSourcesNext ==
  ASSUME PublicationTypes, SubscriptionInv, ReadInv, SourcesInv, IntroducedInv, ClientSourcesInv,
         Next
  PROVE  ClientSourcesInv'
<1>1. ThreadsTyped /\ LoopsInv /\ JoinInv /\ Sources(scene) \subseteq Ids
  BY ReplicaParts DEF PublicationTypes, SubscriptionInv
<1>2. ASSUME NEW c, NEW id, NEW m, ~ Busy("network")
      PROVE  ~ OwesSource(id, c) /\ ~ OwesMember(id, m, c)
  BY <1>2 DEF OwesSource, OwesMember, Now
<1>3. CASE Request
  <2>1. ~ Busy("network") /\ UNCHANGED <<scene, client, link>>
    BY <1>3, RequestStep
  <2> QED
    BY <1>1, <1>2, <2>1, ClientSourcesKept
<1>4. CASE Operation
  <2>1. /\ Busy("network") /\ ~ Publishing("network")
        /\ Resumes \/ \E id \in Ids : Introduces(id)
        /\ scene'.sources = scene.sources /\ UNCHANGED <<client, link>>
    BY <1>4, OperationStep DEF SettingSet
  <2>2. now.op \in Operations
    BY <2>1 DEF Publishing, now, CurrentCall
  <2>3. ASSUME NEW c, NEW id PROVE ~ OwesSource(id, c)
    BY <2>2 DEF OwesSource, Now, now, Operations
  <2>4. ASSUME NEW c, NEW id \in Ids, NEW m \in Members, OwesMember(id, m, c)
        PROVE  OwesMember(id, m, c)'
    <3>1. Pending(id, m, Behind)
      BY <2>2, <2>4 DEF OwesMember, Now, now, Operations
    <3>2. ~ Told("network", c)'
      <4>1. at' = 0
        BY <2>1 DEF Resumes, Introduces
      <4> QED
        BY <4>1 DEF Told, IsIn, at
    <3>3. \/ Busy("network")' /\ Pending(id, m, Behind')
          \/ Now("member")' /\ now'.id = id /\ now'.what = m
      BY <2>1, <3>1 DEF Resumes, Introduces, Now
    <3> QED
      BY <3>2, <3>3 DEF OwesMember, Pending
  <2> QED
    BY <1>1, <2>1, <2>3, <2>4, ClientSourcesKept
<1>5. ASSUME NEW c \in Clients, Connect(c) \/ Disconnect(c)
      PROVE  ClientSourcesInv'
  <2>1. /\ ~ Busy("network") /\ UNCHANGED <<scene, client>>
        /\ \A d \in Clients : link'[d] = "up" => link[d] = "up"
    BY <1>5, ConnectStep, DisconnectStep
  <2> QED
    BY <1>1, <1>2, <2>1, ClientSourcesKept
<1>6. ASSUME NEW c \in Clients, WriteScene(c)
      PROVE  ClientSourcesInv'
  <2>1. /\ link[c] = "reading" /\ scene' = scene
        /\ \A d \in Clients \ {c} : link'[d] = link[d] /\ client'[d] = client[d]
        /\ Sources(whole_scene) \subseteq Sources(client'[c])
        /\ \A id \in Sources(whole_scene) : client'[c].sources[id] = whole_scene.sources[id]
    BY <1>6, WriteStep
  <2>2. ~ Busy("network") /\ whole_scene.sources = scene.sources
    BY <1>1, <2>1 DEF JoinInv, Joining, ReadInv
  <2>3. ASSUME NEW d \in Clients, link'[d] = "up"
        PROVE  /\ \A id \in Sources(scene) : id \in Sources(client'[d])
               /\ \A id \in Sources(scene) \cap Sources(client'[d]), m \in Members \cap ClientIsTold :
                    scene.sources[id][m] = client'[d].sources[id][m]
    <3>1. CASE d = c
      BY <2>1, <2>2, <3>1 DEF Sources
    <3>2. CASE d # c
      BY <1>2, <2>1, <2>2, <2>3, <3>2 DEF ClientSourcesInv, Sources
    <3> QED
      BY <3>1, <3>2
  <2> QED
    BY <2>1, <2>3 DEF ClientSourcesInv, Sources
<1>7. ASSUME (\E c \in Clients : get_scene_as_XML(c)) \/ set_reference_orientation \/ update \/ Unlock
      PROVE  ClientSourcesInv'
  <2>1. /\ UNCHANGED <<scene, client, arrays>>
        /\ \A d \in Clients : link'[d] = "up" => link[d] = "up"
    BY <1>7, ReadStep, TurnStep, UpdateStep, UnlockStep
  <2>2. thread'["network"] = thread["network"]
    BY <1>7, ElsewhereStep DEF Elsewhere
  <2> QED
    BY <1>1, <2>1, <2>2, OwesSourceStands, ClientSourcesKept
<1>8. ASSUME NEW t \in Threads, BeginLoop(t) \/ ToScene(t) \/ ToRenderer(t) \/ ToClient(t)
      PROVE  ClientSourcesInv'
  BY <1>8, ClientSourcesBegin, ClientSourcesToScene, ClientSourcesToRenderer, ClientSourcesToClient
<1> QED
  BY <1>3, <1>4, <1>5, <1>6, <1>7, <1>8 DEF Next

------------------------------------------------------------------------------
(* What the invariant says of the clients                                  *)

LEMMA InitClients ==
  Init => ReadInv /\ IntroducedInv /\ ClientSourcesInv /\ ClientSettingsInv /\ QueryInv /\ LevelsInv
<1> SUFFICES ASSUME Init
    PROVE  ReadInv /\ IntroducedInv /\ ClientSourcesInv /\ ClientSettingsInv /\ QueryInv /\ LevelsInv
  OBVIOUS
<1>1. \A c \in Clients : link[c] = "none" /\ _source_levels[c] = {}
  BY DEF Init
<1>2. ~ Now("new_source") /\ ~ Busy("query") /\ thread["query"] = Idle
  BY InitIdle DEF Threads
<1>3. DOMAIN thread["query"].todo = {}
  BY <1>2 DEF Idle
<1> QED
  BY <1>1, <1>2, <1>3 DEF ReadInv, IntroducedInv, ClientSourcesInv, ClientSettingsInv, QueryInv,
                          LevelsInv, Live

LEMMA IsOutstanding ==
  ASSUME ThreadsTyped, NEW t \in Threads, NEW k \in DOMAIN thread[t].todo
  PROVE  thread[t].todo[k] \in Outstanding
BY DEF Outstanding, ToSet

LEMMA FollowedByClients ==
  ASSUME PublicationTypes, SubscriptionInv, ClientSourcesInv, ClientSettingsInv
  PROVE  ClientsFollowScene
<1>1. ThreadsTyped /\ LoopsInv
  BY DEF PublicationTypes, SubscriptionInv
<1>2. ASSUME NEW t \in Threads, Busy(t) PROVE CurrentCall(t) \in Outstanding
  <2>1. thread[t].todo \in Seq(CallsOf(t)) /\ thread[t].todo # <<>>
    BY <1>1, <1>2, LoopParts DEF Busy
  <2>2. CurrentCall(t) = thread[t].todo[1] /\ 1 \in DOMAIN thread[t].todo
    BY <2>1, FirstCall DEF CurrentCall
  <2> QED
    BY <1>1, <2>2, IsOutstanding
<1>3. ASSUME Busy("network"), NEW k \in DOMAIN Behind PROVE Behind[k] \in Outstanding
  <2>1. PICK todo \in Seq(CallsOf("network")) : todo = thread["network"].todo
    BY <1>1, LoopParts DEF Threads
  <2>2. /\ todo # <<>> /\ Len(todo) \in Nat /\ DOMAIN todo = 1 .. Len(todo)
        /\ DOMAIN Behind = 1 .. Len(todo) - 1
        /\ \A j \in 1 .. Len(todo) - 1 : Behind[j] = todo[j + 1]
    BY <1>3, <2>1, FirstCall DEF Busy, Behind
  <2>3. k + 1 \in DOMAIN todo /\ Behind[k] = todo[k + 1]
    BY <1>3, <2>2
  <2>4. "network" \in Threads
    BY DEF Threads
  <2>5. PICK j : j = k + 1
    OBVIOUS
  <2> QED
    BY <1>1, <2>1, <2>3, <2>4, <2>5, IsOutstanding
<1>4. ASSUME NEW op, Now(op) PROVE now \in Outstanding /\ now.op = op
  BY <1>2, <1>4 DEF Now, now, Threads
<1>5. ASSUME NEW c \in Clients, link[c] = "up", NEW known,
             known = [client[c] EXCEPT !.sources =
                        [id \in DOMAIN @ \cap DOMAIN scene.sources |-> @[id]]],
             NEW settings,
             settings = IF c \in overlapped THEN agreed \ {"reference_orientation"} ELSE agreed
      PROVE  Agree(scene, known, Members \cap ClientIsTold, settings \cap ClientIsTold, Outstanding)
  <2>1. PICK replica \in Replicas : replica = client[c]
    BY <1>5 DEF PublicationTypes
  <2>2. PICK f : f = [id \in DOMAIN replica.sources \cap DOMAIN scene.sources |-> replica.sources[id]]
    OBVIOUS
  <2>3. known.sources = f /\ known.settings = replica.settings
    <3>1. known = [replica EXCEPT !.sources = f]
      BY <1>5, <2>1, <2>2
    <3>2. replica = [sources |-> replica.sources, settings |-> replica.settings]
      BY DEF Replicas
    <3> QED
      BY <3>1, <3>2
  <2>4. /\ \A id \in DOMAIN scene.sources : id \in DOMAIN replica.sources \/ OwesSource(id, c)
        /\ \A id \in DOMAIN scene.sources \cap DOMAIN replica.sources,
              m \in Members \cap ClientIsTold :
             scene.sources[id][m] = replica.sources[id][m] \/ OwesMember(id, m, c)
    BY <1>5, <2>1 DEF ClientSourcesInv
  <2>5. ASSUME NEW id \in Ids
        PROVE  \/ \E call \in Outstanding : call.op \in CallsOfExistence /\ call.id \in {0, id}
               \/ /\ id \in DOMAIN scene.sources <=> id \in DOMAIN known.sources
                  /\ id \in DOMAIN scene.sources =>
                       \A m \in Members \cap ClientIsTold :
                         \/ scene.sources[id][m] = known.sources[id][m]
                         \/ \E call \in Outstanding : call.id = id /\ call.what = m
    <3>1. CASE Now("new_source") /\ now.id = id
      BY <1>4, <3>1 DEF CallsOfExistence
    <3>2. CASE ~ (Now("new_source") /\ now.id = id)
      <4>1. ~ OwesSource(id, c)
        BY <3>2 DEF OwesSource
      <4>2. id \in DOMAIN scene.sources <=> id \in DOMAIN f
        BY <2>2, <2>4, <4>1
      <4>3. ASSUME NEW m, OwesMember(id, m, c)
            PROVE  \E call \in Outstanding : call.id = id /\ call.what = m
        <5>1. CASE Now("member") /\ now.id = id /\ now.what = m
          BY <1>4, <5>1
        <5>2. CASE Busy("network") /\ Pending(id, m, Behind)
          BY <1>3, <5>2 DEF Pending
        <5> QED
          BY <3>2, <4>3, <5>1, <5>2 DEF OwesMember
      <4>4. ASSUME id \in DOMAIN scene.sources, NEW m \in Members \cap ClientIsTold
            PROVE  \/ scene.sources[id][m] = f[id][m]
                   \/ \E call \in Outstanding : call.id = id /\ call.what = m
        <5>1. id \in DOMAIN replica.sources /\ f[id] = replica.sources[id]
          BY <2>2, <4>2, <4>4
        <5> QED
          BY <2>4, <4>3, <4>4, <5>1
      <4> QED
        BY <2>3, <4>2, <4>4
    <3> QED
      BY <3>1, <3>2
  <2>6. ASSUME NEW s \in settings \cap ClientIsTold
        PROVE  \/ scene.settings[s] = known.settings[s]
               \/ \E call \in Outstanding : call.what = s
    <3>1. s \in Settings /\ s \in agreed /\ (s # "reference_orientation" \/ c \notin overlapped)
      BY <1>5, <2>6 DEF PublicationTypes
    <3>2. scene.settings[s] = replica.settings[s] \/ OwesSetting(s, c)
      BY <1>5, <2>1, <2>6, <3>1 DEF ClientSettingsInv
    <3>3. ASSUME NEW t \in Threads, Sets(t, s)
          PROVE  CurrentCall(t) \in Outstanding /\ CurrentCall(t).what = s
      BY <1>1, <1>2, <3>3, Outside DEF Sets
    <3> QED
      BY <2>3, <3>2, <3>3 DEF OwesSetting
  <2> QED
    BY <2>5, <2>6, Zenon DEF Agree
<1> QED
  BY <1>5, Zenon DEF ClientsFollowScene

LEMMA LevelsEnd ==
  ASSUME PublicationTypes, SourcesInv, LevelsInv
  PROVE  LevelsOfSources
<1> SUFFICES ASSUME ~ Busy("network"), NEW c \in Clients, link[c] = "up",
                    NEW id \in _source_levels[c]
             PROVE  id \in DOMAIN scene.sources
  BY DEF LevelsOfSources
<1>1. ~ Between(id) /\ ~ Deleting(id, c)
  BY DEF Between, Deleting, Now
<1>2. id \in DOMAIN renderer.sources
  BY <1>1 DEF LevelsInv, Live
<1>3. id \in Ids
  BY DEF PublicationTypes
<1> QED
  BY <1>1, <1>2, <1>3 DEF SourcesInv

------------------------------------------------------------------------------
(* The theorems                                                            *)

LEMMA PublicationInvariant ==
  Spec => []PublicationInv
<1>1. Init => PublicationInv
  BY InitTypes, InitSubscription, InitReplicas, InitClients DEF PublicationInv, SubscriptionInv
<1>2. PublicationInv /\ [Next]_vars => PublicationInv'
  <2> SUFFICES ASSUME PublicationInv, [Next]_vars PROVE PublicationInv'
    OBVIOUS
  <2>1. /\ PublicationTypes /\ SubscriptionInv /\ ReadInv /\ SettingsInv /\ SourcesInv
        /\ IntroducedInv /\ ClientSourcesInv /\ ClientSettingsInv /\ QueryInv /\ LevelsInv
    BY DEF PublicationInv, SubscriptionInv
  <2>2. CASE Next
    <3>1. PublicationTypes' /\ SubscriptionInv' /\ SettingsInv' /\ SourcesInv' /\ ReadInv'
      BY <2>1, <2>2, SubscriptionNext, SettingsNext, SourcesNext, ReadNext
    <3>2. IntroducedInv' /\ ClientSourcesInv' /\ ClientSettingsInv' /\ QueryInv' /\ LevelsInv'
      BY <2>1, <2>2, IntroducedNext, ClientSourcesNext, ClientSettingsNext, QueryNext, LevelsNext
    <3> QED
      BY <3>1, <3>2 DEF PublicationInv, SubscriptionInv
  <2>3. CASE UNCHANGED vars
    <3>1. /\ UNCHANGED <<scene, renderer, _highest_id, client, _source_levels, arrays, thread>>
          /\ UNCHANGED <<locked, link, whole_scene, requests, turns, agreed, overlapped>>
      BY <2>3 DEF vars
    <3>2. /\ thread'["network"] = thread["network"] /\ arrays' = arrays
          /\ \A u \in Threads : thread'[u] = thread[u]
      BY <3>1
    <3>3. PublicationTypes'
      BY <2>1, <3>1 DEF PublicationTypes, ThreadsTyped, Busy, Behind
    <3>4. SubscriptionInv'
      BY <2>1, <3>1, SubscriptionStays DEF Live, Joining
    <3>5. Sources(scene) \subseteq Ids
      BY <2>1, ReplicaParts DEF PublicationTypes
    <3>6. ReadInv' /\ SettingsInv' /\ SourcesInv'
      BY <2>1, <3>1, <3>2, ReadKept, SettingsRest, SourcesKept
    <3>7. ClientSourcesInv'
      BY <2>1, <3>1, <3>2, <3>5, OwesSourceStands, ClientSourcesKept
    <3>8. ClientSettingsInv'
      BY <2>1, <3>1, <3>2, OwesStands, ClientSettingsKept
    <3>9. QueryInv'
      BY <2>1, <3>1, QueryKept DEF QueryInv, Busy
    <3>10. LevelsInv'
      BY <2>1, <3>1, <3>2, DeletingStands, LevelsKept DEF Live
    <3>11. IntroducedInv'
      <4>1. UNCHANGED <<now, Behind>> /\ Now("new_source")' = Now("new_source")
        BY <3>2, NetworkStands
      <4> QED
        BY <2>1, <4>1 DEF IntroducedInv
    <3> QED
      BY <3>3, <3>4, <3>6, <3>7, <3>8, <3>9, <3>10, <3>11 DEF PublicationInv, SubscriptionInv
  <2> QED
    BY <2>2, <2>3
<1> QED
  BY <1>1, <1>2, PTL DEF Spec

\* The renderer, which is what is heard, differs from the scene by no more than what is just
\* being published: for any connections that come and go (controller.h, _publish()).
THEOREM RendererFollows ==
  Spec => []RendererFollowsScene
<1>1. PublicationInv => RendererFollowsScene
  BY FollowedByRenderer DEF PublicationInv, SubscriptionInv
<1> QED
  BY <1>1, PublicationInvariant, PTL

\* Every client of the network has what the scene has, but for what is still to be published:
\* subscribing first and then sending the whole scene (connection.cpp, Connection::start())
\* loses nothing but an orientation of the reference that the tracker publishes meanwhile.
THEOREM ClientsFollow ==
  Spec => []ClientsFollowScene
<1>1. PublicationInv => ClientsFollowScene
  BY FollowedByClients DEF PublicationInv, SubscriptionInv
<1> QED
  BY <1>1, PublicationInvariant, PTL

\* No connection goes on sending the level of a source that was deleted: the lock of the
\* renderer orders the levels and the deletion (controller.h, query_state::update()).
THEOREM LevelsStop ==
  Spec => []LevelsOfSources
<1>1. PublicationInv => LevelsOfSources
  BY LevelsEnd DEF PublicationInv
<1> QED
  BY <1>1, PublicationInvariant, PTL

------------------------------------------------------------------------------
(* A source whose position is fixed                                        *)

\* No ID is used again while the renderer has a source with it.
HighestInv == \A id \in Sources(renderer) : id <= _highest_id

\* What is published of a new or moved source until its position is, ...
Opening(id) == { call \in Later \cup AtOnce : /\ call.op \in {"new_source", "member"}
                                              /\ call.id = id
                                              /\ call.what # "position_fixed" }

\* ... and what moves no source.
Staying == { call \in Later \cup AtOnce : ~ (call.op = "member" /\ call.what = "position") }

\* Calls that open, for a source that is not fixed, and then move nothing.
Splits(id, calls) ==
  \E a \in Seq(Opening(id)), b \in Seq(Staying) :
    calls = a \o b /\ (a # <<>> => ~ get_source_position_fixed(id))

\* Only the calls the network thread turns to next can be about a position, and
\* the scene has not fixed it.
MovesInv == \E id : Splits(id, thread["network"].todo)

FixedInv == HighestInv /\ MovesInv

LEMMA AlsoLater ==
  /\ \A id : Seq(Opening(id)) \subseteq Seq(Later \cup AtOnce)
  /\ Seq(Staying) \subseteq Seq(Later \cup AtOnce)
<1>1. Staying \subseteq Later \cup AtOnce /\ \A id : Opening(id) \subseteq Later \cup AtOnce
  BY DEF Staying, Opening
<1>2. ASSUME NEW S, NEW T, S \subseteq T PROVE Seq(S) \subseteq Seq(T)
  BY <1>2
<1> QED
  BY <1>1, <1>2

LEMMA FixedStands ==
  ASSUME scene'.sources = scene.sources
  PROVE  \A id : get_source_position_fixed(id)' = get_source_position_fixed(id)
BY DEF get_source_position_fixed

\* The rest of such calls is such calls.
LEMMA SplitsTail ==
  ASSUME NEW id, NEW todo, Splits(id, todo), todo # <<>>, scene'.sources = scene.sources
  PROVE  Splits(id, Tail(todo))'
<1>1. PICK a \in Seq(Opening(id)), b \in Seq(Staying) :
        todo = a \o b /\ (a # <<>> => ~ get_source_position_fixed(id))
  BY DEF Splits
<1>2. PICK c \in Seq(Opening(id)), d \in Seq(Staying) :
        Tail(todo) = c \o d /\ (c # <<>> => ~ get_source_position_fixed(id))
  <2>1. CASE a = <<>>
    <3>1. todo = b /\ b # <<>>
      BY <1>1, <2>1
    <3>2. Tail(b) \in Seq(Staying)
      BY <3>1
    <3>3. \E d \in Seq(Staying) : Tail(todo) = <<>> \o d
      <4>1. PICK d \in Seq(Staying) : d = Tail(b)
        BY <3>2
      <4>2. <<>> \o d = d
        OBVIOUS
      <4> QED
        BY <3>1, <4>1, <4>2
    <3>4. <<>> \in Seq(Opening(id))
      OBVIOUS
    <3> QED
      BY <3>3, <3>4
  <2>2. CASE a # <<>>
    <3>1. a \in Seq(Later \cup AtOnce) /\ b \in Seq(Later \cup AtOnce)
      BY AlsoLater
    <3>2. Tail(todo) = Tail(a) \o b
      BY <1>1, <2>2, <3>1, TailJoined
    <3>3. Tail(a) \in Seq(Opening(id))
      BY <2>2
    <3> QED
      BY <1>1, <2>2, <3>2, <3>3
  <2> QED
    BY <2>1, <2>2
<1>3. get_source_position_fixed(id)' = get_source_position_fixed(id)
  BY FixedStands
<1> QED
  BY <1>2, <1>3 DEF Splits

LEMMA SplitsStand ==
  ASSUME NEW id, NEW todo, Splits(id, todo), scene'.sources = scene.sources
  PROVE  Splits(id, todo)'
<1>1. get_source_position_fixed(id)' = get_source_position_fixed(id)
  BY FixedStands
<1> QED
  BY <1>1 DEF Splits

LEMMA JoinedAgain ==
  ASSUME NEW S, NEW x \in Seq(S), NEW y \in Seq(S), NEW z \in Seq(S)
  PROVE  (x \o y) \o z = x \o (y \o z)
OBVIOUS

LEMMA SplitsMore ==
  ASSUME NEW id, NEW calls, Splits(id, calls), NEW more \in Seq(Staying)
  PROVE  Splits(id, calls \o more)
<1>1. PICK a \in Seq(Opening(id)), b \in Seq(Staying) :
        calls = a \o b /\ (a # <<>> => ~ get_source_position_fixed(id))
  BY DEF Splits
<1>2. /\ a \in Seq(Later \cup AtOnce) /\ b \in Seq(Later \cup AtOnce)
      /\ more \in Seq(Later \cup AtOnce)
  BY AlsoLater
<1>3. calls \o more = a \o (b \o more)
  BY <1>1, <1>2, JoinedAgain
<1>4. b \o more \in Seq(Staying)
  OBVIOUS
<1> QED
  BY <1>1, <1>3, <1>4 DEF Splits

\* An operation moves no source, so that no call behind it does.
LEMMA MovesInstead ==
  ASSUME ThreadsTyped, MovesInv, Busy("network"), now.op \in Operations,
         NEW id, NEW calls, Splits(id, calls),
         thread'["network"].todo = calls \o Behind, scene'.sources = scene.sources
  PROVE  MovesInv'
<1>0. PICK i : Splits(i, thread["network"].todo)
  BY DEF MovesInv
<1>1. PICK a \in Seq(Opening(i)), b \in Seq(Staying) : thread["network"].todo = a \o b
  BY <1>0 DEF Splits
<1>2. a = <<>>
  <2> SUFFICES ASSUME a # <<>> PROVE FALSE
    OBVIOUS
  <2>1. a \in Seq(Later \cup AtOnce) /\ b \in Seq(Later \cup AtOnce)
    BY AlsoLater
  <2>2. now = Head(a)
    BY <1>1, <2>1, TailJoined DEF now, CurrentCall
  <2>3. Head(a) \in Opening(i)
    OBVIOUS
  <2> QED
    BY <2>2, <2>3 DEF Opening, Operations
<1>3. thread["network"].todo = b /\ b # <<>>
  <2>1. <<>> \o b = b
    OBVIOUS
  <2> QED
    BY <1>1, <1>2, <2>1 DEF Busy
<1>4. Behind \in Seq(Staying)
  BY <1>3 DEF Behind
<1>5. PICK c \in Seq(Opening(id)), d \in Seq(Staying) :
        calls \o Behind = c \o d /\ (c # <<>> => ~ get_source_position_fixed(id))
  <2>1. PICK more \in Seq(Staying) : more = Behind
    BY <1>4
  <2>2. Splits(id, calls \o more)
    BY SplitsMore
  <2> QED
    BY <2>1, <2>2 DEF Splits
<1>6. get_source_position_fixed(id)' = get_source_position_fixed(id)
  BY FixedStands
<1> QED
  BY <1>5, <1>6 DEF MovesInv, Splits

\* new_source(): the position is published before it is fixed.
LEMMA TransmissionSplits ==
  ASSUME NEW id \in Ids, NEW v \in Values, ~ get_source_position_fixed(id)
  PROVE  Splits(id, Transmission(id, v))
<1> DEFINE given(m) == IF m \in Members THEN <<SetMember(id, m, v)>> ELSE <<>>
           s0 == <<Call("new_source", id, "", 0), SetMember(id, "mute", 1)>>
           s1 == s0 \o given("gain")
           s2 == s1 \o given("position")
           s3 == s2 \o given("position_fixed")
           s4 == s3 \o given("orientation")
           s5 == s4 \o given("name")
           s6 == s5 \o given("model")
           s7 == s6 \o given("port_name")
           s8 == s7 \o given("file_name")
           s9 == s8 \o given("file_channel")
           s10 == s9 \o given("file_length")
           s11 == s10 \o given("properties_file")
<1>1. "mute" \in Members /\ 1 \in Values
  BY MembersAssumption DEF Values
<1>2. ASSUME NEW m \in Members, NEW w \in Values
      PROVE  /\ m # "position" => SetMember(id, m, w) \in Staying
             /\ m # "position_fixed" => SetMember(id, m, w) \in Opening(id)
  <2>1. PICK call \in Later : call = SetMember(id, m, w)
    BY CallsAreLater
  <2>2. call.op = "member" /\ call.id = id /\ call.what = m
    BY <2>1 DEF SetMember, Call
  <2> QED
    BY <2>1, <2>2 DEF Staying, Opening
<1>3. ASSUME NEW m
      PROVE  /\ m # "position" => given(m) \in Seq(Staying)
             /\ m # "position_fixed" => given(m) \in Seq(Opening(id))
  <2>1. CASE m \in Members
    <3>1. PICK x : x = SetMember(id, m, v)
      OBVIOUS
    <3>2. x \in Staying => <<x>> \in Seq(Staying)
      OBVIOUS
    <3>3. x \in Opening(id) => <<x>> \in Seq(Opening(id))
      OBVIOUS
    <3> QED
      BY <1>2, <2>1, <3>1, <3>2, <3>3
  <2>2. CASE m \notin Members
    BY <2>2
  <2> QED
    BY <2>1, <2>2
<1>4. s0 \in Seq(Opening(id))
  <2>0. Call("new_source", id, "", 0) \in AtOnce
    BY DEF Call, AtOnce, Asked, Values
  <2>1. PICK new \in AtOnce : new = Call("new_source", id, "", 0)
    BY <2>0
  <2>2. new.op = "new_source" /\ new.id = id
    BY <2>1 DEF Call
  <2>3. new.what # "position_fixed"
    BY OtherParts
  <2>4. new \in Opening(id)
    BY <2>2, <2>3 DEF Opening
  <2>5. PICK first \in Opening(id) : first = SetMember(id, "mute", 1)
    BY <1>1, <1>2
  <2>6. <<new, first>> \in Seq(Opening(id))
    BY <2>4
  <2> QED
    BY <2>1, <2>5, <2>6
<1>5. Transmission(id, v) = s11 \o <<SetMember(id, "mute", v)>>
  BY Zenon DEF Transmission
<1>6. <<SetMember(id, "mute", v)>> \in Seq(Staying)
  <2>1. PICK x \in Staying : x = SetMember(id, "mute", v)
    BY <1>1, <1>2
  <2>2. <<x>> \in Seq(Staying)
    OBVIOUS
  <2> QED
    BY <2>1, <2>2
<1> HIDE DEF given, s0, s1, s2, s3, s4, s5, s6, s7, s8, s9, s10, s11
<1>7. s1 \in Seq(Opening(id))
  <2>1. PICK x \in Seq(Opening(id)), y \in Seq(Opening(id)) : x = s0 /\ y = given("gain")
    BY <1>3, <1>4
  <2>2. x \o y \in Seq(Opening(id))
    OBVIOUS
  <2> QED
    BY <2>1, <2>2 DEF s1
<1>8. Splits(id, s2)
  <2>1. PICK x \in Seq(Opening(id)), y \in Seq(Opening(id)) : x = s1 /\ y = given("position")
    BY <1>3, <1>7
  <2>2. x \o y \in Seq(Opening(id))
    OBVIOUS
  <2>3. PICK z \in Seq(Opening(id)) : z = s2
    BY <2>1, <2>2 DEF s2
  <2>4. z \o <<>> = z /\ <<>> \in Seq(Staying)
    OBVIOUS
  <2> QED
    BY <2>3, <2>4 DEF Splits
<1>9. Splits(id, s3) BY <1>3, <1>8, SplitsMore DEF s3
<1>10. Splits(id, s4) BY <1>3, <1>9, SplitsMore DEF s4
<1>11. Splits(id, s5) BY <1>3, <1>10, SplitsMore DEF s5
<1>12. Splits(id, s6) BY <1>3, <1>11, SplitsMore DEF s6
<1>13. Splits(id, s7) BY <1>3, <1>12, SplitsMore DEF s7
<1>14. Splits(id, s8) BY <1>3, <1>13, SplitsMore DEF s8
<1>15. Splits(id, s9) BY <1>3, <1>14, SplitsMore DEF s9
<1>16. Splits(id, s10) BY <1>3, <1>15, SplitsMore DEF s10
<1>17. Splits(id, s11) BY <1>3, <1>16, SplitsMore DEF s11
<1> QED
  BY <1>5, <1>6, <1>17, SplitsMore

\* A scene that is loaded fixes no source before it is transmitted.
LEMMA RequestStays ==
  ASSUME NEW req \in Requests, NEW calls,
         calls = IF req.op \in {"load_scene", "load_nothing"} THEN load_scene(req) ELSE <<req>>
  PROVE  calls \in Seq(Staying)
<1>1. CASE req.op \in {"load_scene", "load_nothing"}
  <2>1. req.value \in Values /\ (req.op = "load_scene" => req.id \in 0 .. MaxId)
    BY <1>1, RequestsAssumption DEF Asked
  <2>2. calls \in Seq(Plain)
    BY <1>1, <2>1, LoadCalls
  <2>3. Plain \subseteq Staying
    BY DEF Plain, Staying
  <2> QED
    BY <2>2, <2>3
<1>2. CASE req.op \notin {"load_scene", "load_nothing"}
  <2>1. calls = <<req>> /\ req \in Later
    <3>1. calls = <<req>> /\ Head(calls) \in Later
      BY <1>2, RequestedCalls
    <3>2. Head(<<req>>) = req
      OBVIOUS
    <3> QED
      BY <3>1, <3>2
  <2>2. ~ (req.op = "member" /\ req.what = "position")
    BY <1>2, RequestsAssumption DEF Asked
  <2>3. req \in Staying
    BY <2>1, <2>2 DEF Staying
  <2>4. <<req>> \in Seq(Staying)
    BY <2>3
  <2> QED
    BY <2>1, <2>4
<1> QED
  BY <1>1, <1>2

\* What a step of FixedStays may not do.
Stays ==
  \A id \in Sources(scene) :
    scene.sources[id]["position_fixed"] = 1 /\ id \in Sources(scene')
      => scene'.sources[id]["position"] = scene.sources[id]["position"]

LEMMA MovesNothing ==
  ASSUME scene'.sources = scene.sources
  PROVE  Stays
BY DEF Stays, Sources

\* A call that is just told to the scene does not move a source that is fixed, nor
\* fix one that will be moved.
LEMMA MovesToScene ==
  ASSUME PublicationTypes, SubscriptionInv, MovesInv, NEW t \in Threads, ToScene(t)
  PROVE  MovesInv' /\ Stays
<1>1. /\ Publishing(t) /\ Goes(t) /\ ThreadsTyped /\ scene \in Replicas
      /\ Changes(scene', scene, CurrentCall(t))
  BY SceneStep DEF PublicationTypes
<1>2. thread'["network"].todo = thread["network"].todo
  BY <1>1 DEF Goes, Others, Threads
<1>3. PICK call : call = CurrentCall(t)
  OBVIOUS
<1>4. /\ call.op \in {"new_source", "delete_source", "delete_all_sources", "member", "setting", "level"}
      /\ call.op \in {"new_source", "delete_source", "delete_all_sources", "member"} => t = "network"
      /\ call.op = "member" => call.what \in Members
      /\ Changes(scene', scene, call) /\ Busy(t)
  BY <1>1, <1>3, PublishedCall
<1>5. "position" \in Members /\ "position_fixed" \in Members
  BY MembersAssumption
<1>0. PICK id : Splits(id, thread["network"].todo)
  BY DEF MovesInv
<1>6. PICK a \in Seq(Opening(id)), b \in Seq(Staying) :
        /\ thread["network"].todo = a \o b
        /\ a # <<>> => ~ get_source_position_fixed(id)
  BY <1>0 DEF Splits
<1>7. CASE t # "network"
  <2>1. scene'.sources = scene.sources
    BY <1>4, <1>7 DEF Changes, SettingSet
  <2>2. get_source_position_fixed(id)' = get_source_position_fixed(id)
    BY <2>1, FixedStands
  <2>3. MovesInv'
    BY <1>2, <1>6, <2>2 DEF MovesInv, Splits
  <2> QED
    BY <2>1, <2>3, MovesNothing
<1>8. CASE t = "network" /\ a = <<>>
  <2>1. thread["network"].todo = b /\ b # <<>>
    <3>1. <<>> \o b = b
      OBVIOUS
    <3> QED
      BY <1>4, <1>6, <1>8, <3>1 DEF Busy
  <2>2. call \in Staying
    <3>1. Head(b) \in Staying
      BY <2>1
    <3> QED
      BY <1>3, <1>8, <2>1, <3>1 DEF CurrentCall
  <2>3. ~ (call.op = "member" /\ call.what = "position")
    BY <2>2 DEF Staying
  <2>4. Stays
    BY <1>4, <1>5, <2>3 DEF Stays, Changes, Grown, Shrunk, MemberSet, SettingSet, Sources
  <2>5. MovesInv'
    BY <1>2, <1>6, <1>8 DEF MovesInv, Splits
  <2> QED
    BY <2>4, <2>5
<1>9. CASE t = "network" /\ a # <<>>
  <2>1. call \in Opening(id)
    <3>1. a \in Seq(Later \cup AtOnce) /\ b \in Seq(Later \cup AtOnce)
      BY AlsoLater
    <3>2. call = Head(a)
      BY <1>3, <1>6, <1>9, <3>1, TailJoined DEF CurrentCall
    <3> QED
      BY <1>9, <3>2
  <2>2. /\ call.op \in {"new_source", "member"} /\ call.id = id /\ call.what # "position_fixed"
        /\ ~ get_source_position_fixed(id)
    BY <1>6, <1>9, <2>1 DEF Opening
  <2>3. ~ get_source_position_fixed(id)'
    <3>1. CASE call.op = "new_source"
      <4>1. Grown(scene', scene, id)
        BY <1>4, <2>2, <3>1 DEF Changes
      <4>2. CASE id \in Sources(scene)
        BY <2>2, <4>1, <4>2 DEF Grown, get_source_position_fixed, Sources
      <4>3. CASE id \notin Sources(scene)
        BY <1>5, <4>1, <4>3 DEF Grown, get_source_position_fixed, Sources
      <4> QED
        BY <4>2, <4>3
    <3>2. CASE call.op = "member"
      <4>1. MemberSet(scene', scene, call)
        BY <1>4, <3>2 DEF Changes
      <4> QED
        BY <1>5, <2>2, <4>1 DEF MemberSet, get_source_position_fixed, Sources
    <3> QED
      BY <2>2, <3>1, <3>2
  <2>4. Stays
    <3>1. CASE call.op = "new_source"
      BY <1>4, <3>1 DEF Changes, Grown, Stays
    <3>2. CASE call.op = "member"
      <4>1. MemberSet(scene', scene, call)
        BY <1>4, <3>2 DEF Changes
      <4> QED
        BY <1>5, <2>2, <4>1 DEF MemberSet, get_source_position_fixed, Sources, Stays
    <3> QED
      BY <2>2, <3>1, <3>2
  <2>5. MovesInv'
    BY <1>2, <1>6, <2>3 DEF MovesInv, Splits
  <2> QED
    BY <2>4, <2>5
<1> QED
  BY <1>7, <1>8, <1>9

LEMMA MovesOperation ==
  ASSUME PublicationTypes, SubscriptionInv, SourcesInv, HighestInv, MovesInv, Operation
  PROVE  MovesInv' /\ scene'.sources = scene.sources
<1>1. /\ ThreadsTyped /\ Busy("network") /\ _highest_id \in 0 .. MaxId /\ scene \in Replicas
      /\ Behind \in Seq(Later) /\ at = 0
      /\ new_source \/ set_source_position \/ set_processing_state \/ set_in_scene
  <2>1. Busy("network") /\ ~ InLoop("network")
    BY OperationStep
  <2> QED
    BY <2>1, Outside DEF PublicationTypes, SubscriptionInv, at, Threads, Operation
<1>2. PICK call : call = now
  OBVIOUS
<1>3. call.op \in Operations
  BY <1>1, <1>2 DEF new_source, set_source_position, set_processing_state, set_in_scene,
                    Operations, now
<1>4. scene'.sources = scene.sources
  BY OperationStep DEF SettingSet
<1>5. call \in Later
  <2>1. call \in Later \cup AtOnce
    BY <1>1, <1>2, LoopParts, FirstCall, ThreadNames DEF now, CurrentCall, Busy
  <2> QED
    BY <1>3, <2>1, OtherParts DEF Operations
<1>6. ASSUME NEW calls \in Seq(Later \cup AtOnce), Instead(calls), NEW id, Splits(id, calls)
      PROVE  MovesInv' /\ scene'.sources = scene.sources
  <2>1. PICK rest : rest = Behind
    OBVIOUS
  <2>2. rest \in Seq(Later \cup AtOnce)
    BY <1>1, <2>1
  <2>3. calls \o rest \in Seq(Later \cup AtOnce)
    BY <2>2
  <2>4. ToDo("network", calls \o rest)
    BY <1>6, <2>1 DEF Instead, Behind
  <2>5. Gets("network", calls \o rest)
    BY <1>1, <2>3, <2>4, ThreadNames, ToDoChanges
  <2>6. thread'["network"].todo = calls \o Behind
    BY <2>1, <2>5 DEF Gets
  <2> QED
    BY <1>1, <1>2, <1>3, <1>4, <1>6, <2>6, MovesInstead
<1>7. ASSUME NEW calls \in Seq(Staying), Instead(calls)
      PROVE  MovesInv' /\ scene'.sources = scene.sources
  <2>1. Splits(0, calls)
    <3>1. <<>> \o calls = calls /\ <<>> \in Seq(Opening(0))
      OBVIOUS
    <3> QED
      BY <3>1 DEF Splits
  <2>2. calls \in Seq(Later \cup AtOnce)
    BY AlsoLater
  <2> QED
    BY <1>6, <1>7, <2>1, <2>2
<1>8. <<>> \in Seq(Staying)
  OBVIOUS
<1>9. CASE new_source
  <2>1. CASE Instead(<<>>)
    BY <1>7, <1>8, <2>1
  <2>2. CASE _highest_id < MaxId /\ Instead(Transmission(_highest_id + 1, call.value))
    <3>1. PICK id \in Ids : id = _highest_id + 1
      BY <1>1, <2>2, BoundsAssumption DEF Ids
    <3>2. ~ get_source_position_fixed(id)
      <4>1. Sources(scene) = Sources(renderer)
        BY <1>1, <1>2, <1>3, SourcesSettled DEF SourcesAgree
      <4>2. id \notin Sources(renderer)
        BY <1>1, <3>1 DEF HighestInv
      <4> QED
        BY <4>1, <4>2 DEF get_source_position_fixed, Sources
    <3>3. PICK calls : calls = Transmission(id, call.value)
      OBVIOUS
    <3>4. Splits(id, calls) /\ Transmits(id, Members, calls)
      BY <1>5, <3>2, <3>3, LaterParts, TransmissionSplits, TransmissionCalls
    <3>5. calls \in Seq(Later \cup AtOnce) /\ Instead(calls)
      BY <2>2, <3>1, <3>3, <3>4 DEF Transmits
    <3> QED
      BY <1>6, <3>4, <3>5
  <2> QED
    BY <1>2, <1>9, <2>1, <2>2 DEF new_source, now
<1>10. CASE set_source_position
  <2>1. call.op = "move" /\ call.id \in Ids /\ call.value \in Values
    BY <1>2, <1>5, <1>10, LaterParts DEF set_source_position, now
  <2>2. CASE Instead(<<>>)
    BY <1>7, <1>8, <2>2
  <2>3. CASE /\ ~ get_source_position_fixed(call.id)
             /\ Instead(<<SetMember(call.id, "position", call.value)>>)
    <3>1. PICK x \in Later : x = SetMember(call.id, "position", call.value)
      BY <2>1, CallsAreLater, MembersAssumption
    <3>2. x.op = "member" /\ x.id = call.id /\ x.what = "position"
      BY <3>1 DEF SetMember, Call
    <3>3. x \in Opening(call.id)
      BY <3>2 DEF Opening
    <3>4. /\ <<x>> \in Seq(Opening(call.id)) /\ <<x>> \o <<>> = <<x>> /\ <<>> \in Seq(Staying)
          /\ <<x>> \in Seq(Later \cup AtOnce)
      BY <3>3
    <3>5. Splits(call.id, <<x>>)
      BY <2>3, <3>4 DEF Splits
    <3>6. Instead(<<x>>)
      BY <2>3, <3>1
    <3> QED
      BY <1>6, <3>4, <3>5, <3>6
  <2> QED
    BY <1>2, <1>10, <2>2, <2>3 DEF set_source_position, now
<1>11. CASE set_processing_state
  <2>1. PICK state \in Values :
          Instead(IF scene.settings["processing_state"] = state THEN <<>>
                  ELSE <<Call("setting", 0, "processing_state", state)>>)
    BY <1>11 DEF set_processing_state, Values
  <2>2. PICK x \in Later : x = Call("setting", 0, "processing_state", state)
    BY CallsAreLater, SettingsAssumption DEF Setting
  <2>3. x.op = "setting"
    BY <2>2 DEF Call
  <2>4. x \in Staying
    BY <2>3 DEF Staying
  <2>5. <<x>> \in Seq(Staying)
    BY <2>4
  <2> QED
    BY <1>7, <1>8, <2>1, <2>2, <2>5
<1>12. CASE set_in_scene
  <2>1. Instead(<<>>)
    BY <1>12 DEF set_in_scene
  <2> QED
    BY <1>7, <1>8, <2>1
<1> QED
  BY <1>1, <1>4, <1>9, <1>10, <1>11, <1>12

LEMMA MovesRequest ==
  ASSUME PublicationTypes, SubscriptionInv, Request
  PROVE  MovesInv' /\ scene'.sources = scene.sources
<1>1. ThreadsTyped /\ scene' = scene /\ "network" \in Threads
  BY RequestStep DEF PublicationTypes, Threads
<1>2. PICK req \in Requests :
        ToDo("network", IF req.op \in {"load_scene", "load_nothing"} THEN load_scene(req) ELSE <<req>>)
  BY DEF Request
<1>3. PICK calls : calls = IF req.op \in {"load_scene", "load_nothing"} THEN load_scene(req) ELSE <<req>>
  OBVIOUS
<1>4. calls \in Seq(Staying) /\ calls \in Seq(Later \cup AtOnce)
  BY <1>3, RequestStays, AlsoLater
<1>5. Gets("network", calls)
  BY <1>1, <1>2, <1>3, <1>4, ThreadNames, ToDoChanges
<1>6. thread'["network"].todo = calls
  BY <1>5 DEF Gets
<1>7. <<>> \o calls = calls /\ <<>> \in Seq(Opening(0))
  BY <1>4
<1> QED
  BY <1>1, <1>4, <1>6, <1>7 DEF MovesInv, Splits

\* A step that changes no source and leaves the network thread its calls, or ends one.
LEMMA MovesKept ==
  ASSUME MovesInv, scene'.sources = scene.sources,
         \/ thread'["network"].todo = thread["network"].todo
         \/ Busy("network") /\ thread'["network"].todo = Behind
  PROVE  MovesInv'
<1>1. PICK id : Splits(id, thread["network"].todo)
  BY DEF MovesInv
<1>2. CASE thread'["network"].todo = thread["network"].todo
  <2>1. Splits(id, thread["network"].todo)
    BY <1>1
  <2>2. get_source_position_fixed(id)' = get_source_position_fixed(id)
    BY FixedStands
  <2> QED
    BY <1>2, <2>1, <2>2 DEF Splits, MovesInv
<1>3. CASE Busy("network") /\ thread'["network"].todo = Behind
  <2>1. PICK todo : todo = thread["network"].todo
    OBVIOUS
  <2>2. Splits(id, todo) /\ todo # <<>> /\ Behind = Tail(todo)
    BY <1>1, <1>3, <2>1 DEF Busy, Behind
  <2>3. PICK a \in Seq(Opening(id)), b \in Seq(Staying) :
          Tail(todo) = a \o b /\ (a # <<>> => ~ get_source_position_fixed(id)')
    BY <2>2, SplitsTail DEF Splits
  <2> QED
    BY <1>3, <2>2, <2>3 DEF MovesInv, Splits
<1> QED
  BY <1>2, <1>3

LEMMA MovesNext ==
  ASSUME PublicationTypes, SubscriptionInv, SourcesInv, HighestInv, MovesInv, Next
  PROVE  MovesInv' /\ Stays
<1>1. ArraysInv /\ ThreadsTyped
  BY DEF SubscriptionInv, PublicationTypes
<1>2. ASSUME NEW t \in Threads, Busy(t), thread' = thread \/ Begins(t) \/ Goes(t) \/ Ends(t)
      PROVE  \/ thread'["network"].todo = thread["network"].todo
             \/ Busy("network") /\ thread'["network"].todo = Behind
  BY <1>2 DEF Begins, Goes, Ends, Others, Behind, Threads
<1>3. ASSUME NEW t \in Threads, BeginLoop(t) PROVE MovesInv' /\ Stays
  <2>1. Begins(t) /\ Publishing(t) /\ scene' = scene
    BY <1>1, <1>3, BeginStep
  <2> QED
    BY <1>2, <2>1, MovesKept, MovesNothing DEF Publishing
<1>4. ASSUME NEW t \in Threads, ToRenderer(t) PROVE MovesInv' /\ Stays
  <2>1. Publishing(t) /\ (thread' = thread \/ Goes(t) \/ Ends(t)) /\ scene' = scene
    BY <1>4, RendererStep
  <2> QED
    BY <1>2, <2>1, MovesKept, MovesNothing DEF Publishing
<1>5. ASSUME NEW t \in Threads, ToClient(t) PROVE MovesInv' /\ Stays
  <2>1. Publishing(t) /\ (Goes(t) \/ Ends(t)) /\ scene' = scene
    BY <1>5, ClientStep
  <2> QED
    BY <1>2, <2>1, MovesKept, MovesNothing DEF Publishing
<1>6. CASE Operation
  BY <1>6, MovesOperation, MovesNothing
<1>7. CASE Request
  BY <1>7, MovesRequest, MovesNothing
<1>8. CASE Elsewhere
  <2>1. thread'["network"] = thread["network"] /\ scene' = scene
    BY <1>8, ElsewhereStep
  <2> QED
    BY <2>1, MovesKept, MovesNothing
<1> QED
  BY <1>3, <1>4, <1>5, <1>6, <1>7, <1>8, Moves, MovesToScene

\* The renderer gives no ID back before its last source is removed.
LEMMA HighestNext ==
  ASSUME PublicationTypes, HighestInv, Next
  PROVE  HighestInv'
<1>1. /\ _highest_id \in 0 .. MaxId /\ renderer \in Replicas /\ ThreadsTyped
      /\ Sources(renderer) \subseteq Ids
  BY ReplicaParts DEF PublicationTypes
<1>2. ASSUME Sources(renderer') \subseteq Sources(renderer), _highest_id' = _highest_id
      PROVE  HighestInv'
  BY <1>2 DEF HighestInv
<1>3. ASSUME NEW t \in Threads, BeginLoop(t) \/ ToScene(t) \/ ToClient(t) PROVE HighestInv'
  <2>1. renderer' = renderer /\ _highest_id' = _highest_id
    BY <1>3 DEF BeginLoop, ToScene, ToClient, replicas
  <2> QED
    BY <1>2, <2>1
<1>4. ASSUME NEW t \in Threads, ToRenderer(t) PROVE HighestInv'
  <2>1. PICK call : call = CurrentCall(t)
    OBVIOUS
  <2>2. \/ \E id \in Sources(renderer) : renderer' = WithoutSources(renderer, {id}) /\ _highest_id' = _highest_id
        \/ Sources(renderer) = {} /\ renderer' = renderer
        \/ /\ call.op \in {"delete_source", "member", "setting"} /\ _highest_id' = _highest_id
           /\ renderer' = renderer \/ renderer' = Applied(renderer, call)
        \/ UNCHANGED <<renderer, _highest_id>>
    BY <1>4, <2>1, Zenon DEF ToRenderer, Sources
  <2>3. CASE \E id \in Sources(renderer) : renderer' = WithoutSources(renderer, {id}) /\ _highest_id' = _highest_id
    <3>1. PICK id \in Sources(renderer) : renderer' = WithoutSources(renderer, {id}) /\ _highest_id' = _highest_id
      BY <2>3
    <3>2. Shrunk(renderer', renderer, {id})
      BY <1>1, <3>1, SourcesRemoved
    <3> QED
      BY <1>2, <3>1, <3>2 DEF Shrunk
  <2>4. CASE Sources(renderer) = {} /\ renderer' = renderer
    BY <2>4 DEF HighestInv
  <2>5. CASE /\ call.op \in {"delete_source", "member", "setting"} /\ _highest_id' = _highest_id
             /\ renderer' = renderer \/ renderer' = Applied(renderer, call)
    <3>1. CASE renderer' = renderer
      BY <1>2, <2>5, <3>1
    <3>2. CASE renderer' = Applied(renderer, call)
      <4>1. Publishing(t)
        BY <1>4 DEF ToRenderer
      <4>2. Changes(renderer', renderer, call)
        BY <1>1, <2>1, <3>2, <4>1, AppliedChanges
      <4>3. Sources(renderer') \subseteq Sources(renderer)
        BY <2>5, <4>2 DEF Changes, Shrunk, MemberSet, SettingSet, Sources
      <4> QED
        BY <1>2, <2>5, <4>3
    <3> QED
      BY <2>5, <3>1, <3>2
  <2>6. CASE UNCHANGED <<renderer, _highest_id>>
    BY <1>2, <2>6
  <2> QED
    BY <2>2, <2>3, <2>4, <2>5, <2>6
<1>5. CASE Operation
  <2>1. \/ Sources(renderer') = Sources(renderer) /\ _highest_id <= _highest_id'
        \/ /\ _highest_id < MaxId /\ _highest_id' = _highest_id + 1
           /\ renderer' = WithSource(renderer, _highest_id + 1)
    <3>1. CASE new_source
      <4>1. /\ _highest_id' = IF _highest_id < MaxId THEN _highest_id + 1 ELSE MaxId
            /\ \/ _highest_id < MaxId /\ renderer' = WithSource(renderer, _highest_id + 1)
               \/ renderer' = renderer
        BY <3>1 DEF new_source
      <4> QED
        BY <1>1, <4>1, BoundsAssumption
    <3>2. CASE set_source_position \/ set_processing_state \/ set_in_scene
      BY <1>1, <3>2 DEF set_source_position, set_processing_state, set_in_scene
    <3> QED
      BY <1>5, <3>1, <3>2 DEF Operation
  <2>2. CASE Sources(renderer') = Sources(renderer) /\ _highest_id <= _highest_id'
    <3>1. _highest_id' \in Nat
      BY <1>1, <1>5, BoundsAssumption DEF Operation, new_source, set_source_position,
         set_processing_state, set_in_scene
    <3>2. Ids \subseteq Nat
      BY DEF Ids
    <3>3. ASSUME NEW i \in Sources(renderer) PROVE i <= _highest_id'
      <4>1. _highest_id \in Nat
        BY <1>1, BoundsAssumption
      <4>2. i \in Nat
        BY <1>1, <3>2
      <4>3. i <= _highest_id
        BY DEF HighestInv
      <4> QED
        BY <2>2, <3>1, <4>1, <4>2, <4>3
    <3> QED
      BY <2>2, <3>3 DEF HighestInv
  <2>3. CASE /\ _highest_id < MaxId /\ _highest_id' = _highest_id + 1
             /\ renderer' = WithSource(renderer, _highest_id + 1)
    <3>1. PICK id \in Ids : id = _highest_id + 1
      BY <1>1, <2>3, BoundsAssumption DEF Ids
    <3>2. Sources(renderer') = Sources(renderer) \cup {id}
      BY <1>1, <2>3, <3>1, SourceAdded DEF Grown
    <3>3. \A i \in Sources(renderer) : i \in Nat
      BY <1>1 DEF Ids
    <3> QED
      BY <1>1, <2>3, <3>1, <3>2, <3>3 DEF HighestInv
  <2> QED
    BY <2>1, <2>2, <2>3
<1>6. CASE Request
  BY <1>2, <1>6 DEF Request, replicas
<1>7. CASE Elsewhere
  <2>1. renderer' = renderer /\ _highest_id' = _highest_id
    BY <1>7 DEF Elsewhere, Connect, get_scene_as_XML, WriteScene, Disconnect,
       set_reference_orientation, update, Unlock, replicas
  <2> QED
    BY <1>2, <2>1
<1> QED
  BY <1>3, <1>4, <1>5, <1>6, <1>7, Moves

LEMMA FixedInvariant ==
  Spec => [](PublicationInv /\ FixedInv)
<1>1. Init => FixedInv
  <2> SUFFICES ASSUME Init PROVE FixedInv
    OBVIOUS
  <2>1. Sources(renderer) = {}
    BY DEF Init, Nothing, Replica, Sources
  <2>2. thread["network"].todo = <<>>
    BY InitIdle DEF Idle, Threads
  <2>3. <<>> \o <<>> = <<>> /\ <<>> \in Seq(Opening(0)) /\ <<>> \in Seq(Staying)
    OBVIOUS
  <2> QED
    BY <2>1, <2>2, <2>3 DEF FixedInv, HighestInv, MovesInv, Splits
<1>2. PublicationInv /\ FixedInv /\ [Next]_vars => FixedInv'
  <2> SUFFICES ASSUME PublicationInv, FixedInv, [Next]_vars PROVE FixedInv'
    OBVIOUS
  <2>1. PublicationTypes /\ SubscriptionInv /\ SourcesInv /\ HighestInv /\ MovesInv
    BY DEF PublicationInv, SubscriptionInv, FixedInv
  <2>2. CASE Next
    BY <2>1, <2>2, MovesNext, HighestNext DEF FixedInv
  <2>3. CASE UNCHANGED vars
    <3>1. UNCHANGED <<scene, renderer, _highest_id, thread>>
      BY <2>3 DEF vars
    <3> QED
      BY <2>1, <3>1, MovesKept DEF FixedInv, HighestInv
  <2> QED
    BY <2>2, <2>3
<1> QED
  BY <1>1, <1>2, PublicationInvariant, PTL DEF Spec

\* No sequence of requests, scenes that are loaded and reports of the tracker moves a source
\* while its position is fixed: the network thread alone publishes positions, it asks
\* the scene first, and transmits the position of a new source before it fixes it, under an ID
\* that no source has (controller.h, set_source_position(), new_source()).
THEOREM FixedSourcesStay ==
  Spec => FixedStays
<1>1. PublicationInv /\ FixedInv /\ [Next]_vars =>
        [ \A id \in DOMAIN scene.sources :
            scene.sources[id]["position_fixed"] = 1 /\ id \in DOMAIN scene'.sources
              => scene'.sources[id]["position"] = scene.sources[id]["position"] ]_vars
  <2> SUFFICES ASSUME PublicationInv, FixedInv, Next PROVE Stays
    BY Zenon DEF Stays, Sources
  <2>1. PublicationTypes /\ SubscriptionInv /\ SourcesInv /\ HighestInv /\ MovesInv
    BY DEF PublicationInv, SubscriptionInv, FixedInv
  <2> QED
    BY <2>1, MovesNext
<1> QED
  BY <1>1, FixedInvariant, PTL DEF Spec, FixedStays

\* Every variable has its type: a loop over the subscribers ends within its array, wherever
\* push_back() has moved the others (controller.h, _publish(), subscribe()).
THEOREM PublicationTyped ==
  Spec => []TypeOK
<1>1. PublicationInv => TypeOK
  <2> SUFFICES ASSUME PublicationInv PROVE TypeOK
    OBVIOUS
  <2>1. PublicationTypes /\ ArraysInv /\ LoopsInv /\ ThreadsTyped
    BY DEF PublicationInv, PublicationTypes
  <2>2. \A n \in DOMAIN arrays : arrays[n] \in Seq(Subscribers)
    BY <2>1 DEF ArraysInv
  <2>3. DOMAIN arrays = 1 .. Len(arrays) /\ 1 \in DOMAIN arrays
    BY <2>1 DEF ArraysInv
  <2>4. Later \cup AtOnce \cup Turns \cup Levels \subseteq Calls
    <3>1. /\ "amplitude_reference_distance" \in Settings /\ "reference_orientation" \in Settings
          /\ "position" \in Members
      BY MembersAssumption, SettingsAssumption
    <3>2. Ids \subseteq 0 .. MaxId /\ 0 \in 0 .. MaxId
      BY BoundsAssumption DEF Ids
    <3> QED
      BY <3>1, <3>2 DEF Later, AtOnce, Turns, Levels, Asked, Calls, Operations
  <2>5. ASSUME NEW t \in Threads
        PROVE  /\ thread[t].todo \in Seq(Calls)
               /\ thread[t].array \in DOMAIN arrays
               /\ thread[t].next \in 0 .. thread[t].end
               /\ thread[t].end \in 0 .. Len(arrays[thread[t].array])
    <3>1. thread[t].todo \in Seq(Calls)
      <4>1. CallsOf(t) \subseteq Calls
        BY <2>4, ThreadNames
      <4>2. ASSUME NEW S, S \subseteq Calls, NEW s \in Seq(S) PROVE s \in Seq(Calls)
        BY <4>2
      <4> QED
        BY <2>1, <4>1, <4>2, LoopParts
    <3>2. CASE InLoop(t)
      <4>1. /\ thread[t].next \in Nat \ {0} /\ thread[t].end \in Nat
            /\ thread[t].next <= thread[t].end
            /\ thread[t].array \in 1 .. Len(arrays)
            /\ thread[t].end <= Len(arrays[thread[t].array])
        BY <2>1, <3>2, Order
      <4>2. Len(arrays[thread[t].array]) \in Nat
        BY <2>2, <2>3, <4>1
      <4> QED
        BY <2>3, <3>1, <4>1, <4>2
    <3>3. CASE ~ InLoop(t)
      <4>1. thread[t].array = 1 /\ thread[t].end = 0 /\ thread[t].next = 0
        BY <2>1, <3>3, Outside DEF LoopsInv
      <4>2. Len(arrays[1]) \in Nat
        BY <2>2, <2>3
      <4> QED
        BY <2>3, <3>1, <4>1, <4>2
    <3> QED
      BY <3>2, <3>3
  <2> QED
    BY <2>1, <2>2, <2>5 DEF TypeOK, PublicationTypes, Links
<1> QED
  BY <1>1, PublicationInvariant, PTL
------------------------------------------------------------------------------
(***************************************************************************)
(* The connections below (NetworkInterface): what is written to a client.  *)
(* A message has a write as long as a part of it is left, and one only.    *)
(* The writes of which nothing was sent are in the order of the messages.  *)
(***************************************************************************)

Writes == [message : Nat, left : 1 .. Parts]

\* How much of message n is in a.
Count(a, n) == Cardinality({i \in DOMAIN a : a[i] = n})

\* k messages were written, q are the writes that are not complete, a has arrived.
AllThere(k, q, a) ==
  /\ \A i \in 1 .. Len(q) : q[i].message \in 1 .. k /\ Count(a, q[i].message) + q[i].left = Parts
  /\ \A i \in 1 .. Len(a) : a[i] \in 1 .. k
  /\ \A n \in 1 .. k : Count(a, n) = Parts \/ \E i \in 1 .. Len(q) : q[i].message = n

InOrder(k, q, a) ==
  /\ \A i, j \in 1 .. Len(q) : q[i].message = q[j].message => i = j
  /\ \A i, j \in 1 .. Len(q) :
       i < j /\ q[i].left = Parts /\ q[j].left = Parts => q[i].message < q[j].message
  /\ \A n \in 1 .. k : \A m \in 1 .. n : Count(a, n) > 0 => Count(a, m) > 0

WritesInv ==
  /\ peer \in [Hosts -> {"away", "connecting", "open", "closed"}]
  /\ written \in [Hosts -> Nat]
  /\ writes \in [Hosts -> Seq(Writes)]
  /\ arrived \in [Hosts -> Seq(Nat)]
  /\ server = "running" =>
       \A c \in Hosts : peer[c] # "closed" =>
         /\ AllThere(written[c], writes[c], arrived[c])
         /\ InOrder(written[c], writes[c], arrived[c])

LEMMA CountNat ==
  ASSUME NEW a \in Seq(Nat), NEW n
  PROVE  IsFiniteSet({i \in DOMAIN a : a[i] = n}) /\ Count(a, n) \in Nat
<1>1. DOMAIN a = 1 .. Len(a) /\ Len(a) \in Nat
  OBVIOUS
<1>2. IsFiniteSet(1 .. Len(a))
  BY <1>1, FS_Interval
<1>3. IsFiniteSet({i \in DOMAIN a : a[i] = n})
  BY <1>1, <1>2, FS_Subset
<1> QED
  BY <1>3, FS_CardinalityType DEF Count

\* Some parts of message m arrive.
LEMMA CountMore ==
  ASSUME NEW a \in Seq(Nat), NEW m \in Nat, NEW j \in Nat, NEW n,
         NEW c \in Seq(Nat), Len(c) = j, \A i \in 1 .. j : c[i] = m
  PROVE  Count(a \o c, n) = Count(a, n) + (IF n = m THEN j ELSE 0)
<1> DEFINE b == a \o c
           New == Len(a) + 1 .. Len(a) + j
           Old == {i \in DOMAIN a : a[i] = n}
<1>2. /\ DOMAIN b = 1 .. Len(a) + j
      /\ \A i \in 1 .. Len(a) : b[i] = a[i]
      /\ \A i \in New : b[i] = m
  OBVIOUS
<1>3. Len(a) \in Nat /\ DOMAIN a = 1 .. Len(a)
  OBVIOUS
<1>4. IsFiniteSet(Old) /\ Cardinality(Old) = Count(a, n) /\ Count(a, n) \in Nat
  BY CountNat DEF Count
<1>5. Count(b, n) = Cardinality({i \in DOMAIN b : b[i] = n})
  BY DEF Count
<1>6. IsFiniteSet(New) /\ Cardinality(New) = j
  <2>1. PICK x \in Int, y \in Int : x = Len(a) + 1 /\ y = Len(a) + j
    BY <1>3
  <2>2. IsFiniteSet(x .. y) /\ Cardinality(x .. y) = IF x > y THEN 0 ELSE y - x + 1
    BY FS_Interval
  <2> QED
    BY <1>3, <2>1, <2>2
<1>7. /\ n # m => {i \in DOMAIN b : b[i] = n} = Old
      /\ n = m => {i \in DOMAIN b : b[i] = n} = Old \cup New
      /\ Old \cap New = {}
  BY <1>2, <1>3
<1> HIDE DEF b, New, Old
<1>8. Cardinality(Old \cap New) = 0
  BY <1>7, FS_EmptySet
<1>9. Cardinality(Old \cup New) = Cardinality(Old) + Cardinality(New) - Cardinality(Old \cap New)
  BY <1>4, <1>6, FS_Union
<1>10. Count(b, n) = Count(a, n) + (IF n = m THEN j ELSE 0)
  <2>1. CASE n = m
    <3>1. Cardinality(Old \cup New) = Count(a, n) + j
      BY <1>4, <1>6, <1>8, <1>9
    <3> QED
      BY <1>5, <1>7, <2>1, <3>1
  <2>2. CASE n # m
    <3>1. Count(b, n) = Count(a, n)
      BY <1>4, <1>5, <1>7, <2>2
    <3> QED
      BY <1>4, <2>2, <3>1
  <2> QED
    BY <2>1, <2>2
<1> QED
  BY <1>10 DEF b

LEMMA WriteKeeps ==
  ASSUME NEW k \in Nat, NEW q \in Seq(Writes), NEW a \in Seq(Nat),
         AllThere(k, q, a), InOrder(k, q, a)
  PROVE  LET p == Append(q, [message |-> k + 1, left |-> Parts])
         IN  p \in Seq(Writes) /\ AllThere(k + 1, p, a) /\ InOrder(k + 1, p, a)
<1> DEFINE w == [message |-> k + 1, left |-> Parts]
           p == Append(q, w)
<1>1. w \in Writes
  BY PartsAssumption DEF Writes
<1>2. /\ p \in Seq(Writes) /\ Len(p) = Len(q) + 1 /\ Len(q) \in Nat
      /\ \A i \in 1 .. Len(q) : p[i] = q[i]
      /\ p[Len(q) + 1] = w
  BY <1>1
<1>3. w.message = k + 1 /\ w.left = Parts
  OBVIOUS
<1>4. Len(a) \in Nat /\ DOMAIN a = 1 .. Len(a)
  OBVIOUS
<1>5. Count(a, k + 1) = 0
  <2>1. {i \in DOMAIN a : a[i] = k + 1} = {}
    BY <1>4 DEF AllThere
  <2> QED
    BY <2>1, FS_EmptySet DEF Count
<1>6. \A n : Count(a, n) \in Nat
  BY CountNat
<1>7. \A i \in 1 .. Len(p) : (i \in 1 .. Len(q) /\ p[i] = q[i]) \/ (i = Len(q) + 1 /\ p[i] = w)
  BY <1>2
<1>8. \A i \in 1 .. Len(q) : q[i].message \in 1 .. k
  BY DEF AllThere
<1> HIDE DEF w, p
<1>9. AllThere(k + 1, p, a)
  <2>1. \A i \in 1 .. Len(p) : p[i].message \in 1 .. k + 1 /\ Count(a, p[i].message) + p[i].left = Parts
    <3> SUFFICES ASSUME NEW i \in 1 .. Len(p)
                 PROVE  p[i].message \in 1 .. k + 1 /\ Count(a, p[i].message) + p[i].left = Parts
      OBVIOUS
    <3>1. CASE i \in 1 .. Len(q) /\ p[i] = q[i]
      <4>1. q[i].message \in 1 .. k /\ Count(a, q[i].message) + q[i].left = Parts
        BY <3>1 DEF AllThere
      <4> QED
        BY <3>1, <4>1
    <3>2. CASE i = Len(q) + 1 /\ p[i] = w
      BY <1>3, <1>5, <3>2, PartsAssumption
    <3> QED
      BY <1>7, <3>1, <3>2
  <2>2. \A i \in 1 .. Len(a) : a[i] \in 1 .. k + 1
    BY <1>4 DEF AllThere
  <2>3. ASSUME NEW n \in 1 .. k + 1
        PROVE  Count(a, n) = Parts \/ \E i \in 1 .. Len(p) : p[i].message = n
    <3>1. CASE n = k + 1
      BY <1>2, <1>3, <3>1
    <3>2. CASE n \in 1 .. k
      <4>1. CASE Count(a, n) = Parts
        BY <4>1
      <4>2. CASE \E i \in 1 .. Len(q) : q[i].message = n
        BY <4>2, <1>2
      <4> QED
        BY <3>2, <4>1, <4>2 DEF AllThere
    <3> QED
      BY <3>1, <3>2
  <2> QED
    BY <2>1, <2>2, <2>3 DEF AllThere
<1>10. InOrder(k + 1, p, a)
  <2>1. \A i, j \in 1 .. Len(p) : p[i].message = p[j].message => i = j
    BY <1>2, <1>3, <1>7, <1>8 DEF InOrder
  <2>2. \A i, j \in 1 .. Len(p) :
          i < j /\ p[i].left = Parts /\ p[j].left = Parts => p[i].message < p[j].message
    <3> SUFFICES ASSUME NEW i \in 1 .. Len(p), NEW j \in 1 .. Len(p),
                        i < j, p[i].left = Parts, p[j].left = Parts
                 PROVE  p[i].message < p[j].message
      OBVIOUS
    <3>1. i \in 1 .. Len(q) /\ p[i] = q[i]
      BY <1>2, <1>7
    <3>2. CASE j \in 1 .. Len(q) /\ p[j] = q[j]
      BY <3>1, <3>2 DEF InOrder
    <3>3. CASE j = Len(q) + 1 /\ p[j] = w
      BY <1>3, <1>8, <3>1, <3>3
    <3> QED
      BY <1>7, <3>2, <3>3
  <2>3. \A n \in 1 .. k + 1 : \A m \in 1 .. n : Count(a, n) > 0 => Count(a, m) > 0
    BY <1>5, <1>6 DEF InOrder
  <2> QED
    BY <2>1, <2>2, <2>3 DEF InOrder
<1> QED
  BY <1>2, <1>9, <1>10 DEF p, w

\* The write at the head of the queue q, of message m with l parts left, has sent all but
\* d of them, and is at the end of the queue p for those.
Progress(q, p, a, b, m, l, d) ==
  /\ Len(q) \in Nat /\ Len(q) > 0 /\ Len(p) \in Nat
  /\ \A i \in 1 .. Len(q) : q[i] \in Writes
  /\ q[1].message = m /\ q[1].left = l
  /\ d = 0 => Len(p) = Len(q) - 1
  /\ d # 0 => Len(p) = Len(q) /\ p[Len(q)].message = m /\ p[Len(q)].left = d
  /\ \A i \in 1 .. Len(q) - 1 : p[i] = q[i + 1]
  /\ \A i \in 1 .. Len(b) : b[i] = m \/ (i \in 1 .. Len(a) /\ b[i] = a[i])
  /\ \A n : Count(b, n) = Count(a, n) + (IF n = m THEN l - d ELSE 0)

LEMMA QueueKeeps ==
  ASSUME NEW k \in Nat, NEW q, NEW p, NEW a \in Seq(Nat), NEW b \in Seq(Nat),
         AllThere(k, q, a), InOrder(k, q, a),
         NEW m \in Nat, NEW l \in 1 .. Parts, NEW d \in Nat, d < l,
         Progress(q, p, a, b, m, l, d)
  PROVE  AllThere(k, p, b) /\ InOrder(k, p, b)
<1>0. PICK L \in Nat, P \in Nat :
        /\ L = Len(q) /\ L > 0 /\ P = Len(p)
        /\ \A i \in 1 .. L : q[i] \in Writes
        /\ q[1].message = m /\ q[1].left = l
        /\ d = 0 => P = L - 1
        /\ d # 0 => P = L /\ p[L].message = m /\ p[L].left = d
        /\ \A i \in 1 .. L - 1 : p[i] = q[i + 1]
        /\ \A i \in 1 .. Len(b) : b[i] = m \/ (i \in 1 .. Len(a) /\ b[i] = a[i])
        /\ \A n : Count(b, n) = Count(a, n) + (IF n = m THEN l - d ELSE 0)
  BY DEF Progress
<1> USE <1>0
<1>1. Parts \in Nat /\ l \in Nat /\ l <= Parts /\ 1 \in 1 .. L
  BY PartsAssumption
<1>2. \A i \in 1 .. L : /\ q[i].message \in Nat /\ q[i].message \in 1 .. k
                        /\ q[i].left \in Nat /\ Count(a, q[i].message) + q[i].left = Parts
  BY <1>1 DEF AllThere, Writes
<1>3. m \in 1 .. k /\ Count(a, m) + l = Parts
  BY <1>1, <1>2
<1>4. \A n : Count(a, n) \in Nat
  BY CountNat
<1>5. Count(b, m) = Count(a, m) + (l - d) /\ \A n : n # m => Count(b, n) = Count(a, n)
  BY <1>1, <1>4
<1>6. ASSUME NEW i \in 1 .. P
      PROVE  \/ i \in 1 .. L - 1 /\ i + 1 \in 1 .. L /\ p[i] = q[i + 1] /\ q[i + 1].message # m
             \/ i = L /\ d # 0 /\ p[i].message = m /\ p[i].left = d
  <2>1. CASE i \in 1 .. L - 1
    <3>1. i + 1 \in 1 .. L /\ i + 1 # 1
      BY <2>1
    <3>2. q[i + 1].message # m
      BY <1>1, <3>1 DEF InOrder
    <3> QED
      BY <2>1, <3>1, <3>2
  <2>2. CASE i \notin 1 .. L - 1
    BY <2>2
  <2> QED
    BY <2>1, <2>2
<1>7. AllThere(k, p, b)
  <2>1. ASSUME NEW i \in 1 .. P
        PROVE  p[i].message \in 1 .. k /\ Count(b, p[i].message) + p[i].left = Parts
    <3>1. CASE i \in 1 .. L - 1 /\ i + 1 \in 1 .. L /\ p[i] = q[i + 1] /\ q[i + 1].message # m
      BY <1>2, <1>5, <3>1
    <3>2. CASE i = L /\ d # 0 /\ p[i].message = m /\ p[i].left = d
      BY <1>1, <1>3, <1>4, <1>5, <3>2
    <3> QED
      BY <1>6, <3>1, <3>2
  <2>2. \A i \in 1 .. Len(b) : b[i] \in 1 .. k
    BY <1>3 DEF AllThere
  <2>3. ASSUME NEW n \in 1 .. k
        PROVE  Count(b, n) = Parts \/ \E i \in 1 .. P : p[i].message = n
    <3>1. CASE n = m /\ d = 0
      BY <1>1, <1>3, <1>4, <1>5, <3>1
    <3>2. CASE n = m /\ d # 0
      <4>1. L \in 1 .. P /\ p[L].message = n
        BY <3>2
      <4> QED
        BY <4>1
    <3>3. CASE n # m
      <4>1. CASE Count(a, n) = Parts
        BY <1>5, <3>3, <4>1
      <4>2. ASSUME NEW i \in 1 .. L, q[i].message = n
            PROVE  \E h \in 1 .. P : p[h].message = n
        <5>1. i # 1
          BY <3>3, <4>2
        <5>2. PICK h \in 1 .. L - 1 : i = h + 1
          BY <5>1
        <5>3. h \in 1 .. P
          <6>1. P = L - 1 \/ P = L
            OBVIOUS
          <6> QED
            BY <6>1
        <5>4. p[h] = q[i]
          BY <5>2
        <5> QED
          BY <4>2, <5>3, <5>4
      <4> QED
        BY <4>1, <4>2 DEF AllThere
    <3> QED
      BY <3>1, <3>2, <3>3
  <2> QED
    BY <2>1, <2>2, <2>3 DEF AllThere
<1>8. InOrder(k, p, b)
  <2>1. ASSUME NEW i \in 1 .. P, NEW h \in 1 .. P, p[i].message = p[h].message
        PROVE  i = h
    <3>1. CASE i = L /\ p[i].message = m
      BY <1>6, <2>1, <3>1
    <3>2. CASE h = L /\ p[h].message = m
      BY <1>6, <2>1, <3>2
    <3>3. CASE p[i] = q[i + 1] /\ p[h] = q[h + 1] /\ i + 1 \in 1 .. L /\ h + 1 \in 1 .. L
      <4>1. i + 1 = h + 1
        BY <2>1, <3>3 DEF InOrder
      <4> QED
        BY <4>1
    <3> QED
      BY <1>6, <3>1, <3>2, <3>3
  <2>2. ASSUME NEW i \in 1 .. P, NEW h \in 1 .. P, i < h, p[i].left = Parts, p[h].left = Parts
        PROVE  p[i].message < p[h].message
    <3>1. d # Parts
      BY <1>1
    <3>2. p[i] = q[i + 1] /\ p[h] = q[h + 1] /\ i + 1 \in 1 .. L /\ h + 1 \in 1 .. L
      BY <1>6, <2>2, <3>1
    <3>3. i + 1 < h + 1
      BY <2>2
    <3> QED
      BY <2>2, <3>2, <3>3 DEF InOrder
  <2>3. ASSUME NEW n \in 1 .. k, NEW h \in 1 .. n, Count(b, n) > 0
        PROVE  Count(b, h) > 0
    <3>0. \A x : Count(b, x) >= Count(a, x) /\ Count(b, x) \in Int
      <4>1. \A x : Count(b, x) = Count(a, x) \/ Count(b, x) = Count(a, x) + (l - d)
        BY <1>5
      <4> QED
        <5>1. PICK e \in Nat : e = l - d
          BY <1>1
        <5> SUFFICES ASSUME NEW x PROVE Count(b, x) >= Count(a, x) /\ Count(b, x) \in Int
          OBVIOUS
        <5>2. Count(a, x) \in Nat
          BY <1>4
        <5>3. Count(b, x) = Count(a, x) \/ Count(b, x) = Count(a, x) + e
          BY <4>1, <5>1
        <5> QED
          BY <5>2, <5>3
    <3>1. CASE Count(a, n) > 0
      <4>1. Count(a, h) > 0
        BY <3>1 DEF InOrder
      <4> QED
        BY <1>4, <3>0, <4>1
    <3>2. CASE n = m /\ h = m
      BY <2>3, <3>2
    <3>3. CASE n = m /\ h # m /\ Count(a, m) = 0
      <4> SUFFICES ASSUME Count(a, h) = 0 PROVE FALSE
        <5>1. Count(b, h) = Count(a, h) /\ Count(a, h) \in Nat
          BY <1>4, <1>5, <3>3
        <5> QED
          BY <5>1
      <4>0. h \in 1 .. k
        OBVIOUS
      <4>1. PICK i \in 1 .. L : q[i].message = h
        BY PartsAssumption, <4>0 DEF AllThere
      <4>2. q[i].left = Parts /\ q[1].left = Parts
        BY <1>1, <1>2, <1>3, <3>3, <4>1
      <4>3. 1 < i
        BY <3>3, <4>1
      <4>4. q[1].message < q[i].message
        BY <1>1, <4>2, <4>3 DEF InOrder
      <4> QED
        BY <3>3, <4>1, <4>4
    <3>4. CASE n # m /\ Count(a, n) = 0
      <4>1. Count(b, n) = 0
        BY <1>5, <3>4
      <4> QED
        BY <2>3, <4>1
    <3> QED
      BY <1>4, <1>5, <2>3, <3>1, <3>2, <3>3, <3>4
  <2> QED
    BY <2>1, <2>2, <2>3 DEF InOrder
<1> QED
  BY <1>7, <1>8

\* j parts of the message at the head of the queue are sent.
LEMMA SomeKept ==
  ASSUME NEW k \in Nat, NEW q \in Seq(Writes), NEW a \in Seq(Nat),
         AllThere(k, q, a), InOrder(k, q, a), q # <<>>, NEW j \in 1 .. Head(q).left
  PROVE  LET w == Head(q)
             p == IF j = w.left THEN Tail(q) ELSE Append(Tail(q), [w EXCEPT !.left = @ - j])
             b == a \o [i \in 1 .. j |-> w.message]
         IN  p \in Seq(Writes) /\ b \in Seq(Nat) /\ AllThere(k, p, b) /\ InOrder(k, p, b)
<1> DEFINE w == Head(q)
           p == IF j = w.left THEN Tail(q) ELSE Append(Tail(q), [w EXCEPT !.left = @ - j])
           b == a \o [i \in 1 .. j |-> w.message]
<1>1. w \in Writes /\ w = q[1]
  OBVIOUS
<1>2. PICK L \in Nat : L = Len(q) /\ L > 0
  OBVIOUS
<1>3. PICK z \in Seq(Writes) : /\ z = Tail(q) /\ Len(z) = L - 1
                               /\ \A i \in 1 .. L - 1 : z[i] = q[i + 1]
  <2>1. /\ Tail(q) \in Seq(Writes) /\ Len(Tail(q)) = Len(q) - 1
        /\ \A i \in 1 .. Len(q) - 1 : Tail(q)[i] = q[i + 1]
    OBVIOUS
  <2> QED
    BY <1>2, <2>1
<1>4. PICK m \in Nat : w.message = m
  BY <1>1 DEF Writes
<1>5. PICK l \in 1 .. Parts : w.left = l
  BY <1>1 DEF Writes
<1>6. l \in Nat /\ j \in Nat /\ l - j \in Nat /\ l - j < l
  BY <1>5, PartsAssumption
<1>7. PICK d \in Nat : d = l - j /\ d < l
  BY <1>6
<1>8. PICK v : v = [w EXCEPT !.left = @ - j]
  OBVIOUS
<1>9. v = [message |-> m, left |-> d] /\ (d # 0 => v \in Writes)
  <2>1. v = [message |-> m, left |-> d]
    BY <1>1, <1>4, <1>5, <1>7, <1>8 DEF Writes
  <2>2. d # 0 => d \in 1 .. Parts
    BY <1>5, <1>7, PartsAssumption
  <2> QED
    BY <2>1, <2>2 DEF Writes
<1>10. PICK f : f = p
  OBVIOUS
<1>11. PICK g : g = b
  OBVIOUS
<1>12. d = 0 => f = z
  BY <1>3, <1>5, <1>6, <1>7, <1>10
<1>13. d # 0 => f = Append(z, v)
  BY <1>3, <1>5, <1>6, <1>7, <1>8, <1>10
<1>14. g = a \o [i \in 1 .. j |-> m]
  BY <1>4, <1>11
<1> HIDE DEF w, p, b
<1>15. f \in Seq(Writes)
  <2>1. CASE d = 0
    BY <1>12, <2>1
  <2>2. CASE d # 0
    <3>1. v \in Writes
      BY <1>9, <2>2
    <3>2. Append(z, v) \in Seq(Writes)
      BY <3>1
    <3> QED
      BY <1>13, <2>2, <3>2
  <2> QED
    BY <2>1, <2>2
<1>16. /\ d = 0 => Len(f) = L - 1
       /\ d # 0 => Len(f) = L /\ f[L] = v
       /\ \A i \in 1 .. L - 1 : f[i] = z[i]
  <2>1. d # 0 => Len(Append(z, v)) = Len(z) + 1 /\ Append(z, v)[Len(z) + 1] = v
                 /\ \A i \in 1 .. Len(z) : Append(z, v)[i] = z[i]
    BY <1>9
  <2>2. Len(z) + 1 = L
    BY <1>3
  <2> QED
    BY <1>3, <1>12, <1>13, <2>1, <2>2
<1>17. PICK c \in Seq(Nat) : /\ Len(c) = j /\ \A i \in 1 .. j : c[i] = m
                             /\ g = a \o c
  <2> DEFINE c == [i \in 1 .. j |-> m]
  <2>1. c \in Seq(Nat) /\ Len(c) = j /\ \A i \in 1 .. j : c[i] = m
    BY <1>6
  <2>2. g = a \o c
    BY <1>14
  <2> HIDE DEF c
  <2> QED
    BY <2>1, <2>2
<1>18. g \in Seq(Nat) /\ \A i \in 1 .. Len(g) : g[i] = m \/ (i \in 1 .. Len(a) /\ g[i] = a[i])
  <2>1. Len(a) \in Nat /\ DOMAIN a = 1 .. Len(a)
    OBVIOUS
  <2> QED
    BY <1>6, <1>17, <2>1
<1>19. \A n : Count(g, n) = Count(a, n) + (IF n = m THEN l - d ELSE 0)
  <2>1. ASSUME NEW n
        PROVE  Count(a \o c, n) = Count(a, n) + (IF n = m THEN j ELSE 0)
    BY <1>6, <1>17, CountMore
  <2>2. j = l - d
    BY <1>6, <1>7
  <2> QED
    BY <1>17, <2>1, <2>2
<1>20. PICK P \in Nat : P = Len(f)
  BY <1>15
<1>21. \A i \in 1 .. L : q[i] \in Writes
  BY <1>2
<1>22. q[1].message = m /\ q[1].left = l
  BY <1>1, <1>4, <1>5
<1>23. /\ d = 0 => P = L - 1
       /\ d # 0 => P = L /\ f[L].message = m /\ f[L].left = d
       /\ \A i \in 1 .. L - 1 : f[i] = q[i + 1]
  BY <1>3, <1>9, <1>16, <1>20
<1>24. Progress(q, f, a, g, m, l, d)
  BY <1>2, <1>18, <1>19, <1>20, <1>21, <1>22, <1>23 DEF Progress
<1>25. AllThere(k, f, g) /\ InOrder(k, f, g)
  BY <1>7, <1>18, <1>24, QueueKeeps
<1> QED
  BY <1>10, <1>11, <1>15, <1>18, <1>25 DEF p, b, w

\* Where nothing was written, everything is there.
LEMMA NothingWritten == AllThere(0, <<>>, <<>>) /\ InOrder(0, <<>>, <<>>)
BY DEF AllThere, InOrder

LEMMA WritingKeeps == ASSUME WritesInv, NEW c \in Hosts, write(c), server' = server,
                             peer' \in [Hosts -> {"away", "connecting", "open", "closed"}],
                             \A d \in Hosts : peer'[d] # "closed" => peer[d] # "closed"
                      PROVE  WritesInv'
<1> DEFINE w == [message |-> written[c] + 1, left |-> Parts]
<1>1. w \in Writes
  BY PartsAssumption DEF Writes, WritesInv
<1>2. /\ written' \in [Hosts -> Nat] /\ writes' \in [Hosts -> Seq(Writes)] /\ arrived' = arrived
      /\ written'[c] = written[c] + 1 /\ writes'[c] = Append(writes[c], w)
      /\ \A d \in Hosts \ {c} : written'[d] = written[d] /\ writes'[d] = writes[d]
  BY <1>1 DEF WritesInv, write
<1>3. ASSUME server = "running", NEW d \in Hosts, peer'[d] # "closed"
      PROVE  AllThere(written'[d], writes'[d], arrived'[d]) /\ InOrder(written'[d], writes'[d], arrived'[d])
  <2>1. AllThere(written[d], writes[d], arrived[d]) /\ InOrder(written[d], writes[d], arrived[d])
    BY <1>3 DEF WritesInv
  <2>2. written[d] \in Nat /\ writes[d] \in Seq(Writes) /\ arrived[d] \in Seq(Nat)
    BY DEF WritesInv
  <2>3. CASE d = c
    BY <1>2, <2>1, <2>2, <2>3, WriteKeeps
  <2>4. CASE d # c
    BY <1>2, <2>1, <2>4
  <2> QED
    BY <2>3, <2>4
<1> QED
  BY <1>2, <1>3 DEF WritesInv

\* The rest of the server leaves alone what is written.
LEMMA OutputLeft == ASSUME WritesInv, UNCHANGED output, server' \in {server, "stopped"},
                           peer' \in [Hosts -> {"away", "connecting", "open", "closed"}],
                           \A d \in Hosts : peer'[d] # "closed" => peer[d] # "closed"
                    PROVE  WritesInv'
BY DEF WritesInv, output

LEMMA WriteSomeKeeps == ASSUME WritesInv, NEW c \in Hosts, WriteSome(c) PROVE WritesInv'
<1>1. PICK j \in 1 .. Head(writes[c]).left :
        /\ arrived' = [arrived EXCEPT ![c] = @ \o [i \in 1 .. j |-> Head(writes[c]).message]]
        /\ writes' = [writes EXCEPT ![c] =
             IF j = Head(writes[c]).left THEN Tail(@)
             ELSE Append(Tail(@), [Head(writes[c]) EXCEPT !.left = @ - j])]
  BY DEF WriteSome
<1>2. /\ server = "running" /\ server' = server /\ peer' = peer /\ written' = written
      /\ peer[c] # "closed" /\ writes[c] # <<>>
  BY DEF WriteSome, acceptor
<1>3. \A d \in Hosts : written[d] \in Nat /\ writes[d] \in Seq(Writes) /\ arrived[d] \in Seq(Nat)
  BY DEF WritesInv
<1>4. AllThere(written[c], writes[c], arrived[c]) /\ InOrder(written[c], writes[c], arrived[c])
  BY <1>2 DEF WritesInv
<1> DEFINE w == Head(writes[c])
           p == IF j = w.left THEN Tail(writes[c])
                ELSE Append(Tail(writes[c]), [w EXCEPT !.left = @ - j])
           b == arrived[c] \o [i \in 1 .. j |-> w.message]
<1>5. /\ p \in Seq(Writes) /\ b \in Seq(Nat)
      /\ AllThere(written[c], p, b) /\ InOrder(written[c], p, b)
  BY <1>2, <1>3, <1>4, SomeKept
<1>6. arrived' = [arrived EXCEPT ![c] = b] /\ writes' = [writes EXCEPT ![c] = p]
  BY <1>1
<1> HIDE DEF w, p, b
<1> QED
  BY <1>2, <1>5, <1>6 DEF WritesInv

LEMMA WriteFailsKeeps == ASSUME WritesInv, NEW c \in Hosts, WriteFails(c) PROVE WritesInv'
<1>1. /\ server' = server /\ peer' = peer /\ written' = written /\ arrived' = arrived
      /\ peer[c] = "closed" /\ writes' = [writes EXCEPT ![c] = Tail(@)]
  BY DEF WriteFails, acceptor
<1>2. writes[c] \in Seq(Writes) /\ writes[c] # <<>>
  BY DEF WritesInv, WriteFails
<1>3. Tail(writes[c]) \in Seq(Writes)
  BY <1>2
<1> QED
  BY <1>1, <1>3 DEF WritesInv

LEMMA WritesKept == NetworkSpec => []WritesInv
<1>1. NetworkInit => WritesInv
  BY NothingWritten DEF NetworkInit, WritesInv
<1>2. WritesInv /\ [NetworkNext]_network => WritesInv'
  <2> SUFFICES ASSUME WritesInv, [NetworkNext]_network PROVE WritesInv'
    OBVIOUS
  <2>1. ASSUME NEW c \in Hosts, Open(c) \/ Close(c)
        PROVE  WritesInv'
    BY <2>1, OutputLeft DEF Open, Close, acceptor, WritesInv
  <2>2. ASSUME NEW c \in Hosts, Send(c) \/ Receive(c) \/ read_handler(c) \/ read_handler_error(c) \/ Expire(c)
        PROVE  WritesInv'
    BY <2>2, OutputLeft DEF Send, Receive, read_handler, read_handler_error, Expire, acceptor, WritesInv
  <2>3. ASSUME NEW c \in Hosts, Publish(c) PROVE WritesInv'
    BY <2>3, WritingKeeps DEF Publish, acceptor, WritesInv
  <2>4. ASSUME NEW c \in Hosts, handle_accept(c) PROVE WritesInv'
    BY <2>4, WritingKeeps DEF handle_accept, acceptor, WritesInv
  <2>5. ASSUME NEW c \in Hosts, timeout_handler(c) PROVE WritesInv'
    BY <2>5, WritingKeeps, OutputLeft DEF timeout_handler, acceptor, WritesInv
  <2>6. ASSUME NEW c \in Hosts, WriteSome(c) \/ WriteFails(c) PROVE WritesInv'
    BY <2>6, WriteSomeKeeps, WriteFailsKeeps
  <2>7. CASE handle_accept_error
    BY <2>7, OutputLeft DEF handle_accept_error, WritesInv
  <2>8. CASE stop
    BY <2>8 DEF stop, WritesInv
  <2>9. CASE UNCHANGED network
    BY <2>9, OutputLeft DEF network, output, WritesInv
  <2> QED
    BY <2>1, <2>2, <2>3, <2>4, <2>5, <2>6, <2>7, <2>8, <2>9 DEF NetworkNext
<1> QED
  BY <1>1, <1>2, PTL DEF NetworkSpec

\* While a client is connected, each part of each message has arrived once or belongs
\* to a write that is not complete, and no message begins to arrive before an older one
\* (Connection::write() and the io_service's queue of writes).
THEOREM MessagesAlwaysKept == NetworkSpec => []MessagesKept
<1>1. WritesInv => MessagesKept
  <2> SUFFICES ASSUME WritesInv, server = "running", NEW c \in Hosts, peer[c] # "closed",
                      NEW n \in 1 .. written[c]
               PROVE  /\ Received(c, n) + Cardinality(UNION
                           { {i} \X (1 .. writes[c][i].left) :
                               i \in { j \in DOMAIN writes[c] : writes[c][j].message = n } }) = Parts
                      /\ Received(c, n) > 0 => \A k \in 1 .. n : Received(c, k) > 0
    BY DEF MessagesKept
  <2> DEFINE q == writes[c]
             a == arrived[c]
             Rest == UNION { {i} \X (1 .. q[i].left) : i \in { j \in DOMAIN q : q[j].message = n } }
  <2>1. q \in Seq(Writes) /\ a \in Seq(Nat) /\ AllThere(written[c], q, a) /\ InOrder(written[c], q, a)
    BY DEF WritesInv
  <2>2. \A m : Received(c, m) = Count(a, m)
    BY DEF Received, Count
  <2>3. DOMAIN q = 1 .. Len(q) /\ \A i \in 1 .. Len(q) : q[i].left \in Nat
    <3>1. \A i \in 1 .. Len(q) : q[i] \in Writes
      BY <2>1
    <3> QED
      BY <2>1, <3>1, PartsAssumption DEF Writes
  <2> HIDE DEF q, a
  <2>4. \A m : Count(a, m) \in Nat
    BY <2>1, CountNat
  <2>5. Count(a, n) + Cardinality(Rest) = Parts
    <3>1. ASSUME NEW i \in 1 .. Len(q), q[i].message = n
          PROVE  Count(a, n) + Cardinality(Rest) = Parts
      <4>1. { j \in DOMAIN q : q[j].message = n } = {i}
        BY <2>1, <2>3, <3>1 DEF InOrder
      <4>2. Rest = {i} \X (1 .. q[i].left)
        BY <4>1
      <4>3. IsFiniteSet({i}) /\ Cardinality({i}) = 1
        BY FS_Singleton
      <4>4. PICK l \in Nat : l = q[i].left
        BY <2>3
      <4>5. IsFiniteSet(1 .. l) /\ Cardinality(1 .. l) = l
        <5>1. IsFiniteSet(1 .. l) /\ Cardinality(1 .. l) = IF 1 > l THEN 0 ELSE l - 1 + 1
          BY FS_Interval
        <5> QED
          BY <5>1
      <4>7. Cardinality({i} \X (1 .. l)) = Cardinality({i}) * Cardinality(1 .. l)
        BY <4>3, <4>5, FS_Product
      <4>8. Cardinality(Rest) = l
        BY <4>2, <4>3, <4>4, <4>5, <4>7
      <4>6. Count(a, q[i].message) + q[i].left = Parts
        BY <2>1 DEF AllThere
      <4> QED
        BY <3>1, <4>4, <4>6, <4>8
    <3>2. CASE ~ \E i \in 1 .. Len(q) : q[i].message = n
      <4>1. { j \in DOMAIN q : q[j].message = n } = {}
        BY <2>3, <3>2
      <4>2. Rest = {}
        BY <4>1
      <4>3. Cardinality(Rest) = 0
        BY <4>2, FS_EmptySet
      <4>4. Count(a, n) = Parts
        BY <2>1, <3>2 DEF AllThere
      <4> QED
        BY <2>4, <4>3, <4>4
    <3> QED
      BY <3>1, <3>2
  <2>6. Count(a, n) > 0 => \A k \in 1 .. n : Count(a, k) > 0
    BY <2>1 DEF InOrder
  <2> QED
    BY <2>2, <2>5, <2>6 DEF q
<1> QED
  BY <1>1, WritesKept, PTL

(***************************************************************************)
(* What is read from a client.                                             *)
(***************************************************************************)

\* x is the text of the packets p + 1 to s.
TextOf(x, p, s) ==
  /\ Len(x) = 2 * (s - p)
  /\ \A n \in 1 .. s - p : x[2 * n - 1] = p + n /\ x[2 * n] = Terminator

InputInv ==
  /\ sent \in [Hosts -> Nat]
  /\ incoming \in [Hosts -> Seq(Nat)]
  /\ _streambuf \in [Hosts -> Seq(Nat)]
  /\ parsed \in [Hosts -> Seq(Nat)]
  /\ \A c \in Hosts :
       /\ parsed[c] = [n \in 1 .. Len(parsed[c]) |-> n]
       /\ TextOf(_streambuf[c] \o incoming[c], Len(parsed[c]), sent[c])

LEMMA Associative ==
  \A x, y, z \in Seq(Nat) : x \o y \in Seq(Nat) /\ x \o (y \o z) = (x \o y) \o z
OBVIOUS

LEMMA Joined ==
  \A x, y \in Seq(Nat) :
    /\ Len(x) \in Nat /\ Len(y) \in Nat /\ Len(x \o y) = Len(x) + Len(y)
    /\ \A i \in 1 .. Len(x) + Len(y) : (x \o y)[i] = IF i <= Len(x) THEN x[i] ELSE y[i - Len(x)]
OBVIOUS

LEMMA Pieces ==
  ASSUME NEW y \in Seq(Nat), NEW n \in 1 .. Len(y)
  PROVE  /\ SubSeq(y, 1, n) \in Seq(Nat) /\ SubSeq(y, n + 1, Len(y)) \in Seq(Nat)
         /\ Len(SubSeq(y, 1, n)) = n /\ \A i \in 1 .. n : SubSeq(y, 1, n)[i] = y[i]
         /\ SubSeq(y, 1, n) \o SubSeq(y, n + 1, Len(y)) = y
<1>1. SubSeq(y, 1, n) \in Seq(Nat) /\ Len(SubSeq(y, 1, n)) = n
  OBVIOUS
<1>2. SubSeq(y, n + 1, Len(y)) \in Seq(Nat)
  OBVIOUS
<1>3. \A i \in 1 .. n : SubSeq(y, 1, n)[i] = y[i]
  OBVIOUS
<1>4. SubSeq(y, 1, n) \o SubSeq(y, n + 1, Len(y)) = y
  OBVIOUS
<1> QED
  BY <1>1, <1>2, <1>3, <1>4

LEMMA TextGrows ==
  ASSUME NEW g \in Seq(Nat), NEW p \in Nat, NEW s \in Nat, TextOf(g, p, s)
  PROVE  TextOf(g \o <<s + 1, Terminator>>, p, s + 1)
<1>1. PICK k \in Nat : k = s - p /\ Len(g) = 2 * k
  <2>1. Len(g) \in Nat /\ Len(g) = 2 * (s - p)
    BY DEF TextOf
  <2> QED
    BY <2>1
<1>2. \A n \in 1 .. k : g[2 * n - 1] = p + n /\ g[2 * n] = Terminator
  BY <1>1 DEF TextOf
<1> DEFINE f == g \o <<s + 1, Terminator>>
<1>3. /\ Len(f) = 2 * k + 2
      /\ \A i \in 1 .. 2 * k : f[i] = g[i]
      /\ f[2 * k + 1] = s + 1 /\ f[2 * k + 2] = Terminator
  BY <1>1 DEF Terminator
<1> HIDE DEF f
<1>4. ASSUME NEW n \in 1 .. k + 1 PROVE f[2 * n - 1] = p + n /\ f[2 * n] = Terminator
  <2>1. CASE n = k + 1
    BY <1>1, <1>3, <2>1
  <2>2. CASE n \in 1 .. k
    <3>1. 2 * n - 1 \in 1 .. 2 * k /\ 2 * n \in 1 .. 2 * k
      BY <2>2
    <3> QED
      BY <1>2, <1>3, <2>2, <3>1
  <2> QED
    BY <2>1, <2>2
<1>5. s + 1 - p = k + 1 /\ Len(f) = 2 * (k + 1)
  BY <1>1, <1>3
<1>6. TextOf(f, p, s + 1)
  BY <1>4, <1>5 DEF TextOf
<1> QED
  BY <1>6 DEF f

LEMMA TextShrinks ==
  ASSUME NEW g \in Seq(Nat), NEW u \in Seq(Nat), Len(u) = 2,
         NEW p \in Nat, NEW s \in Nat, TextOf(u \o g, p, s)
  PROVE  TextOf(g, p + 1, s) /\ u[1] = p + 1 /\ u[2] = Terminator
<1>0. PICK U \in Nat, G \in Nat : U = Len(u) /\ G = Len(g) /\ U = 2
  <2>1. Len(u) \in Nat /\ Len(g) \in Nat
    OBVIOUS
  <2> QED
    BY <2>1
<1>4. PICK f : /\ f = u \o g /\ Len(f) = U + G
               /\ \A i \in 1 .. U + G : f[i] = IF i <= U THEN u[i] ELSE g[i - U]
  <2>1. /\ Len(u \o g) = Len(u) + Len(g)
        /\ \A i \in 1 .. Len(u) + Len(g) : (u \o g)[i] = IF i <= Len(u) THEN u[i] ELSE g[i - Len(u)]
    BY Joined
  <2> QED
    BY <1>0, <2>1
<1>1. PICK k \in Nat : k = s - p - 1 /\ G = 2 * k
  <2>1. U + G = 2 * (s - p)
    BY <1>4 DEF TextOf
  <2> QED
    BY <1>0, <2>1
<1>2. \A i \in 1 .. 2 * k : g[i] = f[i + 2]
  BY <1>0, <1>1, <1>4
<1>3. u[1] = f[1] /\ u[2] = f[2]
  BY <1>0, <1>4
<1>5. \A n \in 1 .. k + 1 : f[2 * n - 1] = p + n /\ f[2 * n] = Terminator
  BY <1>1, <1>4 DEF TextOf
<1>6. f[1] = p + 1 /\ f[2] = Terminator
  <2>1. f[2 * 1 - 1] = p + 1 /\ f[2 * 1] = Terminator
    BY <1>5
  <2> QED
    BY <2>1
<1>7. ASSUME NEW n \in 1 .. k PROVE g[2 * n - 1] = p + 1 + n /\ g[2 * n] = Terminator
  <2>1. 2 * n - 1 \in 1 .. 2 * k /\ 2 * n \in 1 .. 2 * k /\ n + 1 \in 1 .. k + 1
    OBVIOUS
  <2>2. g[2 * n - 1] = f[2 * n - 1 + 2] /\ g[2 * n] = f[2 * n + 2]
    BY <1>2, <1>4, <2>1
  <2>3. f[2 * (n + 1) - 1] = p + (n + 1) /\ f[2 * (n + 1)] = Terminator
    BY <1>5, <2>1
  <2>4. 2 * n - 1 + 2 = 2 * (n + 1) - 1 /\ 2 * n + 2 = 2 * (n + 1) /\ p + (n + 1) = p + 1 + n
    OBVIOUS
  <2> QED
    BY <2>2, <2>3, <2>4
<1>8. s - (p + 1) = k
  BY <1>1
<1> QED
  BY <1>0, <1>1, <1>3, <1>6, <1>7, <1>8 DEF TextOf

LEMMA SendKeeps == ASSUME InputInv, NEW c \in Hosts, Send(c) PROVE InputInv'
<1> DEFINE x == _streambuf[c]
           y == incoming[c]
           s == sent[c]
           t == <<s + 1, Terminator>>
<1>1. /\ sent' = [sent EXCEPT ![c] = s + 1] /\ incoming' = [incoming EXCEPT ![c] = y \o t]
      /\ _streambuf' = _streambuf /\ parsed' = parsed
  BY DEF Send
<1>2. x \in Seq(Nat) /\ y \in Seq(Nat) /\ s \in Nat /\ Len(parsed[c]) \in Nat
  BY DEF InputInv
<1>3. t \in Seq(Nat)
  BY <1>2 DEF Terminator
<1>4. y \o t \in Seq(Nat) /\ x \o y \in Seq(Nat) /\ x \o (y \o t) = (x \o y) \o t
  <2> HIDE DEF x, y, t
  <2> QED
    BY <1>2, <1>3, Associative
<1>5. TextOf((x \o y) \o t, Len(parsed[c]), s + 1)
  BY <1>2, <1>4, TextGrows DEF InputInv
<1>6. TextOf(x \o (y \o t), Len(parsed[c]), s + 1)
  BY <1>4, <1>5
<1> QED
  BY <1>1, <1>2, <1>4, <1>6 DEF InputInv

LEMMA ReceiveKeeps == ASSUME InputInv, NEW c \in Hosts, Receive(c) PROVE InputInv'
<1> DEFINE x == _streambuf[c]
           y == incoming[c]
<1>1. PICK n \in 1 .. Len(y) :
        /\ _streambuf' = [_streambuf EXCEPT ![c] = x \o SubSeq(y, 1, n)]
        /\ incoming' = [incoming EXCEPT ![c] = SubSeq(y, n + 1, Len(y))]
  BY DEF Receive
<1>2. sent' = sent /\ parsed' = parsed
  BY DEF Receive
<1>3. x \in Seq(Nat) /\ y \in Seq(Nat)
  BY DEF InputInv
<1> DEFINE u == SubSeq(y, 1, n)
           v == SubSeq(y, n + 1, Len(y))
<1>4. u \in Seq(Nat) /\ v \in Seq(Nat) /\ u \o v = y
  <2>1. Len(y) \in Nat /\ n \in 1 .. Len(y)
    BY <1>3
  <2> HIDE DEF y
  <2> QED
    BY <1>3, <2>1, Pieces
<1>5. x \o u \in Seq(Nat) /\ (x \o u) \o v = x \o (u \o v)
  <2> HIDE DEF x, u, v
  <2> QED
    BY <1>3, <1>4, Associative
<1>6. TextOf((x \o u) \o v, Len(parsed[c]), sent[c])
  BY <1>4, <1>5 DEF InputInv
<1> QED
  BY <1>1, <1>2, <1>4, <1>5, <1>6 DEF InputInv

\* The first terminator in the buffer is that of the packet at its beginning.
LEMMA FirstTerminator ==
  ASSUME NEW x \in Seq(Nat), x[1] # Terminator, x[2] = Terminator, Len(x) >= 2
  PROVE  SelectInSeq(x, LAMBDA e : e = Terminator) = 2
<1> DEFINE I == {i \in 1 .. Len(x) : x[i] = Terminator}
<1>1. 2 \in I /\ (\A i \in I : i >= 2) /\ I \in SUBSET Nat
  BY DEF Terminator
<1> HIDE DEF I
<1>2. \A z \in I : (\A h \in I : z <= h) <=> z = 2
  BY <1>1
<1>3. (CHOOSE z \in I : \A h \in I : z <= h) = 2
  BY <1>1, <1>2
<1>4. Min(I) = 2
  BY <1>3 DEF Min
<1>5. I # {}
  BY <1>1
<1> QED
  BY <1>4, <1>5 DEF SelectInSeq, I

\* The packet at the beginning of the buffer x, with y still to read, when p were parsed.
LEMMA Parsed ==
  ASSUME NEW x \in Seq(Nat), NEW y \in Seq(Nat), NEW p \in Nat, NEW s \in Nat,
         TextOf(x \o y, p, s), NEW i \in 1 .. Len(x), x[i] = Terminator
  PROVE  /\ SelectInSeq(x, LAMBDA e : e = Terminator) = 2
         /\ SubSeq(x, 1, 1) \in Seq(Nat) /\ Len(SubSeq(x, 1, 1)) = 1 /\ SubSeq(x, 1, 1)[1] = p + 1
         /\ SubSeq(x, 3, Len(x)) \in Seq(Nat)
         /\ TextOf(SubSeq(x, 3, Len(x)) \o y, p + 1, s)
<1>1. PICK X \in Nat, Y \in Nat : X = Len(x) /\ Y = Len(y) /\ X >= 1
  OBVIOUS
<1>2. PICK f : /\ f = x \o y /\ Len(f) = X + Y
               /\ \A h \in 1 .. X + Y : f[h] = IF h <= X THEN x[h] ELSE y[h - X]
  <2>1. /\ Len(x \o y) = Len(x) + Len(y)
        /\ \A h \in 1 .. Len(x) + Len(y) : (x \o y)[h] = IF h <= Len(x) THEN x[h] ELSE y[h - Len(x)]
    BY Joined
  <2> QED
    BY <1>1, <2>1
<1>3. f[1] = p + 1
  <2>1. X + Y = 2 * (s - p) /\ \A n \in 1 .. s - p : f[2 * n - 1] = p + n
    BY <1>2 DEF TextOf
  <2>2. 1 \in 1 .. s - p
    BY <1>1, <2>1
  <2>3. f[2 * 1 - 1] = p + 1
    BY <2>1, <2>2
  <2> QED
    BY <2>3
<1>4. x[1] = p + 1 /\ x[1] # Terminator
  BY <1>1, <1>2, <1>3 DEF Terminator
<1>5. Len(x) >= 2 /\ 2 \in 1 .. Len(x)
  BY <1>1, <1>4
<1>6. PICK u \in Seq(Nat), v \in Seq(Nat) :
        /\ u = SubSeq(x, 1, 2) /\ v = SubSeq(x, 2 + 1, Len(x))
        /\ Len(u) = 2 /\ u[1] = x[1] /\ u[2] = x[2] /\ u \o v = x
  <2>1. /\ SubSeq(x, 1, 2) \in Seq(Nat) /\ SubSeq(x, 2 + 1, Len(x)) \in Seq(Nat)
        /\ Len(SubSeq(x, 1, 2)) = 2 /\ \A h \in 1 .. 2 : SubSeq(x, 1, 2)[h] = x[h]
        /\ SubSeq(x, 1, 2) \o SubSeq(x, 2 + 1, Len(x)) = x
    BY <1>5, Pieces
  <2>2. 1 \in 1 .. 2 /\ 2 \in 1 .. 2
    OBVIOUS
  <2> QED
    BY <2>1, <2>2
<1>7. v \o y \in Seq(Nat) /\ u \o (v \o y) = x \o y
  <2>1. v \o y \in Seq(Nat) /\ u \o (v \o y) = (u \o v) \o y
    BY Associative
  <2> QED
    BY <1>6, <2>1
<1>8. TextOf(v \o y, p + 1, s) /\ u[2] = Terminator
  <2>1. TextOf(u \o (v \o y), p, s)
    BY <1>7
  <2> QED
    BY <1>6, <1>7, <2>1, TextShrinks
<1>9. SelectInSeq(x, LAMBDA e : e = Terminator) = 2
  BY <1>4, <1>5, <1>6, <1>8, FirstTerminator
<1>10. SubSeq(x, 1, 1) \in Seq(Nat) /\ Len(SubSeq(x, 1, 1)) = 1 /\ SubSeq(x, 1, 1)[1] = p + 1
  <2>1. 1 \in 1 .. Len(x) /\ 1 \in 1 .. 1
    BY <1>5
  <2>2. /\ SubSeq(x, 1, 1) \in Seq(Nat) /\ Len(SubSeq(x, 1, 1)) = 1
        /\ \A h \in 1 .. 1 : SubSeq(x, 1, 1)[h] = x[h]
    BY <2>1, Pieces
  <2>3. SubSeq(x, 1, 1)[1] = x[1]
    BY <2>1, <2>2
  <2> QED
    BY <1>4, <2>2, <2>3
<1>11. v = SubSeq(x, 3, Len(x))
  BY <1>6
<1> QED
  BY <1>8, <1>9, <1>10, <1>11

LEMMA ParseKeeps == ASSUME InputInv, NEW c \in Hosts, read_handler(c) PROVE InputInv'
<1>1. PICK x \in Seq(Nat), y \in Seq(Nat), r \in Seq(Nat), s \in Nat :
        /\ x = _streambuf[c] /\ y = incoming[c] /\ r = parsed[c] /\ s = sent[c]
  BY DEF InputInv
<1>2. PICK p \in Nat : p = Len(r)
  OBVIOUS
<1>3. TextOf(x \o y, p, s) /\ r = [n \in 1 .. p |-> n]
  BY <1>1, <1>2 DEF InputInv
<1>4. PICK i \in 1 .. Len(x) : x[i] = Terminator
  BY <1>1 DEF read_handler, HasPacket, ToSet
<1>5. /\ SelectInSeq(x, LAMBDA e : e = Terminator) = 2
      /\ SubSeq(x, 1, 1) \in Seq(Nat) /\ Len(SubSeq(x, 1, 1)) = 1 /\ SubSeq(x, 1, 1)[1] = p + 1
      /\ SubSeq(x, 3, Len(x)) \in Seq(Nat)
      /\ TextOf(SubSeq(x, 3, Len(x)) \o y, p + 1, s)
  BY <1>3, <1>4, Parsed
<1>6. PICK v \in Seq(Nat) : v = SubSeq(x, 3, Len(x))
  BY <1>5
<1>7. PICK z \in Seq(Nat) : z = r \o SubSeq(x, 1, 1) /\ Len(z) = p + 1 /\ z = [n \in 1 .. p + 1 |-> n]
  <2>1. PICK u \in Seq(Nat) : u = SubSeq(x, 1, 1) /\ Len(u) = 1 /\ u[1] = p + 1
    BY <1>5
  <2>2. r \o u \in Seq(Nat) /\ Len(r \o u) = p + 1 /\ r \o u = [n \in 1 .. p + 1 |-> n]
    BY <1>2, <1>3, <2>1
  <2> QED
    BY <2>1, <2>2
<1>8. /\ parsed' = [parsed EXCEPT ![c] = r \o SubSeq(x, 1, 2 - 1)]
      /\ _streambuf' = [_streambuf EXCEPT ![c] = SubSeq(x, 2 + 1, Len(x))]
      /\ sent' = sent /\ incoming' = incoming
  BY <1>1, <1>5 DEF read_handler
<1>9. parsed' = [parsed EXCEPT ![c] = z] /\ _streambuf' = [_streambuf EXCEPT ![c] = v]
  <2>1. 2 - 1 = 1 /\ 2 + 1 = 3
    OBVIOUS
  <2> QED
    BY <1>5, <1>6, <1>7, <1>8, <2>1
<1> QED
  <2>1. TextOf(v \o y, p + 1, s)
    BY <1>5, <1>6
  <2>2. \A d \in Hosts \ {c} : parsed'[d] = parsed[d] /\ _streambuf'[d] = _streambuf[d]
    BY <1>9 DEF InputInv
  <2>3. parsed'[c] = z /\ _streambuf'[c] = v
    BY <1>9 DEF InputInv
  <2>4. parsed' \in [Hosts -> Seq(Nat)] /\ _streambuf' \in [Hosts -> Seq(Nat)]
    BY <1>9 DEF InputInv
  <2>5. ASSUME NEW d \in Hosts
        PROVE  /\ parsed'[d] = [n \in 1 .. Len(parsed'[d]) |-> n]
               /\ TextOf(_streambuf'[d] \o incoming'[d], Len(parsed'[d]), sent'[d])
    <3>1. CASE d = c
      BY <1>1, <1>7, <1>8, <2>1, <2>3, <3>1
    <3>2. CASE d # c
      BY <1>8, <2>2, <3>2 DEF InputInv
    <3> QED
      BY <3>1, <3>2
  <2> QED
    BY <1>8, <2>4, <2>5 DEF InputInv

LEMMA InputLeft == ASSUME InputInv, UNCHANGED input PROVE InputInv'
BY DEF InputInv, input

\* What a client has sent is parsed once and in order, and nothing of it is lost, whatever
\* pieces it arrives in (Connection::read_handler() leaves in the buffer what is behind the
\* packet it parses).
THEOREM InputAlwaysConserved == NetworkSpec => []InputConserved
<1>1. NetworkInit => InputInv
  BY DEF NetworkInit, InputInv, TextOf
<1>2. InputInv /\ [NetworkNext]_network => InputInv'
  <2> SUFFICES ASSUME InputInv, [NetworkNext]_network PROVE InputInv'
    OBVIOUS
  <2>1. ASSUME NEW c \in Hosts, Open(c) \/ Close(c) \/ Publish(c) \/ WriteSome(c) \/ WriteFails(c)
        PROVE  InputInv'
    BY <2>1, InputLeft DEF Open, Close, Publish, WriteSome, WriteFails
  <2>2. ASSUME NEW c \in Hosts,
               handle_accept(c) \/ read_handler_error(c) \/ Expire(c) \/ timeout_handler(c)
        PROVE  InputInv'
    BY <2>2, InputLeft DEF handle_accept, read_handler_error, Expire, timeout_handler
  <2>3. ASSUME NEW c \in Hosts, Send(c) \/ Receive(c) \/ read_handler(c) PROVE InputInv'
    BY <2>3, SendKeeps, ReceiveKeeps, ParseKeeps
  <2>4. CASE handle_accept_error \/ stop
    BY <2>4, InputLeft DEF handle_accept_error, stop
  <2>5. CASE UNCHANGED network
    BY <2>5, InputLeft DEF network, input
  <2> QED
    BY <2>1, <2>2, <2>3, <2>4, <2>5 DEF NetworkNext
<1>3. InputInv => InputConserved
  BY DEF InputInv, InputConserved, TextOf
<1> QED
  BY <1>1, <1>2, <1>3, PTL DEF NetworkSpec
==============================================================================
