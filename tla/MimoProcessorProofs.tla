-------------------------- MODULE MimoProcessorProofs ------------------------
(***************************************************************************)
(* MimoProcessor for every number of threads, of lists and of items: its   *)
(* types, the barrier between the main thread and its workers, that the    *)
(* lists are stable while they are processed, and that they are processed  *)
(* in order, each item once.                                               *)
(***************************************************************************)
EXTENDS MimoProcessor, SequenceTheorems, TLAPS

Barrier == TypeOK /\ BarrierInv

(* Outside of a list's processing all threads are asleep, and nothing is   *)
(* left over in their semaphores.                                          *)
LEMMA Asleep ==
  ASSUME Barrier, at \notin {"wake", "own", "await"}
  PROVE  /\ \A t \in Threads : on[t] = 0
         /\ \A w \in Workers : cont_semaphore[w] = 0 /\ wait_semaphore[w] = 0
<1> USE ThreadsAssumption, ListsAssumption DEF Barrier, TypeOK, Threads, Workers
<1>1. ASSUME NEW w \in Workers
      PROVE  on[w] = 0 /\ cont_semaphore[w] = 0 /\ wait_semaphore[w] = 0
  <2>1. cont_semaphore[w] + wait_semaphore[w] + (IF on[w] # 0 THEN 1 ELSE 0) = 0
    BY DEF BarrierInv, Engaged
  <2>2. cont_semaphore[w] \in 0 .. 1 /\ wait_semaphore[w] \in 0 .. 1
    OBVIOUS
  <2> QED
    BY <2>1, <2>2
<1>2. on[0] = 0
  BY DEF BarrierInv
<1> QED
  BY <1>1, <1>2

(* A thread that is in its loop: where the main thread is then. *)
LEMMA InLoop ==
  ASSUME Barrier, NEW t \in Threads, on[t] # 0
  PROVE  /\ at \in {"wake", "own", "await"}
         /\ on[t] = phase
         /\ phase \in Lists
         /\ n[t] <= Len(lists[phase])
BY Asleep DEF Barrier, BarrierInv

LEMMA RemoveAtType ==
  ASSUME NEW s \in Seq(Items), NEW p \in 1 .. Len(s)
  PROVE  /\ RemoveAt(s, p) \in Seq(Items)
         /\ Len(RemoveAt(s, p)) = Len(s) - 1
         /\ \A q \in 1 .. Len(s) - 1 :
              RemoveAt(s, p)[q] = IF q < p THEN s[q] ELSE s[q + 1]
<1>1. SubSeq(s, 1, p - 1) \in Seq(Items) /\ Len(SubSeq(s, 1, p - 1)) = p - 1
  BY SubSeqProperties
<1>2. SubSeq(s, p + 1, Len(s)) \in Seq(Items)
      /\ Len(SubSeq(s, p + 1, Len(s))) = Len(s) - p
  BY SubSeqProperties
<1>3. \A q \in 1 .. p - 1 : SubSeq(s, 1, p - 1)[q] = s[q]
  BY SubSeqProperties
<1>4. \A q \in 1 .. Len(s) - p : SubSeq(s, p + 1, Len(s))[q] = s[q + p]
  BY SubSeqProperties
<1> DEFINE a == SubSeq(s, 1, p - 1)
           b == SubSeq(s, p + 1, Len(s))
<1>5. RemoveAt(s, p) = a \o b
  BY DEF RemoveAt
<1>6. /\ a \o b \in Seq(Items)
      /\ Len(a \o b) = Len(a) + Len(b)
      /\ \A q \in 1 .. Len(a) + Len(b) :
           (a \o b)[q] = IF q <= Len(a) THEN a[q] ELSE b[q - Len(a)]
  BY <1>1, <1>2, ConcatProperties
<1>7. Len(a) = p - 1 /\ Len(b) = Len(s) - p
  BY <1>1, <1>2
<1> HIDE DEF a, b
<1>8. ASSUME NEW q \in 1 .. Len(s) - 1
      PROVE  (a \o b)[q] = IF q < p THEN s[q] ELSE s[q + 1]
  <2>0. q < p \/ q >= p
    <3>1. Len(s) \in Nat
      OBVIOUS
    <3> QED
      BY <3>1
  <2>1. CASE q < p
    BY <1>3, <1>6, <1>7, <2>1 DEF a
  <2>2. CASE q >= p
    <3>1. q - (p - 1) \in 1 .. Len(s) - p
      BY <2>2
    <3>2. b[q - (p - 1)] = s[q - (p - 1) + p]
      BY <1>4, <3>1 DEF b
    <3> QED
      BY <1>6, <1>7, <2>2, <3>2
  <2> QED
    BY <2>0, <2>1, <2>2
<1>9. Len(a) + Len(b) = Len(s) - 1
  BY <1>7
<1> QED
  BY <1>5, <1>6, <1>8, <1>9

LEMMA CommandsKeepBarrier ==
  ASSUME Barrier, ProcessCommands
  PROVE  Barrier'
<1> USE ThreadsAssumption, ListsAssumption DEF Barrier
<1>1. lists' \in [Lists -> Seq(Items)]
  <2>1. ASSUME NEW l \in Lists, NEW item \in Items, AddItem(l, item)
        PROVE  lists' \in [Lists -> Seq(Items)]
    BY <2>1 DEF AddItem, TypeOK
  <2>2. ASSUME NEW l \in Lists, NEW p \in 1 .. Len(lists[l]), RemItem(l, p)
        PROVE  lists' \in [Lists -> Seq(Items)]
    <3>1. RemoveAt(lists[l], p) \in Seq(Items)
      BY RemoveAtType DEF TypeOK
    <3> QED
      BY <2>2, <3>1 DEF RemItem, TypeOK
  <2> QED
    BY <2>1, <2>2 DEF ProcessCommands
<1>2. at \in {"stopped", "commands"}
      /\ UNCHANGED <<at, phase, next, _current_list, cont_semaphore,
                     wait_semaphore, on, n, processed>>
  BY DEF ProcessCommands, AddItem, RemItem, ExecutesCommands
<1>3. TypeOK'
  BY <1>1, <1>2 DEF TypeOK
<1>4. \A t \in Threads : on[t] = 0
  BY <1>2, Asleep
<1> QED
  BY <1>2, <1>3, <1>4 DEF BarrierInv, Engaged

LEMMA LoopsKeepBarrier ==
  ASSUME Barrier, NEW t \in Threads, ProcessSelected(t)
  PROVE  Barrier'
<1> USE ThreadsAssumption, ListsAssumption DEF Barrier
<1>1. on[t] = phase /\ phase \in Lists
  BY InLoop DEF ProcessSelected
<1>2. lists[phase][n[t] + 1] \in Items
  BY <1>1 DEF ProcessSelected, TypeOK
<1>3. processed' \in [Items -> Nat]
  BY <1>1, <1>2 DEF ProcessSelected, TypeOK
<1>4. TypeOK'
  BY <1>3 DEF ProcessSelected, TypeOK
<1>5. \A u \in Threads : on[u] # 0 => n'[u] <= Len(lists[on[u]])
  <2> TAKE u \in Threads
  <2>1. n'[u] = IF u = t THEN n[t] + 1 ELSE n[u]
    BY DEF ProcessSelected, TypeOK
  <2> QED
    BY <2>1 DEF ProcessSelected, TypeOK, BarrierInv
<1> QED
  BY <1>4, <1>5 DEF ProcessSelected, BarrierInv, Engaged

LEMMA MainKeepsBarrier ==
  ASSUME Barrier, Main
  PROVE  Barrier'
<1> USE ThreadsAssumption, ListsAssumption DEF Barrier, Threads, Workers, Lists
<1>1. CASE CommandsProcessed
  <2>1. TypeOK'
    BY <1>1 DEF CommandsProcessed, TypeOK
  <2> QED
    BY <1>1, <2>1 DEF CommandsProcessed, BarrierInv, Engaged
<1>2. CASE ProcessList
  <2>1. TypeOK'
    <3>1. CASE lists[phase] = <<>>
      <4>1. phase' = phase + 1 /\ UNCHANGED <<at, next>>
        BY <1>2, <3>1 DEF ProcessList
      <4>2. phase' \in 1 .. NumLists + 1 /\ _current_list' \in 0 .. NumLists
        BY <1>2, <4>1 DEF ProcessList
      <4> QED
        BY <1>2, <4>1, <4>2 DEF ProcessList, TypeOK
    <3>2. CASE lists[phase] # <<>>
      <4>1. at' = "wake" /\ next' = 1 /\ UNCHANGED phase
        BY <1>2, <3>2 DEF ProcessList
      <4>2. next' \in 1 .. NumThreads /\ _current_list' \in 0 .. NumLists
        BY <1>2, <4>1 DEF ProcessList
      <4> QED
        BY <1>2, <4>1, <4>2 DEF ProcessList, TypeOK
    <3> QED
      BY <3>1, <3>2
  <2>2. \A t \in Threads : on[t] = 0
    BY <1>2, Asleep DEF ProcessList
  <2>3. \A w \in Workers : ~ Engaged(w) /\ ~ Engaged(w)'
    BY <1>2 DEF ProcessList, Engaged
  <2> QED
    BY <1>2, <2>1, <2>2, <2>3 DEF ProcessList, BarrierInv
<1>3. CASE Wake
  <2>1. next \in Workers /\ ~ Engaged(next)
    BY <1>3 DEF Wake, Engaged
  <2>2. cont_semaphore[next] = 0 /\ wait_semaphore[next] = 0 /\ on[next] = 0
    <3>1. cont_semaphore[next] + wait_semaphore[next]
            + (IF on[next] # 0 THEN 1 ELSE 0) = 0
      BY <2>1 DEF BarrierInv
    <3>2. cont_semaphore[next] \in 0 .. 1 /\ wait_semaphore[next] \in 0 .. 1
      BY <2>1 DEF TypeOK
    <3> QED
      BY <3>1, <3>2
  <2>3. TypeOK'
    <3>1. cont_semaphore' \in [Workers -> 0 .. 1]
      BY <1>3, <2>2 DEF Wake, TypeOK
    <3>2. next' \in 1 .. NumThreads
      BY <1>3, <2>1 DEF Wake
    <3> QED
      BY <1>3, <3>1, <3>2 DEF Wake, TypeOK
  <2>4. \A w \in Workers : cont_semaphore'[w] = IF w = next THEN 1 ELSE cont_semaphore[w]
    BY <1>3, <2>2 DEF Wake, TypeOK
  <2>5. \A w \in Workers : Engaged(w)' <=> Engaged(w) \/ w = next
    BY <1>3 DEF Wake, Engaged, TypeOK
  <2>6. \A w \in Workers :
          cont_semaphore'[w] + wait_semaphore'[w] + (IF on'[w] # 0 THEN 1 ELSE 0)
            = IF Engaged(w)' THEN 1 ELSE 0
    <3> TAKE w \in Workers
    <3>1. wait_semaphore'[w] = wait_semaphore[w] /\ on'[w] = on[w]
      BY <1>3 DEF Wake
    <3>2. CASE w = next
      BY <2>2, <2>4, <2>5, <3>1, <3>2
    <3>3. CASE w # next
      <4>1. cont_semaphore[w] + wait_semaphore[w] + (IF on[w] # 0 THEN 1 ELSE 0)
              = IF Engaged(w) THEN 1 ELSE 0
        BY DEF BarrierInv
      <4> QED
        BY <2>4, <2>5, <3>1, <3>3, <4>1
    <3> QED
      BY <3>2, <3>3
  <2>7. at' = "wake" /\ at = "wake" /\ UNCHANGED <<phase, _current_list, on, n, lists>>
    BY <1>3 DEF Wake
  <2> QED
    BY <2>3, <2>6, <2>7 DEF BarrierInv
<1>4. CASE OwnShare
  <2>1. TypeOK'
    BY <1>4 DEF OwnShare, TypeOK
  <2>2. \A w \in Workers : Engaged(w)' <=> Engaged(w)
    BY <1>4 DEF OwnShare, Engaged
  <2>3. \A w \in Workers : on'[w] = on[w] /\ n'[w] = n[w]
    BY <1>4 DEF OwnShare, TypeOK
  <2>4. on'[0] = phase /\ phase \in Lists /\ n'[0] = 0
    BY <1>4 DEF OwnShare, TypeOK, BarrierInv
  <2>5. Len(lists[phase]) \in Nat
    BY <2>4 DEF TypeOK
  <2> QED
    BY <1>4, <2>1, <2>2, <2>3, <2>4, <2>5 DEF OwnShare, BarrierInv
<1>5. CASE ProcessSelected(0)
  BY <1>5, LoopsKeepBarrier
<1>6. CASE OwnShareDone
  <2>1. TypeOK'
    BY <1>6 DEF OwnShareDone, TypeOK
  <2>2. \A w \in Workers : Engaged(w)' /\ Engaged(w) /\ on'[w] = on[w]
    BY <1>6 DEF OwnShareDone, Engaged, TypeOK
  <2>3. on'[0] = 0
    BY <1>6 DEF OwnShareDone, TypeOK
  <2> QED
    BY <1>6, <2>1, <2>2, <2>3 DEF OwnShareDone, BarrierInv
<1>7. CASE Await
  <2>1. next \in Workers /\ Engaged(next)
    BY <1>7 DEF Await, Engaged
  <2>2. wait_semaphore[next] = 1 /\ cont_semaphore[next] = 0 /\ on[next] = 0
    BY <1>7, <2>1 DEF Await, BarrierInv, TypeOK
  <2>3. TypeOK'
    BY <1>7, <2>2 DEF Await, TypeOK
  <2>4. \A w \in Workers : wait_semaphore'[w] = IF w = next THEN 0 ELSE wait_semaphore[w]
    BY <1>7, <2>2 DEF Await, TypeOK
  <2>5. \A w \in Workers : Engaged(w)' <=> Engaged(w) /\ w # next
    BY <1>7 DEF Await, Engaged, TypeOK
  <2>6. \A w \in Workers :
          cont_semaphore'[w] + wait_semaphore'[w] + (IF on'[w] # 0 THEN 1 ELSE 0)
            = IF Engaged(w)' THEN 1 ELSE 0
    BY <1>7, <2>1, <2>2, <2>4, <2>5 DEF Await, BarrierInv, TypeOK
  <2> QED
    BY <1>7, <2>3, <2>6 DEF Await, BarrierInv
<1>8. CASE AllReported
  <2>1. phase \in Lists
    BY <1>8 DEF AllReported, BarrierInv
  <2>2. TypeOK'
    BY <1>8, <2>1 DEF AllReported, TypeOK
  <2>3. \A w \in Workers : ~ Engaged(w) /\ ~ Engaged(w)'
    BY <1>8 DEF AllReported, Engaged, TypeOK
  <2> QED
    BY <1>8, <2>2, <2>3 DEF AllReported, BarrierInv
<1>9. CASE Query \/ Return
  <2>1. TypeOK'
    BY <1>9 DEF Query, Return, TypeOK
  <2> QED
    BY <1>9, <2>1 DEF Query, Return, BarrierInv, Engaged
<1> QED
  BY <1>1, <1>2, <1>3, <1>4, <1>5, <1>6, <1>7, <1>8, <1>9 DEF Main

LEMMA WorkerKeepsBarrier ==
  ASSUME Barrier, NEW w \in Workers, Worker(w)
  PROVE  Barrier'
<1> USE ThreadsAssumption, ListsAssumption DEF Barrier, Threads, Workers, Lists
<1>1. CASE Continue(w)
  <2>1. Engaged(w) /\ wait_semaphore[w] = 0 /\ cont_semaphore[w] = 1
    BY <1>1 DEF Continue, BarrierInv, TypeOK
  <2>2. at \in {"wake", "own", "await"}
    BY <2>1 DEF Engaged
  <2>3. _current_list = phase /\ phase \in Lists
    BY <2>2 DEF BarrierInv
  <2>4. TypeOK'
    BY <1>1, <2>1 DEF Continue, TypeOK
  <2>5. \A u \in Workers : cont_semaphore'[u] = IF u = w THEN 0 ELSE cont_semaphore[u]
    BY <1>1, <2>1 DEF Continue, TypeOK
  <2>6. \A u \in Threads : /\ on'[u] = IF u = w THEN phase ELSE on[u]
                           /\ n'[u] = IF u = w THEN 0 ELSE n[u]
    BY <1>1, <2>3 DEF Continue, TypeOK
  <2>7. \A u \in Workers : Engaged(u)' <=> Engaged(u)
    BY <1>1 DEF Continue, Engaged
  <2>8. Len(lists[phase]) \in Nat
    BY <2>3 DEF TypeOK
  <2>9. \A u \in Workers :
          cont_semaphore'[u] + wait_semaphore'[u] + (IF on'[u] # 0 THEN 1 ELSE 0)
            = IF Engaged(u)' THEN 1 ELSE 0
    BY <1>1, <2>1, <2>3, <2>5, <2>6, <2>7 DEF Continue, BarrierInv, TypeOK
  <2> QED
    BY <1>1, <2>3, <2>4, <2>6, <2>8, <2>9 DEF Continue, BarrierInv
<1>2. CASE ProcessSelected(w)
  BY <1>2, LoopsKeepBarrier
<1>3. CASE Report(w)
  <2>1. Engaged(w) /\ wait_semaphore[w] = 0 /\ cont_semaphore[w] = 0
    BY <1>3 DEF Report, AtEnd, BarrierInv, TypeOK
  <2>2. TypeOK'
    BY <1>3, <2>1 DEF Report, TypeOK
  <2>3. \A u \in Workers : wait_semaphore'[u] = IF u = w THEN 1 ELSE wait_semaphore[u]
    BY <1>3, <2>1 DEF Report, TypeOK
  <2>4. \A u \in Threads : on'[u] = IF u = w THEN 0 ELSE on[u]
    BY <1>3 DEF Report, TypeOK
  <2>5. \A u \in Workers : Engaged(u)' <=> Engaged(u)
    BY <1>3 DEF Report, Engaged
  <2>6. \A u \in Workers :
          cont_semaphore'[u] + wait_semaphore'[u] + (IF on'[u] # 0 THEN 1 ELSE 0)
            = IF Engaged(u)' THEN 1 ELSE 0
    BY <1>3, <2>1, <2>3, <2>4, <2>5 DEF Report, BarrierInv, TypeOK
  <2> QED
    BY <1>3, <2>2, <2>4, <2>6 DEF Report, BarrierInv
<1> QED
  BY <1>1, <1>2, <1>3 DEF Worker

(* The types of the variables, the binary semaphores, and the barrier:     *)
(* a woken worker is about to start, in its loop, or done, and no signal   *)
(* is ever left over, for every number of threads and lists.               *)
THEOREM BarrierHolds == Spec => [](TypeOK /\ BarrierInv)
<1> USE ThreadsAssumption, ListsAssumption
<1>1. Init => Barrier
  BY DEF Init, Barrier, TypeOK, BarrierInv, Engaged, Threads, Workers, Lists
<1>2. Barrier /\ [Next]_vars => Barrier'
  <2> SUFFICES ASSUME Barrier, [Next]_vars PROVE Barrier'
    OBVIOUS
  <2>1. CASE Activate \/ Deactivate \/ Call
    <3>1. TypeOK'
      BY <2>1 DEF Barrier, TypeOK, Activate, Deactivate, Call
    <3> QED
      BY <2>1, <3>1 DEF Barrier, BarrierInv, Engaged, Activate, Deactivate, Call
  <2>2. CASE ProcessCommands
    BY <2>2, CommandsKeepBarrier
  <2>3. CASE Main
    BY <2>3, MainKeepsBarrier
  <2>4. CASE \E w \in Workers : Worker(w)
    BY <2>4, WorkerKeepsBarrier
  <2>5. CASE UNCHANGED vars
    BY <2>5 DEF vars, Barrier, TypeOK, BarrierInv, Engaged
  <2> QED
    BY <2>1, <2>2, <2>3, <2>4, <2>5 DEF Next
<1>3. Barrier => TypeOK /\ BarrierInv
  BY DEF Barrier
<1> QED
  BY <1>1, <1>2, <1>3, PTL DEF Spec

(* A list changes only while all threads are asleep and no worker is about *)
(* to wake up: no iterator is invalidated.                                 *)
THEOREM StableLists == Spec => ListsStable
<1> DEFINE Sleep == \A t \in Threads :
                      on[t] = 0 /\ (t \in Workers => cont_semaphore[t] = 0)
<1>1. TypeOK /\ BarrierInv /\ [Next]_vars => (lists' # lists => Sleep)
  <2> SUFFICES ASSUME Barrier, [Next]_vars, lists' # lists PROVE Sleep
    BY DEF Barrier
  <2>1. ProcessCommands
    BY DEF Next, vars, Activate, Deactivate, Call, Main, CommandsProcessed,
           ProcessList, Wake, OwnShare, ProcessSelected, OwnShareDone, Await,
           AllReported, Query, Return, Worker, Continue, Report
  <2>2. at \in {"stopped", "commands"}
    BY <2>1 DEF ProcessCommands, AddItem, RemItem, ExecutesCommands
  <2> QED
    BY <2>2, Asleep
<1>2. Spec => [][lists' # lists => Sleep]_vars
  BY <1>1, BarrierHolds, PTL DEF Spec
<1> QED
  BY <1>2 DEF ListsStable

------------------------------------------------------------------------------
(* The order of processing.  Position p of a list belongs to one thread; it *)
(* has looked at it in the current list if its loop is beyond p or over.    *)
Owner(p) == p % NumThreads

Looked(t, p) ==
  \/ on[t] # 0 /\ n[t] > p
  \/ t = 0 /\ at = "await"
  \/ t # 0 /\ wait_semaphore[t] = 1
  \/ t # 0 /\ at = "await" /\ t < next

InCycle == at \in {"list", "wake", "own", "await", "queries"}

\* The item at position p (from 0) of list l was processed in this cycle.
ItemDone(l, p) ==
  l < phase \/ (l = phase /\ at \in {"wake", "own", "await"} /\ Looked(Owner(p), p))

\* No item is listed twice.
Distinct ==
  \A l, k \in Lists : \A p \in 1 .. Len(lists[l]), q \in 1 .. Len(lists[k]) :
    lists[l][p] = lists[k][q] => l = k /\ p = q

ProcessedInv ==
  /\ \A i \in Items : processed[i] <= 1
  /\ at = "commands" => \A i \in Items : processed[i] = 0
  /\ InCycle => \A l \in Lists : \A p \in 1 .. Len(lists[l]) :
       processed[lists[l][p]] = IF ItemDone(l, p - 1) THEN 1 ELSE 0

Ordered == Barrier /\ Distinct /\ ProcessedInv

LEMMA OwnerIsThread == \A p \in Nat : Owner(p) \in Threads
  BY ThreadsAssumption DEF Owner, Threads

(* A thread in its loop has looked at what is behind it, and at no more. *)
LEMMA LookedInLoop ==
  ASSUME Barrier, NEW t \in Threads, on[t] # 0, NEW p \in Nat
  PROVE  Looked(t, p) <=> n[t] > p
<1> USE ThreadsAssumption DEF Barrier, Threads, Workers
<1>1. CASE t = 0
  BY <1>1 DEF Looked, BarrierInv
<1>2. CASE t # 0
  <2>1. t \in Workers
    BY <1>2
  <2>2. cont_semaphore[t] + wait_semaphore[t] + 1 = IF Engaged(t) THEN 1 ELSE 0
    BY <2>1 DEF BarrierInv
  <2>3. cont_semaphore[t] \in 0 .. 1 /\ wait_semaphore[t] \in 0 .. 1
    BY <2>1 DEF TypeOK
  <2>4. Engaged(t) /\ wait_semaphore[t] = 0
    BY <2>2, <2>3
  <2>5. ~ (at = "await" /\ t < next)
    BY <2>4 DEF Engaged, TypeOK
  <2> QED
    BY <1>2, <2>4, <2>5 DEF Looked
<1> QED
  BY <1>1, <1>2

LEMMA CommandsKeepOrder ==
  ASSUME Ordered, ProcessCommands
  PROVE  Distinct' /\ ProcessedInv'
<1> USE DEF Ordered
<1>1. ProcessedInv'
  BY DEF ProcessCommands, AddItem, RemItem, ExecutesCommands, ProcessedInv, InCycle
<1>2. ASSUME NEW l \in Lists, NEW item \in Items, AddItem(l, item)
      PROVE  Distinct'
  <2>1. \A k \in Lists : lists[k] \in Seq(Items)
    BY DEF Barrier, TypeOK
  <2>2. \A k \in Lists : lists'[k] = IF k = l THEN Append(lists[l], item) ELSE lists[k]
    BY <1>2 DEF AddItem, Barrier, TypeOK
  <2>3. \A k \in Lists : \A p \in 1 .. Len(lists[k]) : lists[k][p] # item
    BY <1>2 DEF AddItem, Listed
  <2>4. /\ Len(Append(lists[l], item)) = Len(lists[l]) + 1
        /\ \A p \in 1 .. Len(lists[l]) : Append(lists[l], item)[p] = lists[l][p]
        /\ Append(lists[l], item)[Len(lists[l]) + 1] = item
    BY <2>1, AppendProperties
  <2>5. ASSUME NEW k \in Lists, NEW p \in 1 .. Len(lists'[k])
        PROVE  IF k = l /\ p = Len(lists[l]) + 1
               THEN lists'[k][p] = item
               ELSE p \in 1 .. Len(lists[k]) /\ lists'[k][p] = lists[k][p]
    <3>1. Len(lists[l]) \in Nat
      BY <2>1
    <3>2. CASE k = l
      <4>1. lists'[k] = Append(lists[l], item)
        BY <2>2, <3>2
      <4>2. p \in 1 .. Len(lists[l]) + 1
        BY <2>4, <4>1
      <4>3. CASE p = Len(lists[l]) + 1
        BY <2>4, <3>2, <4>1, <4>3
      <4>4. CASE p \in 1 .. Len(lists[l])
        BY <2>4, <3>1, <3>2, <4>1, <4>4
      <4> QED
        BY <3>1, <4>2, <4>3, <4>4
    <3>3. CASE k # l
      BY <2>2, <3>3
    <3> QED
      BY <3>2, <3>3
  <2> QED
    BY <2>3, <2>5 DEF Distinct
<1>3. ASSUME NEW l \in Lists, NEW r \in 1 .. Len(lists[l]), RemItem(l, r)
      PROVE  Distinct'
  <2>1. \A k \in Lists : lists[k] \in Seq(Items)
    BY DEF Barrier, TypeOK
  <2>2. \A k \in Lists : lists'[k] = IF k = l THEN RemoveAt(lists[l], r) ELSE lists[k]
    BY <1>3 DEF RemItem, Barrier, TypeOK
  <2>3. /\ Len(RemoveAt(lists[l], r)) = Len(lists[l]) - 1
        /\ \A p \in 1 .. Len(lists[l]) - 1 :
             RemoveAt(lists[l], r)[p] = IF p < r THEN lists[l][p] ELSE lists[l][p + 1]
    BY <2>1, RemoveAtType
  <2> DEFINE Before(k, p) == IF k = l /\ p >= r THEN p + 1 ELSE p
  <2>4. ASSUME NEW k \in Lists, NEW p \in 1 .. Len(lists'[k])
        PROVE  /\ Before(k, p) \in 1 .. Len(lists[k])
               /\ lists'[k][p] = lists[k][Before(k, p)]
    <3>1. Len(lists[l]) \in Nat
      BY <2>1
    <3>2. CASE k = l
      <4>1. p \in 1 .. Len(lists[l]) - 1 /\ lists'[k] = RemoveAt(lists[l], r)
        BY <2>2, <2>3, <3>2
      <4> QED
        BY <2>3, <3>1, <3>2, <4>1
    <3>3. CASE k # l
      BY <2>2, <3>3
    <3> QED
      BY <3>2, <3>3
  <2>5. ASSUME NEW k \in Lists, NEW p \in 1 .. Len(lists'[k]), NEW q \in 1 .. Len(lists'[k]),
               Before(k, p) = Before(k, q)
        PROVE  p = q
    <3>1. p \in Int /\ q \in Int /\ r \in Int
      OBVIOUS
    <3> QED
      BY <2>5, <3>1
  <2> HIDE DEF Before
  <2>6. ASSUME NEW k \in Lists, NEW j \in Lists,
               NEW p \in 1 .. Len(lists'[k]), NEW q \in 1 .. Len(lists'[j]),
               lists'[k][p] = lists'[j][q]
        PROVE  k = j /\ p = q
    <3>1. lists[k][Before(k, p)] = lists[j][Before(j, q)]
      BY <2>4, <2>6
    <3>2. Before(k, p) \in 1 .. Len(lists[k]) /\ Before(j, q) \in 1 .. Len(lists[j])
      BY <2>4
    <3>3. k = j /\ Before(k, p) = Before(j, q)
      BY <3>1, <3>2 DEF Distinct
    <3> QED
      BY <2>5, <3>3
  <2> QED
    BY <2>6 DEF Distinct
<1> QED
  BY <1>1, <1>2, <1>3 DEF ProcessCommands

(* A step that processes no item and moves no owner past its positions. *)
LEMMA SameItemsDone ==
  ASSUME Ordered, UNCHANGED <<lists, processed>>, InCycle, at' # "commands",
         \A l \in Lists : \A p \in 1 .. Len(lists[l]) :
           ItemDone(l, p - 1)' <=> ItemDone(l, p - 1)
  PROVE  ProcessedInv'
BY DEF Ordered, ProcessedInv

LEMMA SameLooked ==
  ASSUME Ordered, UNCHANGED <<lists, processed, phase>>,
         at \in {"wake", "own", "await"}, at' \in {"wake", "own", "await"},
         \A p \in 0 .. Len(lists[phase]) - 1 :
           Looked(Owner(p), p)' <=> Looked(Owner(p), p)
  PROVE  ProcessedInv'
<1>1. ASSUME NEW l \in Lists, NEW p \in 1 .. Len(lists[l])
      PROVE  ItemDone(l, p - 1)' <=> ItemDone(l, p - 1)
  <2>1. CASE l = phase
    <3>1. Len(lists[phase]) \in Nat
      BY <2>1 DEF Ordered, Barrier, TypeOK
    <3>2. p - 1 \in 0 .. Len(lists[phase]) - 1
      BY <2>1, <3>1
    <3> QED
      BY <2>1, <3>2 DEF ItemDone
  <2>2. CASE l # phase
    BY <2>2 DEF ItemDone
  <2> QED
    BY <2>1, <2>2
<1> QED
  BY <1>1, SameItemsDone DEF InCycle

LEMMA MainKeepsOrder ==
  ASSUME Ordered, Main, ~ ProcessSelected(0)
  PROVE  ProcessedInv'
<1> USE DEF Ordered
<1>0. Barrier
  OBVIOUS
<1>1. CASE CommandsProcessed
  <2>1. ASSUME NEW l \in Lists, NEW p \in 1 .. Len(lists[l])
        PROVE  processed[lists[l][p]] = 0 /\ ~ ItemDone(l, p - 1)'
    <3>1. lists[l][p] \in Items
      BY DEF Barrier, TypeOK
    <3>2. processed[lists[l][p]] = 0
      BY <1>1, <3>1 DEF CommandsProcessed, ProcessedInv
    <3> QED
      BY <1>1, <3>2, ListsAssumption DEF CommandsProcessed, ItemDone, Lists
  <2> QED
    BY <1>1, <2>1 DEF CommandsProcessed, ProcessedInv
<1>2. CASE ProcessList
  <2>1. \A t \in Threads : \A p \in Nat : ~ Looked(t, p)'
    BY <1>2, Asleep DEF ProcessList, Looked, Threads, Workers
  <2>2. ASSUME NEW l \in Lists, NEW p \in 1 .. Len(lists[l])
        PROVE  ItemDone(l, p - 1)' <=> ItemDone(l, p - 1)
    <3>1. ~ Looked(Owner(p - 1), p - 1)'
      BY <2>1, OwnerIsThread DEF Barrier, TypeOK
    <3>2. CASE lists[phase] = <<>>
      <4>1. l # phase
        BY <3>2
      <4> QED
        BY <1>2, <3>2, <4>1, ListsAssumption DEF ProcessList, ItemDone, Lists
    <3>3. CASE lists[phase] # <<>>
      BY <1>2, <3>1, <3>3 DEF ProcessList, ItemDone
    <3> QED
      BY <3>2, <3>3
  <2> QED
    BY <1>2, <2>2, SameItemsDone DEF ProcessList, InCycle
<1>3. CASE Wake
  <2>1. \A p \in 0 .. Len(lists[phase]) - 1 :
          Looked(Owner(p), p)' <=> Looked(Owner(p), p)
    BY <1>3 DEF Wake, Looked
  <2> QED
    BY <1>3, <2>1, SameLooked DEF Wake
<1>4. CASE OwnShare
  <2>1. on[0] = 0
    BY <1>4 DEF OwnShare, Barrier, BarrierInv
  <2>2. ASSUME NEW t \in Threads, NEW p \in Nat
        PROVE  Looked(t, p)' <=> Looked(t, p)
    BY <1>4, <2>1 DEF OwnShare, Looked, Barrier, TypeOK
  <2>3. \A p \in 0 .. Len(lists[phase]) - 1 :
          Looked(Owner(p), p)' <=> Looked(Owner(p), p)
    BY <2>2, OwnerIsThread
  <2> QED
    BY <1>4, <2>3, SameLooked DEF OwnShare
<1>5. CASE OwnShareDone
  <2>1. on[0] = phase /\ n[0] = Len(lists[phase])
    BY <1>5, InLoop, ThreadsAssumption DEF OwnShareDone, AtEnd, Threads
  <2>2. ASSUME NEW t \in Threads, NEW p \in 0 .. Len(lists[phase]) - 1
        PROVE  Looked(t, p)' <=> Looked(t, p)
    <3>1. CASE t = 0
      BY <1>5, <2>1, <3>1 DEF OwnShareDone, AtEnd, Looked
    <3>2. CASE t # 0
      BY <1>5, <3>2 DEF OwnShareDone, Looked, Barrier, TypeOK, Threads
    <3> QED
      BY <3>1, <3>2
  <2>3. \A p \in 0 .. Len(lists[phase]) - 1 :
          Looked(Owner(p), p)' <=> Looked(Owner(p), p)
    BY <2>2, OwnerIsThread
  <2> QED
    BY <1>5, <2>3, SameLooked DEF OwnShareDone
<1>6. CASE Await
  <2>1. wait_semaphore[next] = 1 /\ next \in Workers
    BY <1>6 DEF Await, Barrier, TypeOK
  <2>2. ASSUME NEW t \in Threads, NEW p \in Nat
        PROVE  Looked(t, p)' <=> Looked(t, p)
    <3>1. CASE t = next
      BY <1>6, <2>1, <3>1, ThreadsAssumption DEF Await, Looked, Workers
    <3>2. CASE t # next
      BY <1>6, <2>1, <3>2, ThreadsAssumption
      DEF Await, Looked, Barrier, TypeOK, Workers, Threads
    <3> QED
      BY <3>1, <3>2
  <2>3. \A p \in 0 .. Len(lists[phase]) - 1 :
          Looked(Owner(p), p)' <=> Looked(Owner(p), p)
    BY <2>2, OwnerIsThread
  <2> QED
    BY <1>6, <2>3, SameLooked DEF Await
<1>7. CASE AllReported
  <2>1. phase \in Lists
    BY <1>7 DEF AllReported, Barrier, BarrierInv
  <2>2. \A t \in Threads : \A p \in Nat : Looked(t, p)
    BY <1>7, ThreadsAssumption DEF AllReported, Looked, Threads
  <2>3. ASSUME NEW l \in Lists, NEW p \in 1 .. Len(lists[l])
        PROVE  ItemDone(l, p - 1)' <=> ItemDone(l, p - 1)
    <3>1. Looked(Owner(p - 1), p - 1)
      BY <2>2, OwnerIsThread DEF Barrier, TypeOK
    <3> QED
      BY <1>7, <2>1, <3>1, ListsAssumption DEF AllReported, ItemDone, Lists
  <2> QED
    BY <1>7, <2>3, SameItemsDone DEF AllReported, InCycle
<1>8. CASE Query
  <2>1. ASSUME NEW l \in Lists, NEW p \in 1 .. Len(lists[l])
        PROVE  ItemDone(l, p - 1)' <=> ItemDone(l, p - 1)
    BY <1>8 DEF Query, ItemDone
  <2> QED
    BY <1>8, <2>1, SameItemsDone DEF Query, InCycle
<1>9. CASE Return
  BY <1>9 DEF Return, ProcessedInv, InCycle
<1> QED
  BY <1>1, <1>2, <1>3, <1>4, <1>5, <1>6, <1>7, <1>8, <1>9 DEF Main

LEMMA LoopKeepsOrder ==
  ASSUME Ordered, NEW t \in Threads, ProcessSelected(t)
  PROVE  ProcessedInv'
<1> USE DEF Ordered
<1> DEFINE q == n[t]
           item == lists[phase][q + 1]
<1>0. Barrier /\ TypeOK /\ Owner(q) \in Threads
  BY OwnerIsThread DEF Barrier, TypeOK
<1>1. /\ at \in {"wake", "own", "await"}
      /\ on[t] = phase /\ on[t] # 0
      /\ phase \in Lists
      /\ q \in 0 .. Len(lists[phase]) - 1
  BY <1>0, InLoop DEF ProcessSelected, TypeOK
<1>2. /\ UNCHANGED <<at, phase, next, on, wait_semaphore, lists>>
      /\ \A u \in Threads : n'[u] = IF u = t THEN q + 1 ELSE n[u]
  BY <1>0 DEF ProcessSelected, TypeOK
<1>3. Selected(t) <=> t = Owner(q)
  BY DEF Selected, Owner
<1>4. ~ Looked(t, q) /\ item \in Items
  <2>1. lists[phase] \in Seq(Items) /\ q \in Nat
    BY <1>0, <1>1 DEF TypeOK
  <2>2. q + 1 \in 1 .. Len(lists[phase])
    BY <1>1, <2>1
  <2>3. ~ Looked(t, q)
    BY <1>0, <1>1, <2>1, LookedInLoop
  <2> QED
    BY <2>1, <2>2, <2>3
\* Nobody's view of a position changes, but the owner's of position q.
<1>5. ASSUME NEW p \in 0 .. Len(lists[phase]) - 1
      PROVE  Looked(Owner(p), p)' <=> Looked(Owner(p), p) \/ (p = q /\ Selected(t))
  <2> DEFINE u == Owner(p)
  <2>0. Len(lists[phase]) \in Nat
    BY <1>0, <1>1 DEF TypeOK
  <2>1. u \in Threads /\ p \in Nat
    BY <2>0, OwnerIsThread
  <2>2. CASE u # t
    BY <1>2, <1>3, <2>1, <2>2 DEF Looked
  <2>3. CASE u = t
    <3>1. Looked(u, p) <=> q > p
      BY <1>0, <1>1, <2>1, <2>3, LookedInLoop
    <3>2. Looked(u, p)' <=> q + 1 > p
      <4>1. t # 0 => ~ (wait_semaphore[t] = 1) /\ ~ (at = "await" /\ t < next)
        BY <1>4 DEF Looked
      <4>2. t = 0 => at # "await"
        BY <1>4 DEF Looked
      <4> QED
        BY <1>1, <1>2, <2>1, <2>3, <4>1, <4>2 DEF Looked
    <3>3. p = q => Selected(t)
      BY <1>3, <2>3
    <3> QED
      BY <1>1, <2>0, <2>1, <2>3, <3>1, <3>2, <3>3
  <2> QED
    BY <2>2, <2>3
<1>6. CASE ~ Selected(t)
  <2>1. processed' = processed
    BY <1>6 DEF ProcessSelected
  <2> QED
    BY <1>1, <1>2, <1>5, <1>6, <2>1, SameLooked
<1>7. CASE Selected(t)
  <2>1. ~ ItemDone(phase, q)
    BY <1>1, <1>3, <1>4, <1>7 DEF ItemDone, Lists
  <2>2. processed[item] = 0
    <3>1. processed[item] = IF ItemDone(phase, (q + 1) - 1) THEN 1 ELSE 0
      BY <1>1 DEF ProcessedInv, InCycle
    <3>2. (q + 1) - 1 = q
      BY <1>1
    <3> QED
      BY <2>1, <3>1, <3>2
  <2>3. \A i \in Items : processed'[i] = IF i = item THEN 1 ELSE processed[i]
    BY <1>0, <1>1, <1>7, <2>2 DEF ProcessSelected, TypeOK
  <2>4. ASSUME NEW l \in Lists, NEW p \in 1 .. Len(lists[l])
        PROVE  processed'[lists[l][p]] = IF ItemDone(l, p - 1)' THEN 1 ELSE 0
    <3>1. lists[l][p] \in Items
      BY <1>0 DEF TypeOK
    <3>2. processed[lists[l][p]] = IF ItemDone(l, p - 1) THEN 1 ELSE 0
      BY <1>1 DEF ProcessedInv, InCycle
    <3>3. lists[l][p] = item <=> l = phase /\ p = q + 1
      BY <1>1 DEF Distinct
    <3>4. CASE l = phase
      <4>1. p - 1 \in 0 .. Len(lists[phase]) - 1 /\ (p = q + 1 <=> p - 1 = q)
        BY <1>1, <3>4
      <4>2. ItemDone(l, p - 1)' <=> ItemDone(l, p - 1) \/ p - 1 = q
        BY <1>1, <1>2, <1>5, <1>7, <3>4, <4>1 DEF ItemDone, Lists
      <4> QED
        BY <2>1, <2>3, <3>1, <3>2, <3>3, <3>4, <4>1, <4>2
    <3>5. CASE l # phase
      <4>1. ItemDone(l, p - 1)' <=> ItemDone(l, p - 1)
        BY <1>2, <3>5 DEF ItemDone
      <4> QED
        BY <2>3, <3>1, <3>2, <3>3, <3>5, <4>1
    <3> QED
      BY <3>4, <3>5
  <2> QED
    BY <1>1, <1>2, <2>3, <2>4 DEF ProcessedInv
<1> QED
  BY <1>6, <1>7

LEMMA WorkerKeepsOrder ==
  ASSUME Ordered, NEW w \in Workers, Worker(w)
  PROVE  ProcessedInv'
<1> USE DEF Ordered
<1>0. Barrier /\ w \in Threads /\ w # 0
  BY DEF Workers, Threads
<1>1. CASE Continue(w)
  <2>1. cont_semaphore[w] = 1 /\ wait_semaphore[w] = 0 /\ Engaged(w)
    <3>1. cont_semaphore[w] + wait_semaphore[w] + (IF on[w] # 0 THEN 1 ELSE 0)
            = IF Engaged(w) THEN 1 ELSE 0
      BY DEF Barrier, BarrierInv
    <3>2. cont_semaphore[w] \in 0 .. 1 /\ wait_semaphore[w] \in 0 .. 1
      BY DEF Barrier, TypeOK
    <3> QED
      BY <1>1, <3>1, <3>2 DEF Continue
  <2>2. ASSUME NEW t \in Threads, NEW p \in Nat
        PROVE  Looked(t, p)' <=> Looked(t, p)
    <3>1. CASE t = w
      <4>1. ~ Looked(w, p)
        BY <1>0, <1>1, <2>1 DEF Continue, Looked, Engaged, Workers, Barrier, TypeOK
      <4>2. ~ Looked(w, p)'
        BY <1>0, <1>1, <2>1 DEF Continue, Looked, Engaged, Workers, Barrier, TypeOK
      <4> QED
        BY <3>1, <4>1, <4>2
    <3>2. CASE t # w
      BY <1>0, <1>1, <3>2 DEF Continue, Looked, Barrier, TypeOK
    <3> QED
      BY <3>1, <3>2
  <2>3. \A p \in 0 .. Len(lists[phase]) - 1 :
          Looked(Owner(p), p)' <=> Looked(Owner(p), p)
    BY <2>2, OwnerIsThread
  <2> QED
    BY <1>1, <2>1, <2>3, SameLooked DEF Continue, Engaged
<1>2. CASE ProcessSelected(w)
  BY <1>0, <1>2, LoopKeepsOrder
<1>3. CASE Report(w)
  <2>1. on[w] = phase /\ n[w] = Len(lists[phase]) /\ at \in {"wake", "own", "await"}
    BY <1>0, <1>3, InLoop DEF Report, AtEnd
  <2>2. wait_semaphore'[w] = 1
    <3>1. cont_semaphore[w] + wait_semaphore[w] + (IF on[w] # 0 THEN 1 ELSE 0)
            = IF Engaged(w) THEN 1 ELSE 0
      BY DEF Barrier, BarrierInv
    <3>2. cont_semaphore[w] \in 0 .. 1 /\ wait_semaphore[w] \in 0 .. 1
      BY DEF Barrier, TypeOK
    <3>3. wait_semaphore[w] = 0
      BY <1>3, <3>1, <3>2 DEF Report, AtEnd
    <3> QED
      BY <1>3, <3>3 DEF Report, Barrier, TypeOK
  <2>3. ASSUME NEW t \in Threads, NEW p \in 0 .. Len(lists[phase]) - 1
        PROVE  Looked(t, p)' <=> Looked(t, p)
    <3>1. CASE t = w
      BY <1>0, <1>3, <2>1, <2>2, <3>1 DEF Report, AtEnd, Looked
    <3>2. CASE t # w
      BY <1>0, <1>3, <3>2 DEF Report, Looked, Barrier, TypeOK
    <3> QED
      BY <3>1, <3>2
  <2>4. \A p \in 0 .. Len(lists[phase]) - 1 :
          Looked(Owner(p), p)' <=> Looked(Owner(p), p)
    BY <2>3, OwnerIsThread
  <2> QED
    BY <1>3, <2>1, <2>4, SameLooked DEF Report
<1> QED
  BY <1>1, <1>2, <1>3 DEF Worker

(* When a thread processes a list, the lists before it are complete and    *)
(* the lists after it untouched in this cycle, and no item is processed    *)
(* twice: the barrier and the division of the positions among the threads  *)
(* give every item to exactly one thread, in the order of the lists.       *)
THEOREM ProcessedInOrder == Spec => []ListsInOrder
<1> DEFINE Order == Distinct /\ ProcessedInv
<1>1. Init => Order
  BY DEF Init, Distinct, ProcessedInv, InCycle
<1>2. TypeOK /\ BarrierInv /\ Order /\ [Next]_vars => Order'
  <2> SUFFICES ASSUME Ordered, [Next]_vars PROVE Distinct' /\ ProcessedInv'
    BY DEF Ordered, Barrier
  <2>1. CASE ProcessCommands
    BY <2>1, CommandsKeepOrder
  <2>2. CASE ~ ProcessCommands
    <3>1. UNCHANGED lists
      BY <2>2 DEF Next, vars, Activate, Deactivate, Call, Main, CommandsProcessed,
             ProcessList, Wake, OwnShare, ProcessSelected, OwnShareDone, Await,
             AllReported, Query, Return, Worker, Continue, Report
    <3>2. Distinct'
      BY <3>1 DEF Ordered, Distinct
    <3>3. CASE Activate \/ Deactivate \/ Call
      BY <3>2, <3>3 DEF Activate, Deactivate, Call, Ordered, ProcessedInv, InCycle
    <3>4. CASE Main
      BY <3>2, <3>4, MainKeepsOrder, LoopKeepsOrder, ThreadsAssumption DEF Threads
    <3>5. CASE \E w \in Workers : Worker(w)
      BY <3>2, <3>5, WorkerKeepsOrder
    <3>6. CASE UNCHANGED vars
      BY <3>2, <3>6 DEF vars, Ordered, ProcessedInv, InCycle, ItemDone, Looked
    <3> QED
      BY <2>2, <3>2, <3>3, <3>4, <3>5, <3>6 DEF Next
  <2> QED
    BY <2>1, <2>2
<1>3. TypeOK /\ BarrierInv /\ Order => ListsInOrder
  <2> SUFFICES ASSUME TypeOK, BarrierInv, Order PROVE ListsInOrder
    OBVIOUS
  <2>1. ASSUME NEW l \in Lists, InCycle PROVE l < phase => AllProcessed(l, 1)
    BY <2>1 DEF ProcessedInv, ItemDone, AllProcessed
  <2>2. ASSUME NEW l \in Lists, InCycle PROVE l > phase => AllProcessed(l, 0)
    BY <2>2 DEF ProcessedInv, ItemDone, AllProcessed, TypeOK, Lists
  <2> QED
    BY <2>1, <2>2 DEF ListsInOrder, ProcessedInv, InCycle
<1> HIDE DEF Order
<1> QED
  BY <1>1, <1>2, <1>3, BarrierHolds, PTL DEF Spec
==============================================================================
