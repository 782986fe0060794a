----------------------------- MODULE ProgramProofs ----------------------------
(***************************************************************************)
(* Program for every configuration, every number of sources, ports and     *)
(* reports of a head tracker.                                              *)
(***************************************************************************)
EXTENDS Program, WellFoundedInduction, TLAPS

------------------------------------------------------------------------------
(* Head trackers                                                           *)

Points == {"none", "contact", "configure", "read", "publish", "ended", "spins"}

NoKind == ""

TrackerSet ==
  [kind : Kinds \cup {NoKind}, pc : Points, ready : BOOLEAN, stopped : BOOLEAN,
   current : Int, corr : Int, input : {0, 1, 2}, init : BOOLEAN, yaw : Int]

DeviceSet ==
  [wire : Seq(Int), left : Int, requests : Seq({Zero, One}), repeated : Int,
   streaming : BOOLEAN, azimuth : Int, heading : Int, fails : {"no", "end", "error"}]

\* In what follows t is the tracker, d the device, s what was seen and z the zero.
\* What current and corr have to do with what was read and calibrated.
CorrectionInv(t, d, s, z) ==
  /\ t.kind = NoKind => /\ t.pc = "none" /\ ~ t.ready /\ d.wire = <<>>
                    /\ d.requests = <<>> /\ s = Unknown /\ z = Unknown
  /\ t.pc = "none" => t.kind = NoKind
  /\ t.kind # "intersense" =>
       /\ s # Unknown => t.current = s
       /\ z # Unknown => t.corr = z + 1
  /\ t.kind = "intersense" =>
       /\ t.corr = 1
       /\ t.pc = "publish" => t.current = s - z

\* After the first k numbers on the wire there are whole frames.
Frames(wire, k) ==
  \E n \in Nat :
    /\ Len(wire) = k + 2 * n
    /\ \A j \in 1..n : wire[k + 2 * j - 1] \in Azimuths /\ wire[k + 2 * j] \in {Hash, Other}

NoOne(wire) == \A i \in 1..Len(wire) : wire[i] # One

\* In what follows w is the wire, q the device's requests, i the position in the token.
\* The device has still to handle the request for a configuration, after others.
ToConfigure(w, q, i) ==
  /\ NoOne(w) /\ i # 2
  /\ q # <<>> /\ q[Len(q)] = One /\ \A n \in 1..Len(q) - 1 : q[n] = Zero

\* Its reply is on the wire, and all that comes after it are frames.
ReplyComes(w, q, i) ==
  /\ i # 2 /\ q = <<>>
  /\ \E k \in 1..Len(w) - 1 :
       /\ w[k] = One /\ w[k + 1] = NewLine
       /\ \A n \in 1..k - 1 : w[n] # One
       /\ Frames(w, k + 1)

\* All but the end of the reply has been read.
ReplyEnds(w, q) == q = <<>> /\ w # <<>> /\ w[1] = NewLine /\ Frames(w, 1)

\* The reply went past without being understood.
ReplyMissed(w, q, i) == i # 2 /\ q = <<>> /\ NoOne(w)

Configuring(w, q, i) ==
  ToConfigure(w, q, i) \/ ReplyComes(w, q, i) \/ ReplyEnds(w, q) \/ ReplyMissed(w, q, i)

AllZero(q) == \A n \in 1..Len(q) : q[n] = Zero

\* The thread reads whole frames, from their first number on.
InStep(w, q, i) == q = <<>> /\ i \in 0..1 /\ Frames(w, i)

\* The Razor: what is on the wire tells how far the thread may be.
RazorInv(t, d, s, z) ==
  t.kind = "razor" =>
    /\ t.pc \in {"contact", "configure", "read", "publish", "ended"}
    /\ ~ t.init => s \in Azimuths /\ z \in Azimuths
    /\ t.pc = "publish" => ~ t.init /\ t.input = 0
    /\ t.pc = "read" /\ t.input = 1 => t.yaw \in Azimuths
    /\ d.fails # "no" => d.wire = <<>>
    /\ d.fails = "no" =>
         /\ t.pc = "contact" => NoOne(d.wire) /\ AllZero(d.requests)
         /\ t.pc = "configure" => Configuring(d.wire, d.requests, t.input)
         /\ t.pc \in {"read", "publish"} => InStep(d.wire, d.requests, t.input)

Consistent(t, d, s, z) ==
  /\ t \in TrackerSet /\ d \in DeviceSet /\ s \in Int /\ z \in Int
  /\ CorrectionInv(t, d, s, z)
  /\ RazorInv(t, d, s, z)

TrackerInv == Consistent(tracker, device, seen, zero)

LEMMA Bytes ==
  /\ Unknown \in Int /\ Unknown \notin Azimuths /\ BrokenLine \in Int
  /\ Hash \in Int /\ Zero \in Int /\ One \in Int /\ NewLine \in Int /\ Other \in Int
  /\ One \notin Azimuths \cup {Hash, Zero, NewLine, Other}
  /\ NewLine \notin Azimuths \cup {Hash, Zero, One, Other}
  /\ Hash \notin {Zero, One, NewLine, Other} /\ Zero # NewLine
  /\ Azimuths \subseteq Int
BY AzimuthsAssumption DEF Unknown, BrokenLine, Hash, Zero, One, NewLine, Other

LEMMA NoKinds == NoKind \notin Kinds /\ NoKind # "vrpn" /\ NoKind # "razor" /\ NoKind # "intersense"
BY Zenon DEF NoKind, Kinds

LEMMA Places ==
  {"none", "contact", "configure", "read", "publish", "ended", "spins"} \subseteq Points
BY DEF Points

LEMMA TrackerAtFirst ==
  /\ NoTracker \in TrackerSet
  /\ NoTracker.kind = NoKind /\ NoTracker.pc = "none" /\ ~ NoTracker.ready
  /\ NoTracker.corr = 1 /\ NoTracker.input = 0
<1>1. PICK n : n = [kind |-> NoKind, pc |-> "none", ready |-> FALSE, stopped |-> FALSE,
                    current |-> 0, corr |-> 1, input |-> 0, init |-> FALSE, yaw |-> 0]
  OBVIOUS
<1>2. NoTracker = n
  BY <1>1, Zenon DEF NoTracker, NoKind
<1>3. n \in TrackerSet
  <2>1. NoKind \in Kinds \cup {NoKind} /\ "none" \in Points
    BY Places
  <2> QED
    BY <1>1, <2>1 DEF TrackerSet
<1> QED
  BY <1>1, <1>2, <1>3

LEMMA TailOfWire ==
  ASSUME NEW w \in Seq(Int), w # <<>>
  PROVE  /\ Head(w) = w[1] /\ Head(w) \in Int /\ Tail(w) \in Seq(Int)
         /\ Len(w) \in Nat /\ Len(w) > 0 /\ Len(Tail(w)) = Len(w) - 1
         /\ \A i \in 1..Len(w) - 1 : Tail(w)[i] = w[i + 1]
OBVIOUS

LEMMA FewerBefore ==
  ASSUME NEW w \in Seq(Int), NEW k \in Nat, k > 0, Frames(w, k), w # <<>>
  PROVE  Frames(Tail(w), k - 1)
<1>1. PICK n \in Nat :
        /\ Len(w) = k + 2 * n
        /\ \A j \in 1..n : w[k + 2 * j - 1] \in Azimuths /\ w[k + 2 * j] \in {Hash, Other}
  BY DEF Frames
<1>2. PICK t \in Seq(Int) : t = Tail(w) /\ Len(t) = Len(w) - 1
                            /\ \A i \in 1..Len(w) - 1 : t[i] = w[i + 1]
  BY TailOfWire
<1>3. ASSUME NEW j \in 1..n
      PROVE  t[k - 1 + 2 * j - 1] \in Azimuths /\ t[k - 1 + 2 * j] \in {Hash, Other}
  <2>1. k - 1 + 2 * j - 1 \in 1..Len(w) - 1 /\ k - 1 + 2 * j \in 1..Len(w) - 1
    BY <1>1, <1>3
  <2>2. t[k - 1 + 2 * j - 1] = w[k + 2 * j - 1] /\ t[k - 1 + 2 * j] = w[k + 2 * j]
    BY <1>2, <2>1
  <2> QED
    BY <1>1, <2>2
<1>4. Len(t) = k - 1 + 2 * n
  BY <1>1, <1>2
<1>5. Frames(t, k - 1)
  BY <1>3, <1>4 DEF Frames
<1> QED
  BY <1>2, <1>5

\* The first number of a frame.
LEMMA FirstOfFrame ==
  ASSUME NEW w \in Seq(Int), Frames(w, 0), w # <<>>
  PROVE  w[1] \in Azimuths /\ Frames(w, 2)
<1>1. PICK n \in Nat :
        /\ Len(w) = 2 * n
        /\ \A j \in 1..n : w[2 * j - 1] \in Azimuths /\ w[2 * j] \in {Hash, Other}
  <2>1. PICK n \in Nat :
          /\ Len(w) = 0 + 2 * n
          /\ \A j \in 1..n : w[0 + 2 * j - 1] \in Azimuths /\ w[0 + 2 * j] \in {Hash, Other}
    BY DEF Frames
  <2>2. ASSUME NEW j \in 1..n
        PROVE  w[2 * j - 1] \in Azimuths /\ w[2 * j] \in {Hash, Other}
    <3>1. 0 + 2 * j - 1 = 2 * j - 1 /\ 0 + 2 * j = 2 * j
      OBVIOUS
    <3> QED
      BY <2>1, <3>1
  <2>3. Len(w) = 2 * n
    BY <2>1
  <2> QED
    BY <2>2, <2>3
<1>2. n > 0
  BY <1>1
<1>3. w[1] \in Azimuths
  <2>1. 1 \in 1..n /\ 2 * 1 - 1 = 1
    BY <1>2
  <2> QED
    BY <1>1, <2>1
<1>4. ASSUME NEW j \in 1..n - 1
      PROVE  w[2 + 2 * j - 1] \in Azimuths /\ w[2 + 2 * j] \in {Hash, Other}
  <2>1. j + 1 \in 1..n /\ 2 * (j + 1) - 1 = 2 + 2 * j - 1 /\ 2 * (j + 1) = 2 + 2 * j
    BY <1>2
  <2> QED
    BY <1>1, <2>1
<1>5. n - 1 \in Nat /\ Len(w) = 2 + 2 * (n - 1)
  BY <1>1, <1>2
<1> QED
  BY <1>3, <1>4, <1>5 DEF Frames

LEMMA LongerWire ==
  ASSUME NEW w \in Seq(Int), NEW a \in Int, NEW b \in Int
  PROVE  /\ w \o <<a, b>> \in Seq(Int) /\ Len(w) \in Nat
         /\ Len(w \o <<a, b>>) = Len(w) + 2
         /\ (w \o <<a, b>>)[Len(w) + 1] = a /\ (w \o <<a, b>>)[Len(w) + 2] = b
         /\ \A i \in 1..Len(w) : (w \o <<a, b>>)[i] = w[i]
<1>1. PICK r \in Seq(Int) : r = <<a, b>> /\ Len(r) = 2 /\ r[1] = a /\ r[2] = b
  <2>1. <<a, b>> \in Seq(Int) /\ Len(<<a, b>>) = 2 /\ <<a, b>>[1] = a /\ <<a, b>>[2] = b
    OBVIOUS
  <2> QED
    BY <2>1
<1>2. /\ w \o r \in Seq(Int) /\ Len(w) \in Nat /\ Len(w \o r) = Len(w) + 2
      /\ \A i \in 1..Len(w) + 2 : (w \o r)[i] = IF i <= Len(w) THEN w[i] ELSE r[i - Len(w)]
  BY <1>1
<1>3. (w \o r)[Len(w) + 1] = r[1] /\ (w \o r)[Len(w) + 2] = r[2]
      /\ \A i \in 1..Len(w) : (w \o r)[i] = w[i]
  BY <1>2
<1> QED
  BY <1>1, <1>2, <1>3

LEMMA OneMoreFrame ==
  ASSUME NEW w \in Seq(Int), NEW k \in Nat, Frames(w, k), NEW a \in Azimuths, NEW b \in {Hash, Other}
  PROVE  Frames(w \o <<a, b>>, k)
<1>1. PICK n \in Nat :
        /\ Len(w) = k + 2 * n
        /\ \A j \in 1..n : w[k + 2 * j - 1] \in Azimuths /\ w[k + 2 * j] \in {Hash, Other}
  BY DEF Frames
<1>2. a \in Int /\ b \in Int
  BY Bytes
<1>3. PICK v \in Seq(Int) : v = w \o <<a, b>> /\ Len(v) = Len(w) + 2
                            /\ v[Len(w) + 1] = a /\ v[Len(w) + 2] = b
                            /\ \A i \in 1..Len(w) : v[i] = w[i]
  <2> DEFINE v == w \o <<a, b>>
  <2>1. /\ v \in Seq(Int) /\ Len(v) = Len(w) + 2
        /\ v[Len(w) + 1] = a /\ v[Len(w) + 2] = b
        /\ \A i \in 1..Len(w) : v[i] = w[i]
    BY <1>2, LongerWire
  <2> QED
    BY <2>1
<1>4. ASSUME NEW j \in 1..n + 1
      PROVE  v[k + 2 * j - 1] \in Azimuths /\ v[k + 2 * j] \in {Hash, Other}
  <2>1. CASE j = n + 1
    <3>1. k + 2 * j - 1 = Len(w) + 1 /\ k + 2 * j = Len(w) + 2
      BY <1>1, <2>1
    <3> QED
      BY <1>3, <3>1
  <2>2. CASE j \in 1..n
    <3>1. k + 2 * j - 1 \in 1..Len(w) /\ k + 2 * j \in 1..Len(w)
      BY <1>1, <2>2
    <3> QED
      BY <1>1, <1>3, <2>2, <3>1
  <2> QED
    BY <2>1, <2>2
<1>5. n + 1 \in Nat /\ Len(v) = k + 2 * (n + 1)
  BY <1>1, <1>3
<1>6. Frames(v, k)
  BY <1>4, <1>5 DEF Frames
<1> QED
  BY <1>3, <1>6

LEMMA NoOneInFrames ==
  ASSUME NEW w \in Seq(Int), NEW k \in Nat, Frames(w, k), \A i \in 1..k : w[i] # One
  PROVE  NoOne(w)
<1>1. PICK n \in Nat :
        /\ Len(w) = k + 2 * n
        /\ \A j \in 1..n : w[k + 2 * j - 1] \in Azimuths /\ w[k + 2 * j] \in {Hash, Other}
  BY DEF Frames
<1>2. SUFFICES ASSUME NEW i \in 1..Len(w), i > k PROVE w[i] # One
  BY DEF NoOne
<1>3. \E j \in 1..n : i = k + 2 * j - 1 \/ i = k + 2 * j
  <2> DEFINE j == (i - k + 1) \div 2
  <2>1. j \in Int /\ (i = k + 2 * j - 1 \/ i = k + 2 * j)
    BY <1>2
  <2>2. j \in 1..n
    BY <1>1, <1>2, <2>1
  <2> HIDE DEF j
  <2> QED
    BY <2>1, <2>2
<1> QED
  BY <1>1, <1>3, Bytes

(* What comes to the wire. *)

LEMMA NoOneMore ==
  ASSUME NEW w \in Seq(Int), NoOne(w), NEW a \in Azimuths, NEW b \in {Hash, Other}
  PROVE  NoOne(w \o <<a, b>>)
<1>1. a \in Int /\ b \in Int /\ a # One /\ b # One
  BY Bytes
<1>2. PICK v : v = w \o <<a, b>>
  OBVIOUS
<1>3. /\ Len(v) = Len(w) + 2 /\ Len(w) \in Nat
      /\ v[Len(w) + 1] = a /\ v[Len(w) + 2] = b
      /\ \A i \in 1..Len(w) : v[i] = w[i]
  BY <1>1, <1>2, LongerWire
<1>4. ASSUME NEW i \in 1..Len(v) PROVE v[i] # One
  <2>1. i \in 1..Len(w) \/ i = Len(w) + 1 \/ i = Len(w) + 2
    BY <1>3
  <2> QED
    BY <1>1, <1>3, <2>1 DEF NoOne
<1> QED
  BY <1>2, <1>4 DEF NoOne

LEMMA ConfiguringFrame ==
  ASSUME NEW w \in Seq(Int), NEW q, NEW i, Configuring(w, q, i),
         NEW a \in Azimuths, NEW b \in {Hash, Other}
  PROVE  Configuring(w \o <<a, b>>, q, i)
<1>1. a \in Int /\ b \in Int
  BY Bytes
<1>2. PICK v : v = w \o <<a, b>>
  OBVIOUS
<1>3. /\ Len(v) = Len(w) + 2 /\ Len(w) \in Nat
      /\ \A n \in 1..Len(w) : v[n] = w[n]
  BY <1>1, <1>2, LongerWire
<1>4. CASE ToConfigure(w, q, i)
  BY <1>4, NoOneMore DEF ToConfigure, Configuring
<1>5. CASE ReplyComes(w, q, i)
  <2>1. PICK k \in 1..Len(w) - 1 : /\ w[k] = One /\ w[k + 1] = NewLine
                                   /\ \A n \in 1..k - 1 : w[n] # One
                                   /\ Frames(w, k + 1)
    BY <1>5 DEF ReplyComes
  <2>2. Frames(v, k + 1)
    <3>1. PICK m \in Nat : m = k + 1
      BY <1>3, <2>1
    <3>2. Frames(w \o <<a, b>>, m)
      BY <2>1, <3>1, OneMoreFrame
    <3> QED
      BY <1>2, <3>1, <3>2
  <2>3. /\ k \in 1..Len(v) - 1 /\ v[k] = One /\ v[k + 1] = NewLine
        /\ \A n \in 1..k - 1 : v[n] # One
    <3>1. PICK l \in Nat : l = Len(w)
      BY <1>3
    <3>2. Len(v) - 1 = l + 1 /\ k \in 1..l - 1
      BY <1>3, <2>1, <3>1
    <3>3. k \in 1..l + 1 /\ k \in 1..l /\ k + 1 \in 1..l /\ 1..k - 1 \subseteq 1..l
      BY <3>1, <3>2
    <3>4. \A n \in 1..l : v[n] = w[n]
      BY <1>3, <3>1
    <3>5. v[k] = w[k] /\ v[k + 1] = w[k + 1] /\ \A n \in 1..k - 1 : v[n] = w[n]
      BY <3>3, <3>4
    <3> QED
      BY <2>1, <3>2, <3>3, <3>5
  <2>4. ReplyComes(v, q, i)
    BY <1>5, <2>2, <2>3 DEF ReplyComes
  <2> QED
    BY <1>2, <2>4 DEF Configuring
<1>6. CASE ReplyEnds(w, q)
  <2>1. Frames(v, 1)
    BY <1>2, <1>6, OneMoreFrame DEF ReplyEnds
  <2>2. v # <<>> /\ v[1] = NewLine
    <3>1. Len(w) > 0
      BY <1>6 DEF ReplyEnds
    <3> QED
      BY <1>3, <1>6, <3>1 DEF ReplyEnds
  <2> QED
    BY <1>2, <1>6, <2>1, <2>2 DEF ReplyEnds, Configuring
<1>7. CASE ReplyMissed(w, q, i)
  BY <1>7, NoOneMore DEF ReplyMissed, Configuring
<1> QED
  BY <1>4, <1>5, <1>6, <1>7 DEF Configuring

LEMMA ReplyOnWire ==
  ASSUME NEW w \in Seq(Int), NEW x \in Int
  PROVE  LET v == w \o <<Hash, x, NewLine>>
         IN  /\ v \in Seq(Int) /\ Len(w) \in Nat /\ Len(v) = Len(w) + 3
             /\ v[Len(w) + 1] = Hash /\ v[Len(w) + 2] = x /\ v[Len(w) + 3] = NewLine
             /\ \A i \in 1..Len(w) : v[i] = w[i]
<1>1. PICK r \in Seq(Int) : /\ r = <<Hash, x, NewLine>>
                            /\ Len(r) = 3 /\ r[1] = Hash /\ r[2] = x /\ r[3] = NewLine
  <2> DEFINE r == <<Hash, x, NewLine>>
  <2>1. r \in Seq(Int) /\ Len(r) = 3 /\ r[1] = Hash /\ r[2] = x /\ r[3] = NewLine
    BY Bytes
  <2> QED
    BY <2>1
<1>2. /\ w \o r \in Seq(Int) /\ Len(w) \in Nat /\ Len(w \o r) = Len(w) + 3
      /\ \A i \in 1..Len(w) + 3 : (w \o r)[i] = IF i <= Len(w) THEN w[i] ELSE r[i - Len(w)]
  BY <1>1
<1>3. /\ (w \o r)[Len(w) + 1] = r[1] /\ (w \o r)[Len(w) + 2] = r[2] /\ (w \o r)[Len(w) + 3] = r[3]
      /\ \A i \in 1..Len(w) : (w \o r)[i] = w[i]
  BY <1>2
<1> QED
  BY <1>1, <1>2, <1>3

LEMMA NoOneReply ==
  ASSUME NEW w \in Seq(Int), NoOne(w) PROVE NoOne(w \o <<Hash, Zero, NewLine>>)
<1>1. PICK v : v = w \o <<Hash, Zero, NewLine>>
  OBVIOUS
<1>2. /\ Len(v) = Len(w) + 3 /\ Len(w) \in Nat
      /\ v[Len(w) + 1] = Hash /\ v[Len(w) + 2] = Zero /\ v[Len(w) + 3] = NewLine
      /\ \A i \in 1..Len(w) : v[i] = w[i]
  BY <1>1, Bytes, ReplyOnWire
<1>3. ASSUME NEW i \in 1..Len(v) PROVE v[i] # One
  <2>1. i \in 1..Len(w) \/ i = Len(w) + 1 \/ i = Len(w) + 2 \/ i = Len(w) + 3
    BY <1>2
  <2> QED
    BY <1>2, <2>1, Bytes DEF NoOne
<1> QED
  BY <1>1, <1>3 DEF NoOne

LEMMA Requests ==
  ASSUME NEW q \in Seq({Zero, One}), q # <<>>
  PROVE  /\ Head(q) = q[1] /\ Tail(q) \in Seq({Zero, One})
         /\ Len(q) \in Nat /\ Len(q) > 0 /\ Len(Tail(q)) = Len(q) - 1
         /\ \A i \in 1..Len(q) - 1 : Tail(q)[i] = q[i + 1]
         /\ Len(q) = 1 => Tail(q) = <<>>
         /\ Len(q) > 1 => Tail(q) # <<>>
<1>1. /\ Head(q) = q[1] /\ Tail(q) \in Seq({Zero, One})
      /\ Len(q) \in Nat /\ Len(q) > 0 /\ Len(Tail(q)) = Len(q) - 1
      /\ \A i \in 1..Len(q) - 1 : Tail(q)[i] = q[i + 1]
  OBVIOUS
<1>2. PICK r \in Seq({Zero, One}) : r = Tail(q) /\ Len(r) = Len(q) - 1
  BY <1>1
<1>3. Len(r) = 0 <=> r = <<>>
  OBVIOUS
<1> QED
  BY <1>1, <1>2, <1>3

LEMMA HeadOfRequests ==
  ASSUME NEW q \in Seq({Zero, One}), q # <<>>
  PROVE  Head(q) \in {Zero, One} /\ Tail(q) \in Seq({Zero, One})
OBVIOUS

\* A request is answered, or a first one is missed.
LEMMA Answered ==
  ASSUME NEW w \in Seq(Int), NEW q \in Seq({Zero, One}), q # <<>>, NEW i \in 0..2,
         Configuring(w, q, i)
  PROVE  /\ Configuring(w \o <<Hash, Head(q), NewLine>>, Tail(q), i)
         /\ Head(q) = Zero => Configuring(w, Tail(q), i)
<1>1. ToConfigure(w, q, i)
  BY DEF Configuring, ReplyComes, ReplyEnds, ReplyMissed
<1>2. NoOne(w) /\ i # 2 /\ q[Len(q)] = One /\ \A n \in 1..Len(q) - 1 : q[n] = Zero
  BY <1>1 DEF ToConfigure
<1>3. CASE Len(q) = 1
  <2>1. Head(q) = One /\ Tail(q) = <<>>
    BY <1>2, <1>3, Requests
  <2>2. PICK v : v = w \o <<Hash, One, NewLine>>
    OBVIOUS
  <2>3. /\ v \in Seq(Int) /\ Len(w) \in Nat /\ Len(v) = Len(w) + 3
        /\ v[Len(w) + 1] = Hash /\ v[Len(w) + 2] = One /\ v[Len(w) + 3] = NewLine
        /\ \A n \in 1..Len(w) : v[n] = w[n]
    BY <2>2, Bytes, ReplyOnWire
  <2>4. PICK k \in Nat : k = Len(w) + 2
    BY <2>3
  <2>5. k \in 1..Len(v) - 1 /\ v[k] = One /\ v[k + 1] = NewLine
    BY <2>3, <2>4
  <2>6. \A n \in 1..k - 1 : v[n] # One
    <3>1. \A n \in 1..k - 1 : n \in 1..Len(w) \/ n = Len(w) + 1
      BY <2>3, <2>4
    <3> QED
      BY <1>2, <2>3, <3>1, Bytes DEF NoOne
  <2>7. Frames(v, k + 1)
    <3>1. Len(v) = k + 1 + 2 * 0 /\ 0 \in Nat
      BY <2>3, <2>4
    <3> QED
      BY <3>1 DEF Frames
  <2>8. ReplyComes(v, Tail(q), i)
    BY <1>2, <2>1, <2>5, <2>6, <2>7 DEF ReplyComes
  <2> QED
    BY <2>1, <2>2, <2>8, Bytes DEF Configuring
<1>4. CASE Len(q) # 1
  <2>1. Len(q) \in Nat /\ Len(q) > 1 /\ Head(q) = Zero
    <3>1. PICK L \in Nat : L = Len(q) /\ L > 0 /\ Head(q) = q[1]
      BY Requests
    <3>2. L > 1 /\ 1 \in 1..L - 1
      BY <1>4, <3>1
    <3> QED
      BY <1>2, <3>1, <3>2
  <2>2. PICK r : r = Tail(q)
    OBVIOUS
  <2>3. r # <<>> /\ Len(r) = Len(q) - 1 /\ \A n \in 1..Len(q) - 1 : r[n] = q[n + 1]
    BY <2>1, <2>2, Requests
  <2>4. r[Len(r)] = One /\ \A n \in 1..Len(r) - 1 : r[n] = Zero
    BY <1>2, <2>1, <2>3
  <2>5. ToConfigure(w, r, i)
    BY <1>2, <2>3, <2>4 DEF ToConfigure
  <2>6. ToConfigure(w \o <<Hash, Zero, NewLine>>, r, i)
    BY <1>2, <2>3, <2>4, NoOneReply DEF ToConfigure
  <2> QED
    BY <2>1, <2>2, <2>5, <2>6 DEF Configuring
<1> QED
  BY <1>3, <1>4

(* What is taken from it. *)

LEMMA NoOneTaken ==
  ASSUME NEW w \in Seq(Int), w # <<>>, NoOne(w) PROVE Head(w) # One /\ NoOne(Tail(w))
<1>1. \A i \in 1..Len(Tail(w)) : Tail(w)[i] = w[i + 1] /\ i + 1 \in 1..Len(w)
  BY TailOfWire
<1>2. Head(w) = w[1] /\ 1 \in 1..Len(w)
  BY TailOfWire
<1> QED
  BY <1>1, <1>2 DEF NoOne

\* The position in the token after one more number, and where the thread is then.
LEMMA ReplyTaken ==
  ASSUME NEW w \in Seq(Int), w # <<>>, NEW q, NEW i \in 0..2, Configuring(w, q, i),
         NEW p, p = IF Head(w) = config_synch_reply[i + 1] THEN i + 1 ELSE 0
  PROVE  /\ p \in 0..3
         /\ p = 3 => q = <<>> /\ Frames(Tail(w), 0)
         /\ p # 3 => Configuring(Tail(w), q, p)
<1>1. /\ config_synch_reply[1] = Hash /\ config_synch_reply[2] = One
      /\ config_synch_reply[3] = NewLine
  BY DEF config_synch_reply
<1>2. /\ p \in 0..3
      /\ p = 3 => i = 2 /\ Head(w) = NewLine
      /\ p = 2 => i = 1 /\ Head(w) = One
  <2>1. i = 0 \/ i = 1 \/ i = 2
    OBVIOUS
  <2> QED
    BY <1>1, <2>1
<1>3. PICK t \in Seq(Int) : /\ t = Tail(w) /\ Len(t) = Len(w) - 1 /\ Len(w) \in Nat
                            /\ \A n \in 1..Len(w) - 1 : t[n] = w[n + 1]
                            /\ Head(w) = w[1] /\ Len(w) > 0
  BY TailOfWire
<1>4. CASE ToConfigure(w, q, i)
  <2>1. Head(w) # One /\ NoOne(t)
    BY <1>3, <1>4, NoOneTaken DEF ToConfigure
  <2>2. p # 3 /\ p # 2
    BY <1>2, <1>4, <2>1 DEF ToConfigure
  <2> QED
    BY <1>2, <1>3, <1>4, <2>1, <2>2 DEF ToConfigure, Configuring
<1>5. CASE ReplyComes(w, q, i)
  <2>1. PICK k \in 1..Len(w) - 1 : /\ w[k] = One /\ w[k + 1] = NewLine
                                   /\ \A n \in 1..k - 1 : w[n] # One
                                   /\ Frames(w, k + 1)
    BY <1>5 DEF ReplyComes
  <2>2. p # 3 /\ q = <<>>
    BY <1>2, <1>5 DEF ReplyComes
  <2>3. Frames(t, k + 1 - 1)
    BY <1>3, <2>1, FewerBefore
  <2>4. CASE k = 1
    <3>1. t # <<>> /\ t[1] = NewLine /\ Frames(t, 1)
      <4>1. Len(t) > 0 /\ 1 \in 1..Len(w) - 1
        BY <1>3, <2>1, <2>4
      <4>2. t[1] = w[1 + 1] /\ t # <<>>
        <5>1. t[1] = w[1 + 1]
          BY <1>3, <4>1
        <5>2. t # <<>>
          BY <4>1
        <5> QED
          BY <5>1, <5>2
      <4>3. w[1 + 1] = NewLine
        BY <2>1, <2>4
      <4>4. k + 1 - 1 = 1
        BY <2>4
      <4> QED
        BY <2>3, <4>2, <4>3, <4>4
    <3> QED
      BY <1>2, <1>3, <2>2, <3>1 DEF ReplyEnds, Configuring
  <2>5. CASE k # 1
    <3>1. w[1] # One
      BY <2>1, <2>5
    <3>2. p # 2
      BY <1>2, <1>3, <3>1
    <3>3. PICK m \in 1..Len(t) - 1 : m = k - 1
      BY <1>3, <2>1, <2>5
    <3>4. t[m] = One /\ t[m + 1] = NewLine /\ \A n \in 1..m - 1 : t[n] # One
      BY <1>3, <2>1, <2>5, <3>3
    <3>5. Frames(t, m + 1)
      BY <2>1, <2>3, <3>3
    <3>6. ReplyComes(t, q, p)
      BY <2>2, <3>2, <3>4, <3>5 DEF ReplyComes
    <3> QED
      BY <1>2, <1>3, <2>2, <3>6 DEF Configuring
  <2> QED
    BY <2>4, <2>5
<1>6. CASE ReplyEnds(w, q)
  <2>1. Frames(t, 0) /\ q = <<>>
    BY <1>3, <1>6, FewerBefore DEF ReplyEnds
  <2>2. NoOne(t)
    BY <2>1, NoOneInFrames
  <2>3. p # 2
    BY <1>2, <1>3, <1>6, Bytes DEF ReplyEnds
  <2> QED
    BY <1>2, <1>3, <2>1, <2>2, <2>3 DEF ReplyMissed, Configuring
<1>7. CASE ReplyMissed(w, q, i)
  <2>1. Head(w) # One /\ NoOne(t)
    BY <1>3, <1>7, NoOneTaken DEF ReplyMissed
  <2>2. p # 3 /\ p # 2
    BY <1>2, <1>7, <2>1 DEF ReplyMissed
  <2> QED
    BY <1>2, <1>3, <1>7, <2>1, <2>2 DEF ReplyMissed, Configuring
<1> QED
  BY <1>4, <1>5, <1>6, <1>7 DEF Configuring

(* The steps of a head tracker. *)

LEMMA TrackerFields ==
  ASSUME NEW t \in TrackerSet
  PROVE  /\ t.kind \in Kinds \cup {NoKind} /\ t.pc \in Points
         /\ t.ready \in BOOLEAN /\ t.stopped \in BOOLEAN
         /\ t.current \in Int /\ t.corr \in Int /\ t.input \in {0, 1, 2}
         /\ t.init \in BOOLEAN /\ t.yaw \in Int
BY DEF TrackerSet

LEMMA DeviceFields ==
  ASSUME NEW d \in DeviceSet
  PROVE  /\ d.wire \in Seq(Int) /\ d.left \in Int /\ d.requests \in Seq({Zero, One})
         /\ d.repeated \in Int /\ d.streaming \in BOOLEAN
         /\ d.azimuth \in Int /\ d.heading \in Int /\ d.fails \in {"no", "end", "error"}
BY DEF DeviceSet

LEMMA ShortSequences ==
  ASSUME NEW S
  PROVE  /\ <<>> \in Seq(S) /\ Len(<<>>) = 0
         /\ \A x \in S : <<x>> \in Seq(S) /\ Len(<<x>>) = 1 /\ <<x>>[1] = x
         /\ \A x \in S, w \in Seq(S) :
              /\ w \o <<x>> \in Seq(S) /\ Append(w, x) \in Seq(S)
              /\ Len(Append(w, x)) = Len(w) + 1 /\ Append(w, x)[Len(w) + 1] = x
              /\ \A i \in 1..Len(w) : Append(w, x)[i] = w[i]
OBVIOUS

LEMMA TrackerStarts ==
  ASSUME TrackerInv, tracker.kind = NoKind, NEW kind \in Kinds, StartThread(kind)
  PROVE  TrackerInv'
<1>1. PICK d : d = device
  OBVIOUS
<1>2. d \in DeviceSet /\ d.wire = <<>> /\ seen = Unknown /\ zero = Unknown
  BY <1>1 DEF TrackerInv, Consistent, CorrectionInv
<1>3. PICK current, streaming :
        /\ current \in IF kind = "vrpn" THEN Azimuths ELSE {0}
        /\ streaming \in IF kind = "razor" THEN BOOLEAN ELSE {FALSE}
        /\ tracker' = [NoTracker EXCEPT !.kind = kind,
                                        !.pc = IF kind = "razor" THEN "contact" ELSE "read",
                                        !.current = current,
                                        !.init = kind = "razor"]
        /\ device' = [d EXCEPT !.left = MaxReports, !.streaming = streaming,
                               !.requests = IF kind = "razor" THEN <<Zero>> ELSE <<>>]
        /\ seen' = seen /\ zero' = zero
  BY <1>1, Zenon DEF StartThread
<1>4. current \in Int /\ streaming \in BOOLEAN /\ MaxReports \in Int
  <2>1. current \in Azimuths \cup {0}
    BY <1>3
  <2>2. current \in Int
    BY <2>1, Bytes
  <2>3. streaming \in BOOLEAN
    BY <1>3, Zenon
  <2>4. MaxReports \in Int
    BY BoundsAssumption
  <2> QED
    BY <2>2, <2>3, <2>4
<1>5. PICK q \in Seq({Zero, One}) :
        q = (IF kind = "razor" THEN <<Zero>> ELSE <<>>) /\ AllZero(q)
  <2>1. <<Zero>> \in Seq({Zero, One}) /\ <<>> \in Seq({Zero, One})
    BY ShortSequences
  <2>2. AllZero(<<Zero>>)
    BY ShortSequences DEF AllZero
  <2>3. AllZero(<<>>)
    BY ShortSequences DEF AllZero
  <2> QED
    BY <2>1, <2>2, <2>3
<1>6. PICK pc \in {"contact", "read"} :
        pc = (IF kind = "razor" THEN "contact" ELSE "read")
  OBVIOUS
<1>7. PICK init \in BOOLEAN : init = (kind = "razor")
  OBVIOUS
<1>8. PICK n : n = NoTracker
  OBVIOUS
<1>9. PICK t : t = [n EXCEPT !.kind = kind, !.pc = pc, !.current = current, !.init = init]
  OBVIOUS
<1>10. /\ tracker' = t /\ t \in TrackerSet
       /\ t.kind = kind /\ t.pc = pc /\ t.init = init /\ t.input = 0 /\ t.corr = 1
  <2>1. tracker' = t
    BY <1>3, <1>6, <1>7, <1>8, <1>9
  <2>2. n \in TrackerSet /\ n.corr = 1 /\ n.input = 0
    BY <1>8, TrackerAtFirst
  <2>3. kind \in Kinds \cup {NoKind} /\ pc \in Points
    BY <1>6, Places
  <2>4. /\ t \in TrackerSet
        /\ t.kind = kind /\ t.pc = pc /\ t.init = init /\ t.input = 0 /\ t.corr = 1
    BY <1>4, <1>9, <2>2, <2>3 DEF TrackerSet
  <2> QED
    BY <2>1, <2>4
<1>11. PICK e : e = [d EXCEPT !.left = MaxReports, !.streaming = streaming, !.requests = q]
  OBVIOUS
<1>12. device' = e
  BY <1>3, <1>5, <1>11
<1>13. e \in DeviceSet /\ e.wire = <<>> /\ e.requests = q /\ e.fails = d.fails
  BY <1>2, <1>4, <1>11 DEF DeviceSet
<1>14. CorrectionInv(t, e, Unknown, Unknown)
  BY <1>6, <1>10, NoKinds DEF CorrectionInv
<1>15. RazorInv(t, e, Unknown, Unknown)
  <2>1. NoOne(<<>>)
    BY ShortSequences DEF NoOne
  <2> QED
    BY <1>5, <1>6, <1>7, <1>10, <1>13, <2>1 DEF RazorInv
<1> QED
  BY <1>2, <1>3, <1>10, <1>12, <1>13, <1>14, <1>15, Bytes DEF TrackerInv, Consistent

\* What calibrate() and the end of the constructor do.
LEMMA TrackerCalibrated ==
  ASSUME NEW t, NEW d, NEW s, NEW z, Consistent(t, d, s, z), t.kind # NoKind,
         NEW ready \in BOOLEAN
  PROVE  /\ t.kind = "intersense" =>
              Consistent([t EXCEPT !.ready = ready], [d EXCEPT !.heading = d.azimuth], s, z)
         /\ t.kind # "intersense" =>
              Consistent([t EXCEPT !.ready = ready, !.corr = t.current + 1], d, s, s)
         /\ t.kind = "razor" => Consistent([t EXCEPT !.ready = ready], d, s, z)
<1>1. t \in TrackerSet /\ d \in DeviceSet /\ s \in Int /\ z \in Int
      /\ CorrectionInv(t, d, s, z) /\ RazorInv(t, d, s, z)
  BY DEF Consistent
<1>2. PICK u : u = [t EXCEPT !.ready = ready]
  OBVIOUS
<1>3. /\ u \in TrackerSet /\ u.kind = t.kind /\ u.pc = t.pc /\ u.corr = t.corr
      /\ u.current = t.current /\ u.init = t.init /\ u.input = t.input /\ u.yaw = t.yaw
  BY <1>1, <1>2 DEF TrackerSet
<1>4. ASSUME t.kind = "intersense"
      PROVE  Consistent(u, [d EXCEPT !.heading = d.azimuth], s, z)
  <2>1. PICK e : e = [d EXCEPT !.heading = d.azimuth]
    OBVIOUS
  <2>2. e \in DeviceSet
    BY <1>1, <2>1 DEF DeviceSet
  <2>3. CorrectionInv(u, e, s, z)
    BY <1>1, <1>3, <1>4 DEF CorrectionInv
  <2>4. RazorInv(u, e, s, z)
    BY <1>3, <1>4 DEF RazorInv
  <2> QED
    BY <1>1, <1>3, <2>1, <2>2, <2>3, <2>4 DEF Consistent
<1>5. ASSUME t.kind # "intersense"
      PROVE  Consistent([t EXCEPT !.ready = ready, !.corr = t.current + 1], d, s, s)
  <2>1. PICK v : v = [t EXCEPT !.ready = ready, !.corr = t.current + 1]
    OBVIOUS
  <2>2. PICK corr \in Int : corr = t.current + 1
    <3>1. t.current + 1 \in Int
      BY <1>1, TrackerFields
    <3> QED
      BY <3>1
  <2>3. /\ v \in TrackerSet /\ v.kind = t.kind /\ v.pc = t.pc /\ v.corr = corr
        /\ v.current = t.current /\ v.init = t.init /\ v.input = t.input /\ v.yaw = t.yaw
    BY <1>1, <2>1, <2>2 DEF TrackerSet
  <2>4. CorrectionInv(v, d, s, s)
    BY <1>1, <1>5, <2>2, <2>3 DEF CorrectionInv
  <2>5. RazorInv(v, d, s, s)
    BY <1>1, <2>3 DEF RazorInv
  <2> QED
    BY <1>1, <2>1, <2>3, <2>4, <2>5 DEF Consistent
<1>6. ASSUME t.kind = "razor" PROVE Consistent(u, d, s, z)
  <2>1. CorrectionInv(u, d, s, z)
    BY <1>1, <1>3, <1>6 DEF CorrectionInv
  <2>2. RazorInv(u, d, s, z)
    BY <1>1, <1>3 DEF RazorInv
  <2> QED
    BY <1>1, <1>3, <2>1, <2>2 DEF Consistent
<1> QED
  BY <1>2, <1>4, <1>5, <1>6

LEMMA DeviceFails ==
  ASSUME TrackerInv, tracker.kind # NoKind, Fail PROVE TrackerInv'
<1>1. PICK t, d, s, z : t = tracker /\ d = device /\ s = seen /\ z = zero
  OBVIOUS
<1>2. /\ t \in TrackerSet /\ d \in DeviceSet /\ s \in Int /\ z \in Int /\ t.kind # NoKind
      /\ CorrectionInv(t, d, s, z) /\ RazorInv(t, d, s, z)
  BY <1>1 DEF TrackerInv, Consistent
<1>3. PICK how \in {"end", "error"} : device' = [d EXCEPT !.fails = how, !.wire = <<>>]
  BY <1>1 DEF Fail
<1>4. tracker' = t /\ seen' = s /\ zero' = z
  BY <1>1 DEF Fail
<1>5. PICK e : e = [d EXCEPT !.fails = how, !.wire = <<>>]
  OBVIOUS
<1>6. e \in DeviceSet /\ e.fails = how /\ e.wire = <<>>
  <2>1. PICK empty \in Seq(Int) : empty = <<>>
    BY ShortSequences
  <2>2. e = [d EXCEPT !.fails = how, !.wire = empty]
    BY <1>5, <2>1
  <2> QED
    BY <1>2, <2>1, <2>2 DEF DeviceSet
<1>7. CorrectionInv(t, e, s, z)
  BY <1>2, <1>6 DEF CorrectionInv
<1>8. RazorInv(t, e, s, z)
  BY <1>2, <1>6 DEF RazorInv
<1> QED
  BY <1>2, <1>3, <1>4, <1>5, <1>6, <1>7, <1>8 DEF TrackerInv, Consistent

LEMMA ReportSent ==
  ASSUME TrackerInv, tracker.kind # NoKind, SendReport PROVE TrackerInv'
<1>1. PICK t, d, s, z : t = tracker /\ d = device /\ s = seen /\ z = zero
  OBVIOUS
<1>2. /\ t \in TrackerSet /\ d \in DeviceSet /\ s \in Int /\ z \in Int /\ t.kind # NoKind
      /\ CorrectionInv(t, d, s, z) /\ RazorInv(t, d, s, z)
  BY <1>1 DEF TrackerInv, Consistent
<1>3. tracker' = t /\ seen' = s /\ zero' = z /\ d.fails = "no"
  BY <1>1 DEF SendReport
<1>4. PICK a \in Azimuths :
        CASE t.kind = "intersense" -> device' = [d EXCEPT !.azimuth = a, !.left = @ - 1]
          [] t.kind = "vrpn" -> Send(<<a>>)
          [] t.kind = "polhemus" -> Send(<<a>>) \/ Send(<<BrokenLine>>)
          [] OTHER -> d.streaming /\ \E byte \in {Hash, Other} : Send(<<a, byte>>)
  BY <1>1 DEF SendReport
<1>5. a \in Int /\ BrokenLine \in Int
  BY Bytes
<1>6. PICK left \in Int : left = d.left - 1
  <2>1. d.left - 1 \in Int
    BY <1>2, DeviceFields
  <2> QED
    BY <2>1
<1>7. CASE t.kind = "intersense"
  <2>1. PICK e : e = [d EXCEPT !.azimuth = a, !.left = left]
    OBVIOUS
  <2>2. device' = e
    BY <1>4, <1>6, <1>7, <2>1
  <2>3. e \in DeviceSet
    BY <1>2, <1>5, <2>1 DEF DeviceSet
  <2>4. CorrectionInv(t, e, s, z) /\ RazorInv(t, e, s, z)
    BY <1>2, <1>7 DEF CorrectionInv, RazorInv
  <2> QED
    BY <1>2, <1>3, <2>2, <2>3, <2>4 DEF TrackerInv, Consistent
<1>8. CASE t.kind \in {"vrpn", "polhemus"}
  <2>1. PICK x \in Int : device' = [d EXCEPT !.wire = @ \o <<x>>, !.left = @ - 1]
    BY <1>1, <1>4, <1>5, <1>8 DEF Send
  <2>2. PICK v \in Seq(Int) : v = d.wire \o <<x>>
    <3>1. PICK w \in Seq(Int) : w = d.wire
      BY <1>2, DeviceFields
    <3>2. w \o <<x>> \in Seq(Int)
      BY ShortSequences
    <3> QED
      BY <3>1, <3>2
  <2>3. PICK e : e = [d EXCEPT !.wire = v, !.left = left]
    OBVIOUS
  <2>4. device' = e
    BY <1>6, <2>1, <2>2, <2>3
  <2>5. e \in DeviceSet
    BY <1>2, <2>3 DEF DeviceSet
  <2>6. CorrectionInv(t, e, s, z) /\ RazorInv(t, e, s, z)
    BY <1>2, <1>8 DEF CorrectionInv, RazorInv
  <2> QED
    BY <1>2, <1>3, <2>4, <2>5, <2>6 DEF TrackerInv, Consistent
<1>9. CASE t.kind \notin {"intersense", "vrpn", "polhemus"}
  <2>1. PICK byte \in {Hash, Other} : device' = [d EXCEPT !.wire = @ \o <<a, byte>>, !.left = @ - 1]
    BY <1>1, <1>4, <1>9 DEF Send
  <2>2. PICK w \in Seq(Int) : w = d.wire
    BY <1>2, DeviceFields
  <2>3. PICK v \in Seq(Int) : v = w \o <<a, byte>>
    BY <1>5, Bytes, LongerWire
  <2>4. PICK e : e = [d EXCEPT !.wire = v, !.left = left]
    OBVIOUS
  <2>5. device' = e
    BY <1>6, <2>1, <2>2, <2>3, <2>4
  <2>6. e \in DeviceSet /\ e.wire = v /\ e.requests = d.requests /\ e.fails = d.fails
    BY <1>2, <2>4 DEF DeviceSet
  <2>7. CorrectionInv(t, e, s, z)
    BY <1>2 DEF CorrectionInv
  <2>8. NoOne(w) => NoOne(v)
    BY <2>3, NoOneMore
  <2>9. PICK q : q = d.requests
    OBVIOUS
  <2>10. PICK i \in {0, 1, 2} : i = t.input
    BY <1>2, TrackerFields
  <2>11. Configuring(w, q, i) => Configuring(v, q, i)
    BY <2>3, ConfiguringFrame
  <2>12. InStep(w, q, i) => InStep(v, q, i)
    BY <2>3, OneMoreFrame DEF InStep
  <2>13. RazorInv(t, e, s, z)
    BY <1>2, <1>3, <2>2, <2>6, <2>8, <2>9, <2>10, <2>11, <2>12 DEF RazorInv
  <2> QED
    BY <1>2, <1>3, <2>5, <2>6, <2>7, <2>13 DEF TrackerInv, Consistent
<1> QED
  BY <1>7, <1>8, <1>9

LEMMA RequestHandled ==
  ASSUME TrackerInv, tracker.kind # NoKind, HandleRequest PROVE TrackerInv'
<1>1. PICK t, d, s, z : t = tracker /\ d = device /\ s = seen /\ z = zero
  OBVIOUS
<1>2. /\ t \in TrackerSet /\ d \in DeviceSet /\ s \in Int /\ z \in Int /\ t.kind # NoKind
      /\ CorrectionInv(t, d, s, z) /\ RazorInv(t, d, s, z)
  BY <1>1 DEF TrackerInv, Consistent
<1>3. /\ tracker' = t /\ seen' = s /\ zero' = z /\ d.fails = "no" /\ d.requests # <<>>
      /\ \/ device' = [d EXCEPT !.requests = Tail(@),
                                !.wire = @ \o <<Hash, Head(d.requests), NewLine>>,
                                !.streaming = @ \/ Head(d.requests) = One]
         \/ Head(d.requests) = Zero /\ device' = [d EXCEPT !.requests = Tail(@)]
  BY <1>1 DEF HandleRequest
<1>4. PICK w \in Seq(Int), q \in Seq({Zero, One}), i \in {0, 1, 2} :
        w = d.wire /\ q = d.requests /\ i = t.input
  BY <1>2, TrackerFields, DeviceFields
<1>5. PICK x \in {Zero, One}, r \in Seq({Zero, One}) : x = Head(q) /\ r = Tail(q)
  BY <1>3, <1>4, HeadOfRequests
<1>6. PICK v \in Seq(Int) : v = w \o <<Hash, x, NewLine>>
  BY Bytes, ReplyOnWire
<1>7. PICK on \in BOOLEAN : on = (d.streaming \/ x = One)
  OBVIOUS
<1>8. PICK e \in DeviceSet :
        /\ device' = e /\ e.requests = r /\ e.fails = "no"
        /\ e.wire = v \/ (e.wire = w /\ x = Zero)
  <2>1. CASE device' = [d EXCEPT !.requests = Tail(@),
                                 !.wire = @ \o <<Hash, Head(d.requests), NewLine>>,
                                 !.streaming = @ \/ Head(d.requests) = One]
    <3>1. PICK e : e = [d EXCEPT !.requests = r, !.wire = v, !.streaming = on]
      OBVIOUS
    <3>2. device' = e
      BY <1>4, <1>5, <1>6, <1>7, <2>1, <3>1
    <3>3. e \in DeviceSet /\ e.requests = r /\ e.fails = d.fails /\ e.wire = v
      BY <1>2, <3>1 DEF DeviceSet
    <3>4. e.fails = "no"
      BY <1>3, <3>3
    <3> QED
      BY <3>2, <3>3, <3>4
  <2>2. CASE Head(d.requests) = Zero /\ device' = [d EXCEPT !.requests = Tail(@)]
    <3>1. PICK e : e = [d EXCEPT !.requests = r]
      OBVIOUS
    <3>2. device' = e
      BY <1>4, <1>5, <2>2, <3>1
    <3>3. e \in DeviceSet /\ e.requests = r /\ e.fails = d.fails /\ e.wire = d.wire
      BY <1>2, <3>1 DEF DeviceSet
    <3> QED
      BY <1>3, <1>4, <1>5, <2>2, <3>2, <3>3
  <2> QED
    BY <1>3, <2>1, <2>2
<1>9. CorrectionInv(t, e, s, z)
  BY <1>2 DEF CorrectionInv
<1>10. NoOne(w) /\ AllZero(q) => NoOne(e.wire) /\ AllZero(r)
  <2>1. SUFFICES ASSUME NoOne(w), AllZero(q) PROVE NoOne(e.wire) /\ AllZero(r)
    OBVIOUS
  <2>2. x = Zero /\ AllZero(r)
    <3>1. /\ x = q[1] /\ Len(q) \in Nat /\ Len(q) > 0 /\ Len(r) = Len(q) - 1
          /\ \A n \in 1..Len(q) - 1 : r[n] = q[n + 1]
      BY <1>3, <1>4, <1>5, Requests
    <3>2. \A n \in 1..Len(q) : q[n] = Zero
      BY <2>1 DEF AllZero
    <3>3. x = Zero
      BY <3>1, <3>2
    <3>4. \A n \in 1..Len(r) : r[n] = Zero
      BY <3>1, <3>2
    <3> QED
      BY <3>3, <3>4 DEF AllZero
  <2>3. NoOne(v)
    BY <1>6, <2>1, <2>2, NoOneReply
  <2> QED
    BY <1>8, <2>1, <2>2, <2>3
<1>11. Configuring(w, q, i) => Configuring(e.wire, r, i)
  <2>1. SUFFICES ASSUME Configuring(w, q, i) PROVE Configuring(e.wire, r, i)
    OBVIOUS
  <2>2. i \in 0..2 /\ q # <<>>
    BY <1>3, <1>4
  <2>3. Configuring(v, r, i) /\ (x = Zero => Configuring(w, r, i))
    BY <1>5, <1>6, <2>1, <2>2, Answered
  <2> QED
    BY <1>8, <2>3
<1>12. ~ InStep(w, q, i)
  BY <1>3, <1>4 DEF InStep
<1>13. RazorInv(t, e, s, z)
  BY <1>2, <1>3, <1>4, <1>8, <1>10, <1>11, <1>12 DEF RazorInv
<1> QED
  BY <1>2, <1>3, <1>8, <1>9, <1>13 DEF TrackerInv, Consistent

\* A thread that ends, or takes errors for characters.
LEMMA ThreadEnds ==
  ASSUME NEW t, NEW d, NEW s, NEW z, Consistent(t, d, s, z), t.kind # NoKind,
         NEW pc \in {"ended", "spins"}, pc = "spins" => t.kind # "razor"
  PROVE  Consistent([t EXCEPT !.pc = pc], d, s, z)
<1>1. t \in TrackerSet /\ d \in DeviceSet /\ s \in Int /\ z \in Int
      /\ CorrectionInv(t, d, s, z) /\ RazorInv(t, d, s, z)
  BY DEF Consistent
<1>2. PICK u : u = [t EXCEPT !.pc = pc]
  OBVIOUS
<1>3. /\ u \in TrackerSet /\ u.kind = t.kind /\ u.pc = pc /\ u.corr = t.corr
      /\ u.current = t.current /\ u.init = t.init /\ u.input = t.input /\ u.yaw = t.yaw
  BY <1>1, <1>2, Places DEF TrackerSet
<1>4. CorrectionInv(u, d, s, z)
  BY <1>1, <1>3 DEF CorrectionInv
<1>5. RazorInv(u, d, s, z)
  BY <1>1, <1>3 DEF RazorInv
<1> QED
  BY <1>1, <1>2, <1>3, <1>4, <1>5 DEF Consistent

LEMMA TrackerEnds ==
  ASSUME TrackerInv, tracker.kind # NoKind, End PROVE TrackerInv'
<1>1. Consistent([tracker EXCEPT !.pc = "ended"], device, seen, zero)
  BY ThreadEnds DEF TrackerInv
<1> QED
  BY <1>1 DEF End, TrackerInv

\* A number is taken from the wire.
LEMMA NumberTaken ==
  ASSUME NEW d \in DeviceSet, d.wire # <<>>
  PROVE  LET e == [d EXCEPT !.wire = Tail(@)]
         IN  /\ e \in DeviceSet /\ e.wire = Tail(d.wire) /\ e.requests = d.requests
             /\ e.fails = d.fails
<1>1. PICK w \in Seq(Int) : w = Tail(d.wire)
  <2>1. PICK v \in Seq(Int) : v = d.wire
    BY DeviceFields
  <2>2. Tail(v) \in Seq(Int)
    BY <2>1, TailOfWire
  <2> QED
    BY <2>1, <2>2
<1>2. PICK e : e = [d EXCEPT !.wire = w]
  OBVIOUS
<1>3. e \in DeviceSet /\ e.wire = w /\ e.requests = d.requests /\ e.fails = d.fails
  BY <1>2 DEF DeviceSet
<1> QED
  BY <1>1, <1>2, <1>3

\* The VRPN tracker and the Polhemus: what is read is current, or 0 and unknown.
LEMMA ReportTaken ==
  ASSUME NEW t, NEW d, NEW s, NEW z, Consistent(t, d, s, z),
         t.kind \in {"vrpn", "polhemus"}, NEW e \in DeviceSet,
         NEW current \in Int, NEW pc \in {"read", "publish", "ended"}
  PROVE  /\ Consistent([t EXCEPT !.current = current, !.pc = pc], e, current, z)
         /\ Consistent([t EXCEPT !.current = current, !.pc = pc], e, Unknown, z)
<1>1. t \in TrackerSet /\ s \in Int /\ z \in Int /\ CorrectionInv(t, d, s, z)
  BY DEF Consistent
<1>2. PICK u : u = [t EXCEPT !.current = current, !.pc = pc]
  OBVIOUS
<1>3. /\ u \in TrackerSet /\ u.kind = t.kind /\ u.pc = pc /\ u.corr = t.corr
      /\ u.current = current
  BY <1>1, <1>2, Places DEF TrackerSet
<1>4. t.kind # NoKind /\ t.kind # "razor" /\ t.kind # "intersense"
  BY NoKinds DEF Kinds
<1>5. CorrectionInv(u, e, current, z) /\ CorrectionInv(u, e, Unknown, z)
  BY <1>1, <1>3, <1>4 DEF CorrectionInv
<1>6. RazorInv(u, e, current, z) /\ RazorInv(u, e, Unknown, z)
  BY <1>3, <1>4 DEF RazorInv
<1> QED
  BY <1>1, <1>2, <1>3, <1>5, <1>6, Bytes DEF Consistent

LEMMA VrpnReads ==
  ASSUME TrackerInv, tracker.kind # NoKind, VrpnRead PROVE TrackerInv'
<1>1. CASE End
  BY <1>1, TrackerEnds
<1>2. CASE ~ End
  <2>1. PICK t, d, s, z : t = tracker /\ d = device /\ s = seen /\ z = zero
    OBVIOUS
  <2>2. Consistent(t, d, s, z) /\ t.kind = "vrpn" /\ d.wire # <<>>
    BY <1>2, <2>1 DEF TrackerInv, VrpnRead
  <2>3. /\ tracker' = [t EXCEPT !.current = Head(d.wire), !.pc = "publish"]
        /\ seen' = Head(d.wire) /\ device' = [d EXCEPT !.wire = Tail(@)] /\ zero' = z
    BY <1>2, <2>1 DEF VrpnRead, Take
  <2>4. d \in DeviceSet
    BY <2>2 DEF Consistent
  <2>5. PICK x \in Int : x = Head(d.wire)
    <3>1. PICK w \in Seq(Int) : w = d.wire
      BY <2>4, DeviceFields
    <3> QED
      BY <2>2, <3>1, TailOfWire
  <2>6. PICK e \in DeviceSet : e = [d EXCEPT !.wire = Tail(@)]
    BY <2>2, <2>4, NumberTaken
  <2>7. Consistent([t EXCEPT !.current = x, !.pc = "publish"], e, x, z)
    BY <2>2, ReportTaken
  <2> QED
    BY <2>3, <2>5, <2>6, <2>7 DEF TrackerInv
<1> QED
  BY <1>1, <1>2

LEMMA PolhemusReads ==
  ASSUME TrackerInv, tracker.kind # NoKind, PolhemusRead PROVE TrackerInv'
<1>1. PICK t, d, s, z : t = tracker /\ d = device /\ s = seen /\ z = zero
  OBVIOUS
<1>2. Consistent(t, d, s, z) /\ t.kind = "polhemus" /\ d.wire # <<>>
  BY <1>1 DEF TrackerInv, PolhemusRead
<1>3. /\ device' = [d EXCEPT !.wire = Tail(@)] /\ zero' = z
      /\ \/ /\ tracker' = [t EXCEPT !.current = 0, !.pc = Loop] /\ seen' = Unknown
         \/ /\ tracker' = [t EXCEPT !.current = Head(d.wire), !.pc = "publish"]
            /\ seen' = Head(d.wire)
  BY <1>1, Zenon DEF PolhemusRead, Take
<1>4. d \in DeviceSet
  BY <1>2 DEF Consistent
<1>5. PICK x \in Int : x = Head(d.wire)
  <2>1. PICK w \in Seq(Int) : w = d.wire
    BY <1>4, DeviceFields
  <2> QED
    BY <1>2, <2>1, TailOfWire
<1>6. PICK e \in DeviceSet : e = [d EXCEPT !.wire = Tail(@)]
  BY <1>2, <1>4, NumberTaken
<1>7. PICK pc \in {"read", "publish", "ended"} : pc = Loop
  BY DEF Loop
<1>8. Consistent([t EXCEPT !.current = 0, !.pc = pc], e, Unknown, z)
  <2>1. 0 \in Int
    OBVIOUS
  <2> QED
    BY <1>2, <2>1, ReportTaken
<1>9. Consistent([t EXCEPT !.current = x, !.pc = "publish"], e, x, z)
  BY <1>2, ReportTaken
<1> QED
  BY <1>3, <1>5, <1>6, <1>7, <1>8, <1>9, Zenon DEF TrackerInv

LEMMA PolhemusEnds ==
  ASSUME TrackerInv, tracker.kind # NoKind, PolhemusGivesUp PROVE TrackerInv'
<1>1. CASE End
  BY <1>1, TrackerEnds
<1>2. CASE ~ End
  <2>1. /\ tracker' = [tracker EXCEPT !.pc = "spins"]
        /\ device' = device /\ seen' = seen /\ zero' = zero
    BY <1>2 DEF PolhemusGivesUp
  <2>2. tracker.kind # "razor"
    BY DEF PolhemusGivesUp
  <2>3. Consistent([tracker EXCEPT !.pc = "spins"], device, seen, zero)
    BY <2>2, ThreadEnds DEF TrackerInv
  <2> QED
    BY <2>1, <2>3 DEF TrackerInv
<1> QED
  BY <1>1, <1>2

LEMMA InterSenseReads ==
  ASSUME TrackerInv, tracker.kind # NoKind, InterSenseRead PROVE TrackerInv'
<1>1. CASE End
  BY <1>1, TrackerEnds
<1>2. CASE ~ End
  <2>1. PICK t, d : t = tracker /\ d = device
    OBVIOUS
  <2>2. t \in TrackerSet /\ d \in DeviceSet /\ CorrectionInv(t, d, seen, zero)
    BY <2>1 DEF TrackerInv, Consistent
  <2>3. /\ t.kind = "intersense" /\ device' = d
        /\ tracker' = [t EXCEPT !.current = d.azimuth - d.heading, !.pc = "publish"]
        /\ seen' = d.azimuth /\ zero' = d.heading
    BY <1>2, <2>1 DEF InterSenseRead
  <2>4. PICK x \in Int, y \in Int : x = d.azimuth /\ y = d.heading
    BY <2>2, DeviceFields
  <2>5. PICK current \in Int : current = x - y
    OBVIOUS
  <2>6. PICK u : u = [t EXCEPT !.current = current, !.pc = "publish"]
    OBVIOUS
  <2>7. /\ u \in TrackerSet /\ u.kind = "intersense" /\ u.pc = "publish" /\ u.corr = t.corr
        /\ u.current = current
    BY <2>2, <2>3, <2>6, Places DEF TrackerSet
  <2>8. CorrectionInv(u, d, x, y) /\ RazorInv(u, d, x, y)
    BY <2>2, <2>3, <2>5, <2>7, NoKinds DEF CorrectionInv, RazorInv
  <2> QED
    BY <2>2, <2>3, <2>4, <2>5, <2>6, <2>7, <2>8 DEF TrackerInv, Consistent
<1> QED
  BY <1>1, <1>2

\* The head of the loop, after publishing.
LEMMA Published ==
  ASSUME TrackerInv, tracker.kind # NoKind, Publish PROVE TrackerInv'
<1>1. PICK t, d, s, z : t = tracker /\ d = device /\ s = seen /\ z = zero
  OBVIOUS
<1>2. /\ t \in TrackerSet /\ d \in DeviceSet /\ s \in Int /\ z \in Int /\ t.kind # NoKind
      /\ CorrectionInv(t, d, s, z) /\ RazorInv(t, d, s, z)
  BY <1>1 DEF TrackerInv, Consistent
<1>3. /\ t.pc = "publish" /\ tracker' = [t EXCEPT !.pc = Loop]
      /\ device' = d /\ seen' = s /\ zero' = z
  BY <1>1 DEF Publish
<1>4. PICK pc \in {"read", "ended"} : pc = Loop
  BY DEF Loop
<1>5. PICK u : u = [t EXCEPT !.pc = pc]
  OBVIOUS
<1>6. /\ u \in TrackerSet /\ u.kind = t.kind /\ u.pc = pc /\ u.corr = t.corr
      /\ u.current = t.current /\ u.init = t.init /\ u.input = t.input /\ u.yaw = t.yaw
  BY <1>2, <1>5, Places DEF TrackerSet
<1>7. CorrectionInv(u, d, s, z)
  BY <1>2, <1>6 DEF CorrectionInv
<1>8. RazorInv(u, d, s, z)
  BY <1>2, <1>3, <1>6 DEF RazorInv
<1> QED
  BY <1>2, <1>3, <1>4, <1>5, <1>6, <1>7, <1>8 DEF TrackerInv, Consistent

LEMMA RazorAsks ==
  ASSUME TrackerInv, tracker.kind = "razor", RazorAsksAgain PROVE TrackerInv'
<1>1. PICK t, d, s, z : t = tracker /\ d = device /\ s = seen /\ z = zero
  OBVIOUS
<1>2. /\ t \in TrackerSet /\ d \in DeviceSet /\ s \in Int /\ z \in Int /\ t.kind = "razor"
      /\ CorrectionInv(t, d, s, z) /\ RazorInv(t, d, s, z)
  BY <1>1 DEF TrackerInv, Consistent
<1>3. /\ t.pc = "contact" /\ tracker' = t /\ seen' = s /\ zero' = z
      /\ device' = [d EXCEPT !.requests = Append(@, Zero), !.repeated = @ + 1]
  BY <1>1 DEF RazorAsksAgain
<1>4. PICK q \in Seq({Zero, One}) : q = d.requests
  BY <1>2, DeviceFields
<1>5. PICK r \in Seq({Zero, One}) : r = Append(q, Zero)
  BY ShortSequences
<1>6. PICK n \in Int : n = d.repeated + 1
  <2>1. d.repeated + 1 \in Int
    BY <1>2, DeviceFields
  <2> QED
    BY <2>1
<1>7. PICK e : e = [d EXCEPT !.requests = r, !.repeated = n]
  OBVIOUS
<1>8. device' = e
  BY <1>3, <1>4, <1>5, <1>6, <1>7
<1>9. e \in DeviceSet /\ e.wire = d.wire /\ e.requests = r /\ e.fails = d.fails
  BY <1>2, <1>7 DEF DeviceSet
<1>10. AllZero(q) => AllZero(r)
  <2>1. /\ Len(r) = Len(q) + 1 /\ Len(q) \in Nat /\ r[Len(q) + 1] = Zero
        /\ \A i \in 1..Len(q) : r[i] = q[i]
    BY <1>5, ShortSequences
  <2>2. \A i \in 1..Len(r) : i \in 1..Len(q) \/ i = Len(q) + 1
    BY <2>1
  <2> QED
    BY <2>1, <2>2 DEF AllZero
<1>11. CorrectionInv(t, e, s, z)
  BY <1>2, <1>3, NoKinds DEF CorrectionInv
<1>12. RazorInv(t, e, s, z)
  BY <1>2, <1>3, <1>4, <1>9, <1>10 DEF RazorInv
<1> QED
  BY <1>2, <1>3, <1>8, <1>9, <1>11, <1>12 DEF TrackerInv, Consistent

\* A byte while the thread waits for a reply.
LEMMA RazorWaited ==
  ASSUME TrackerInv, tracker.kind = "razor",
         \/ RazorWaits("contact", contact_synch_reply, "configure")
         \/ RazorWaits("configure", config_synch_reply, "read")
  PROVE  TrackerInv'
<1>1. PICK t, d, s, z : t = tracker /\ d = device /\ s = seen /\ z = zero
  OBVIOUS
<1>2. /\ t \in TrackerSet /\ d \in DeviceSet /\ s \in Int /\ z \in Int /\ t.kind = "razor"
      /\ CorrectionInv(t, d, s, z) /\ RazorInv(t, d, s, z)
  BY <1>1 DEF TrackerInv, Consistent
<1>3. /\ t.pc \in {"contact", "configure"} /\ d.wire # <<>> /\ seen' = s /\ zero' = z
  BY <1>1 DEF RazorWaits
<1>4. d.fails = "no"
  BY <1>2, <1>3 DEF RazorInv
<1>5. PICK w \in Seq(Int), q \in Seq({Zero, One}), i \in {0, 1, 2} :
        w = d.wire /\ q = d.requests /\ i = t.input
  BY <1>2, TrackerFields, DeviceFields
<1>6. PICK v \in Seq(Int) : v = Tail(w)
  BY <1>3, <1>5, TailOfWire
<1>7. CASE RazorWaits("contact", contact_synch_reply, "configure")
  <2>1. PICK p \in {0, 1, 2, 3} :
          p = IF Head(w) = contact_synch_reply[i + 1] THEN i + 1 ELSE 0
    OBVIOUS
  <2>2. p = _read_token(contact_synch_reply, Head(w))
    BY <1>1, <1>5, <2>1 DEF _read_token
  <2>3. Len(contact_synch_reply) = 3 /\ "configure" = "configure"
    BY DEF contact_synch_reply
  <2>4. /\ t.pc = "contact"
        /\ p = 3 => /\ tracker' = [t EXCEPT !.input = 0, !.pc = "configure"]
                    /\ device' = [d EXCEPT !.wire = Tail(@), !.requests = Append(@, One)]
        /\ p # 3 => tracker' = [t EXCEPT !.input = p] /\ device' = [d EXCEPT !.wire = Tail(@)]
    BY <1>1, <1>5, <1>7, <2>2, <2>3 DEF RazorWaits, Take
  <2>5. NoOne(w) /\ AllZero(q)
    BY <1>2, <1>4, <1>5, <2>4 DEF RazorInv
  <2>6. NoOne(v)
    BY <1>3, <1>5, <1>6, <2>5, NoOneTaken
  <2>7. CASE p = 3
    <3>1. PICK r \in Seq({Zero, One}) : r = Append(q, One)
      BY ShortSequences
    <3>2. PICK u : u = [t EXCEPT !.input = 0, !.pc = "configure"]
      OBVIOUS
    <3>3. PICK e : e = [d EXCEPT !.wire = v, !.requests = r]
      OBVIOUS
    <3>4. tracker' = u /\ device' = e
      BY <1>5, <1>6, <2>4, <2>7, <3>1, <3>2, <3>3
    <3>5. /\ u \in TrackerSet /\ u.kind = t.kind /\ u.pc = "configure" /\ u.corr = t.corr
          /\ u.current = t.current /\ u.init = t.init /\ u.input = 0 /\ u.yaw = t.yaw
      BY <1>2, <3>2, Places DEF TrackerSet
    <3>6. e \in DeviceSet /\ e.wire = v /\ e.requests = r /\ e.fails = d.fails
      BY <1>2, <3>3 DEF DeviceSet
    <3>7. ToConfigure(v, r, 0)
      <4>1. /\ Len(r) = Len(q) + 1 /\ Len(q) \in Nat /\ r[Len(q) + 1] = One
            /\ \A n \in 1..Len(q) : r[n] = q[n]
        BY <3>1, ShortSequences
      <4>2. r # <<>>
        BY <4>1, ShortSequences
      <4>3. \A n \in 1..Len(r) - 1 : r[n] = Zero
        BY <2>5, <4>1 DEF AllZero
      <4>4. r[Len(r)] = One
        BY <4>1
      <4> QED
        BY <2>6, <4>2, <4>3, <4>4 DEF ToConfigure
    <3>8. CorrectionInv(u, e, s, z)
      BY <1>2, <3>5, NoKinds DEF CorrectionInv
    <3>9. RazorInv(u, e, s, z)
      BY <1>2, <1>4, <3>5, <3>6, <3>7 DEF RazorInv, Configuring
    <3> QED
      BY <1>2, <1>3, <3>4, <3>5, <3>6, <3>8, <3>9 DEF TrackerInv, Consistent
  <2>8. CASE p # 3
    <3>1. PICK u : u = [t EXCEPT !.input = p]
      OBVIOUS
    <3>2. PICK e : e = [d EXCEPT !.wire = v]
      OBVIOUS
    <3>3. tracker' = u /\ device' = e
      BY <1>5, <1>6, <2>4, <2>8, <3>1, <3>2
    <3>4. /\ u \in TrackerSet /\ u.kind = t.kind /\ u.pc = t.pc /\ u.corr = t.corr
          /\ u.current = t.current /\ u.init = t.init /\ u.input = p /\ u.yaw = t.yaw
      BY <1>2, <2>8, <3>1 DEF TrackerSet
    <3>5. e \in DeviceSet /\ e.wire = v /\ e.requests = q /\ e.fails = d.fails
      BY <1>2, <1>5, <3>2 DEF DeviceSet
    <3>6. CorrectionInv(u, e, s, z)
      BY <1>2, <1>3, <3>4, NoKinds DEF CorrectionInv
    <3>7. RazorInv(u, e, s, z)
      BY <1>2, <1>4, <2>4, <2>5, <2>6, <3>4, <3>5 DEF RazorInv
    <3> QED
      BY <1>2, <1>3, <3>3, <3>4, <3>5, <3>6, <3>7 DEF TrackerInv, Consistent
  <2> QED
    BY <2>7, <2>8
<1>8. CASE RazorWaits("configure", config_synch_reply, "read")
  <2>1. PICK p \in {0, 1, 2, 3} :
          p = IF Head(w) = config_synch_reply[i + 1] THEN i + 1 ELSE 0
    OBVIOUS
  <2>2. p = _read_token(config_synch_reply, Head(w))
    BY <1>1, <1>5, <2>1 DEF _read_token
  <2>3. Len(config_synch_reply) = 3
    BY DEF config_synch_reply
  <2>4. /\ t.pc = "configure"
        /\ device' = [d EXCEPT !.wire = Tail(@)]
        /\ p = 3 => tracker' = [t EXCEPT !.input = 0, !.pc = "read"]
        /\ p # 3 => tracker' = [t EXCEPT !.input = p]
    <3>1. /\ p = 3 => /\ tracker' = [t EXCEPT !.input = 0, !.pc = "read"]
                      /\ device' = [d EXCEPT !.wire = Tail(@), !.requests = @]
          /\ p # 3 => tracker' = [t EXCEPT !.input = p] /\ device' = [d EXCEPT !.wire = Tail(@)]
      BY <1>1, <1>5, <1>8, <2>2, <2>3 DEF RazorWaits, Take
    <3>2. [d EXCEPT !.wire = Tail(@), !.requests = @] = [d EXCEPT !.wire = Tail(@)]
      BY <1>2 DEF DeviceSet
    <3> QED
      BY <1>1, <1>8, <3>1, <3>2 DEF RazorWaits
  <2>5. Configuring(w, q, i)
    BY <1>2, <1>4, <1>5, <2>4 DEF RazorInv
  <2>6. /\ p = 3 => q = <<>> /\ Frames(v, 0)
        /\ p # 3 => Configuring(v, q, p)
    <3>1. i \in 0..2 /\ w # <<>>
      BY <1>3, <1>5
    <3> QED
      <4>1. p = IF Head(w) = config_synch_reply[i + 1] THEN i + 1 ELSE 0
        BY <2>1
      <4>2. /\ p = 3 => q = <<>> /\ Frames(Tail(w), 0)
            /\ p # 3 => Configuring(Tail(w), q, p)
        BY <2>5, <3>1, <4>1, ReplyTaken, Zenon
      <4> QED
        BY <1>6, <4>2
  <2>7. PICK e : e = [d EXCEPT !.wire = v]
    OBVIOUS
  <2>8. device' = e
    BY <1>5, <1>6, <2>4, <2>7
  <2>9. e \in DeviceSet /\ e.wire = v /\ e.requests = q /\ e.fails = d.fails
    BY <1>2, <1>5, <2>7 DEF DeviceSet
  <2>10. CASE p = 3
    <3>1. PICK u : u = [t EXCEPT !.input = 0, !.pc = "read"]
      OBVIOUS
    <3>2. tracker' = u
      BY <2>4, <2>10, <3>1
    <3>3. /\ u \in TrackerSet /\ u.kind = t.kind /\ u.pc = "read" /\ u.corr = t.corr
          /\ u.current = t.current /\ u.init = t.init /\ u.input = 0 /\ u.yaw = t.yaw
      BY <1>2, <3>1, Places DEF TrackerSet
    <3>4. CorrectionInv(u, e, s, z)
      BY <1>2, <3>3, NoKinds DEF CorrectionInv
    <3>5. InStep(v, q, 0)
      BY <2>6, <2>10 DEF InStep
    <3>6. RazorInv(u, e, s, z)
      BY <1>2, <1>4, <2>9, <3>3, <3>5 DEF RazorInv
    <3> QED
      BY <1>2, <1>3, <2>8, <2>9, <3>2, <3>3, <3>4, <3>6 DEF TrackerInv, Consistent
  <2>11. CASE p # 3
    <3>1. PICK u : u = [t EXCEPT !.input = p]
      OBVIOUS
    <3>2. tracker' = u
      BY <2>4, <2>11, <3>1
    <3>3. /\ u \in TrackerSet /\ u.kind = t.kind /\ u.pc = t.pc /\ u.corr = t.corr
          /\ u.current = t.current /\ u.init = t.init /\ u.input = p /\ u.yaw = t.yaw
      BY <1>2, <2>11, <3>1 DEF TrackerSet
    <3>4. CorrectionInv(u, e, s, z)
      BY <1>2, <1>3, <3>3, NoKinds DEF CorrectionInv
    <3>5. RazorInv(u, e, s, z)
      BY <1>2, <1>4, <2>4, <2>6, <2>9, <2>11, <3>3 DEF RazorInv
    <3> QED
      BY <1>2, <1>3, <2>8, <2>9, <3>2, <3>3, <3>4, <3>5 DEF TrackerInv, Consistent
  <2> QED
    BY <2>10, <2>11
<1> QED
  BY <1>7, <1>8

\* A number of a frame.
LEMMA FrameRead ==
  ASSUME TrackerInv, tracker.kind = "razor", RazorFrame PROVE TrackerInv'
<1>1. PICK t, d, s, z : t = tracker /\ d = device /\ s = seen /\ z = zero
  OBVIOUS
<1>2. /\ t \in TrackerSet /\ d \in DeviceSet /\ s \in Int /\ z \in Int /\ t.kind = "razor"
      /\ CorrectionInv(t, d, s, z) /\ RazorInv(t, d, s, z)
  BY <1>1 DEF TrackerInv, Consistent
<1>3. /\ t.pc = "read" /\ d.wire # <<>> /\ device' = [d EXCEPT !.wire = Tail(@)]
      /\ t.input = 0 => /\ tracker' = [t EXCEPT !.input = 1, !.yaw = Head(d.wire)]
                        /\ seen' = s /\ zero' = z
      /\ t.input # 0 =>
           /\ tracker' = [t EXCEPT
                !.input = 0, !.current = t.yaw, !.init = FALSE, !.pc = "publish",
                !.corr = IF t.init THEN t.yaw + 1 ELSE @]
           /\ seen' = t.yaw
           /\ zero' = IF t.init THEN t.yaw ELSE z
  BY <1>1 DEF RazorFrame, Take
<1>4. PICK w \in Seq(Int), q \in Seq({Zero, One}), i \in {0, 1, 2} :
        w = d.wire /\ q = d.requests /\ i = t.input
  BY <1>2, TrackerFields, DeviceFields
<1>5. d.fails = "no" /\ q = <<>> /\ i \in 0..1 /\ Frames(w, i)
  BY <1>2, <1>3, <1>4 DEF RazorInv, InStep
<1>6. PICK v \in Seq(Int) : v = Tail(w)
  BY <1>3, <1>4, TailOfWire
<1>7. PICK e : e = [d EXCEPT !.wire = v]
  OBVIOUS
<1>8. device' = e
  BY <1>3, <1>4, <1>6, <1>7
<1>9. e \in DeviceSet /\ e.wire = v /\ e.requests = q /\ e.fails = "no"
  BY <1>2, <1>4, <1>5, <1>7 DEF DeviceSet
<1>10. CASE i = 0
  <2>1. PICK x \in Int : x = Head(w) /\ x \in Azimuths /\ Frames(w, 2)
    BY <1>3, <1>4, <1>5, <1>10, FirstOfFrame, TailOfWire
  <2>2. Frames(v, 1)
    <3>1. PICK k \in Nat : k = 2
      OBVIOUS
    <3>2. k > 0 /\ Frames(w, k) /\ w # <<>> /\ k - 1 = 1
      BY <1>3, <1>4, <2>1, <3>1
    <3>3. Frames(Tail(w), k - 1)
      BY <3>2, FewerBefore
    <3> QED
      BY <1>6, <3>2, <3>3
  <2>3. PICK u : u = [t EXCEPT !.input = 1, !.yaw = x]
    OBVIOUS
  <2>4. tracker' = u /\ seen' = s /\ zero' = z
    BY <1>3, <1>4, <1>10, <2>1, <2>3
  <2>5. /\ u \in TrackerSet /\ u.kind = t.kind /\ u.pc = t.pc /\ u.corr = t.corr
        /\ u.current = t.current /\ u.init = t.init /\ u.input = 1 /\ u.yaw = x
    BY <1>2, <2>3 DEF TrackerSet
  <2>6. CorrectionInv(u, e, s, z)
    BY <1>2, <1>3, <2>5, NoKinds DEF CorrectionInv
  <2>7. InStep(v, q, 1)
    BY <1>5, <2>2 DEF InStep
  <2>8. RazorInv(u, e, s, z)
    BY <1>2, <1>3, <1>9, <2>1, <2>5, <2>7 DEF RazorInv
  <2> QED
    BY <1>2, <1>8, <1>9, <2>4, <2>5, <2>6, <2>8 DEF TrackerInv, Consistent
<1>11. CASE i = 1
  <2>1. PICK x \in Int : x = t.yaw /\ x \in Azimuths
    BY <1>2, <1>3, <1>4, <1>11, Bytes DEF RazorInv
  <2>2. Frames(v, 0)
    <3>1. PICK k \in Nat : k = 1
      OBVIOUS
    <3>2. k > 0 /\ Frames(w, k) /\ w # <<>> /\ k - 1 = 0
      BY <1>3, <1>4, <1>5, <1>11, <3>1
    <3>3. Frames(Tail(w), k - 1)
      BY <3>2, FewerBefore
    <3> QED
      BY <1>6, <3>2, <3>3
  <2>3. PICK corr \in Int, y \in Int :
          /\ corr = IF t.init THEN x + 1 ELSE t.corr
          /\ y = IF t.init THEN x ELSE z
    <3>1. x + 1 \in Int /\ t.corr \in Int
      BY <1>2, TrackerFields
    <3>2. CASE t.init
      BY <3>1, <3>2
    <3>3. CASE ~ t.init
      BY <1>2, <3>1, <3>3
    <3> QED
      BY <3>2, <3>3
  <2>4. PICK u : u = [t EXCEPT !.input = 0, !.current = x, !.init = FALSE, !.pc = "publish",
                               !.corr = corr]
    OBVIOUS
  <2>5. tracker' = u /\ seen' = x /\ zero' = y
    BY <1>3, <1>4, <1>11, <2>1, <2>3, <2>4
  <2>6. /\ u \in TrackerSet /\ u.kind = t.kind /\ u.pc = "publish" /\ u.corr = corr
        /\ u.current = x /\ u.init = FALSE /\ u.input = 0
    BY <1>2, <2>4, Places DEF TrackerSet
  <2>7. y \in Azimuths
    BY <1>2, <2>1, <2>3 DEF RazorInv
  <2>8. CorrectionInv(u, e, x, y)
    <3>1. y # Unknown => corr = y + 1
      BY <1>2, <2>3 DEF CorrectionInv
    <3> QED
      BY <1>2, <2>6, <3>1, NoKinds DEF CorrectionInv
  <2>9. InStep(v, q, 0)
    BY <1>5, <2>2 DEF InStep
  <2>10. RazorInv(u, e, x, y)
    BY <1>9, <2>1, <2>6, <2>7, <2>9 DEF RazorInv
  <2> QED
    BY <1>8, <1>9, <2>5, <2>6, <2>8, <2>10 DEF TrackerInv, Consistent
<1> QED
  BY <1>5, <1>10, <1>11

\* The main thread tells the thread to stop, and takes the pointer away.
LEMMA TrackerStopped ==
  ASSUME NEW t, NEW d, NEW s, NEW z, Consistent(t, d, s, z)
  PROVE  /\ Consistent([t EXCEPT !.stopped = TRUE], d, s, z)
         /\ Consistent([t EXCEPT !.ready = FALSE], d, s, z)
<1>1. t \in TrackerSet /\ d \in DeviceSet /\ s \in Int /\ z \in Int
      /\ CorrectionInv(t, d, s, z) /\ RazorInv(t, d, s, z)
  BY DEF Consistent
<1>2. ASSUME NEW u, u = [t EXCEPT !.stopped = TRUE] \/ u = [t EXCEPT !.ready = FALSE]
      PROVE  Consistent(u, d, s, z)
  <2>1. /\ u \in TrackerSet /\ u.kind = t.kind /\ u.pc = t.pc /\ u.corr = t.corr
        /\ u.current = t.current /\ u.init = t.init /\ u.input = t.input /\ u.yaw = t.yaw
        /\ u.ready => t.ready
    BY <1>1, <1>2 DEF TrackerSet
  <2>2. CorrectionInv(u, d, s, z)
    BY <1>1, <2>1 DEF CorrectionInv
  <2>3. RazorInv(u, d, s, z)
    BY <1>1, <2>1 DEF RazorInv
  <2> QED
    BY <1>1, <2>1, <2>2, <2>3 DEF Consistent
<1> QED
  BY <1>2

LEMMA CreationFinished ==
  ASSUME TrackerInv, FinishCreation PROVE TrackerInv'
<1>1. PICK t, d, s, z : t = tracker /\ d = device /\ s = seen /\ z = zero
  OBVIOUS
<1>2. Consistent(t, d, s, z) /\ t.kind \in Kinds /\ t.kind # NoKind /\ seen' = s
  BY <1>1, NoKinds DEF TrackerInv, FinishCreation
<1>3. CASE t.kind = "razor"
  <2>1. tracker' = [t EXCEPT !.ready = TRUE] /\ device' = d /\ zero' = z
    BY <1>1, <1>3 DEF FinishCreation
  <2> QED
    BY <1>2, <1>3, <2>1, TrackerCalibrated DEF TrackerInv
<1>4. CASE t.kind = "intersense"
  <2>1. /\ device' = [d EXCEPT !.heading = d.azimuth]
        /\ tracker' = [t EXCEPT !.ready = TRUE] /\ zero' = z
    BY <1>1, <1>4 DEF FinishCreation
  <2> QED
    BY <1>2, <1>4, <2>1, TrackerCalibrated DEF TrackerInv
<1>5. CASE t.kind \notin {"razor", "intersense"}
  <2>1. /\ tracker' = [t EXCEPT !.ready = TRUE, !.corr = t.current + 1]
        /\ zero' = s /\ device' = d
    BY <1>1, <1>5 DEF FinishCreation
  <2> QED
    BY <1>2, <1>5, <2>1, TrackerCalibrated DEF TrackerInv
<1> QED
  BY <1>3, <1>4, <1>5

LEMMA CalibrationCalled ==
  ASSUME TrackerInv, calibrate_client PROVE TrackerInv'
<1>1. PICK t, d, s, z : t = tracker /\ d = device /\ s = seen /\ z = zero
  OBVIOUS
<1>2. Consistent(t, d, s, z) /\ t.ready /\ seen' = s
  BY <1>1 DEF TrackerInv, calibrate_client
<1>3. t \in TrackerSet /\ t.kind # NoKind
  BY <1>2 DEF Consistent, CorrectionInv
<1>4. PICK ready \in BOOLEAN : ready = t.ready
  BY <1>3, TrackerFields
<1>5. [t EXCEPT !.ready = ready] = t /\ ready = TRUE
  BY <1>2, <1>3, <1>4 DEF TrackerSet
<1>6. CASE t.kind = "intersense"
  <2>1. device' = [d EXCEPT !.heading = d.azimuth] /\ tracker' = t /\ zero' = z
    BY <1>1, <1>6 DEF calibrate_client, Calibrate
  <2>2. Consistent([t EXCEPT !.ready = ready], [d EXCEPT !.heading = d.azimuth], s, z)
    BY <1>2, <1>3, <1>6, TrackerCalibrated
  <2> QED
    BY <1>2, <1>5, <2>1, <2>2 DEF TrackerInv
<1>7. CASE t.kind # "intersense"
  <2>1. tracker' = [t EXCEPT !.corr = t.current + 1] /\ zero' = s /\ device' = d
    BY <1>1, <1>7 DEF calibrate_client, Calibrate
  <2>2. Consistent([t EXCEPT !.ready = ready, !.corr = t.current + 1], d, s, s)
    BY <1>2, <1>3, <1>7, TrackerCalibrated
  <2>3. [t EXCEPT !.ready = ready, !.corr = t.current + 1] = [t EXCEPT !.corr = t.current + 1]
    <3>1. PICK corr \in Int : corr = t.current + 1
      <4>1. t.current + 1 \in Int
        BY <1>3, TrackerFields
      <4> QED
        BY <4>1
    <3>2. [t EXCEPT !.ready = ready, !.corr = corr] = [t EXCEPT !.corr = corr]
      BY <1>3, <1>4 DEF TrackerSet
    <3> QED
      BY <3>1, <3>2
  <2> QED
    BY <1>2, <2>1, <2>2, <2>3 DEF TrackerInv
<1> QED
  BY <1>6, <1>7

LEMMA TrackerSteps ==
  ASSUME TrackerInv, TrackerStep PROVE TrackerInv'
<1>1. tracker.kind # NoKind
  BY DEF TrackerStep, TrackerInv, Consistent, CorrectionInv
<1>2. CASE DeviceStep
  BY <1>1, <1>2, ReportSent, RequestHandled, DeviceFails DEF DeviceStep
<1>3. CASE ThreadReads
  <2>1. CASE RazorRead
    <3>1. tracker.kind = "razor"
      BY <2>1 DEF RazorRead
    <3> QED
      BY <2>1, <3>1, RazorWaited, FrameRead, Zenon DEF RazorRead
  <2> QED
    BY <1>1, <1>3, <2>1, VrpnReads, PolhemusReads, PolhemusEnds, InterSenseReads DEF ThreadReads
<1>4. CASE Publish
  BY <1>1, <1>4, Published
<1>5. CASE RazorEnds
  BY <1>1, <1>5, TrackerEnds DEF RazorEnds
<1>6. CASE RazorAgain
  BY <1>6, RazorAsks DEF RazorAgain
<1> QED
  BY <1>2, <1>3, <1>4, <1>5, <1>6 DEF TrackerStep, ThreadStep

\* No tracker before run().
TrackingInv ==
  /\ TrackerInv
  /\ phase \in {"started", "renderer", "recorder", "loaded", "constructed"} =>
       tracker.kind = NoKind

LEMMA TrackingAtFirst ==
  ProgramInit => TrackingInv
<1>1. SUFFICES ASSUME ProgramInit PROVE TrackingInv
  OBVIOUS
<1>2. PICK t, d : t = tracker /\ d = device
  OBVIOUS
<1>3. /\ t = NoTracker /\ seen = Unknown /\ zero = Unknown
      /\ d = [wire |-> <<>>, left |-> 0, requests |-> <<>>, repeated |-> 0,
              streaming |-> FALSE, azimuth |-> 0, heading |-> 0, fails |-> "no"]
  BY <1>1, <1>2, Zenon DEF ProgramInit, TrackerInit
<1>4. /\ t \in TrackerSet /\ t.kind = NoKind /\ t.pc = "none" /\ ~ t.ready
  BY <1>3, TrackerAtFirst
<1>5. d \in DeviceSet /\ d.wire = <<>> /\ d.requests = <<>>
  <2>1. <<>> \in Seq(Int) /\ <<>> \in Seq({Zero, One})
    BY ShortSequences
  <2> QED
    BY <1>3, <2>1 DEF DeviceSet
<1>6. CorrectionInv(t, d, Unknown, Unknown) /\ RazorInv(t, d, Unknown, Unknown)
  BY <1>4, <1>5, NoKinds DEF CorrectionInv, RazorInv
<1> QED
  BY <1>2, <1>3, <1>4, <1>5, <1>6, Bytes DEF TrackingInv, TrackerInv, Consistent

\* What does not touch the tracker.
LEMMA TrackingLeft ==
  ASSUME TrackingInv, UNCHANGED trackerVars,
         phase' \in {"started", "renderer", "recorder", "loaded", "constructed"} =>
           phase \in {"started", "renderer", "recorder", "loaded", "constructed"}
  PROVE  TrackingInv'
BY Zenon DEF TrackingInv, TrackerInv, trackerVars

LEMMA MainTracks ==
  ASSUME TrackingInv, Main PROVE TrackingInv'
<1>1. CASE Configure
  <2>1. UNCHANGED trackerVars /\ phase = "started"
    BY <1>1, Zenon DEF Configure
  <2> QED
    BY <2>1, TrackingLeft
<1>2. CASE OpenRenderer
  <2>1. UNCHANGED trackerVars /\ phase = "started"
    BY <1>2, Zenon DEF OpenRenderer
  <2> QED
    BY <2>1, TrackingLeft
<1>3. CASE LoadRecorder
  <2>1. UNCHANGED trackerVars /\ phase = "renderer"
    BY <1>3, Zenon DEF LoadRecorder
  <2> QED
    BY <2>1, TrackingLeft
<1>4. CASE LoadFirstScene
  <2>1. UNCHANGED trackerVars /\ phase = "recorder"
    BY <1>4, Zenon DEF LoadFirstScene
  <2> QED
    BY <2>1, TrackingLeft
<1>5. CASE StartServer
  <2>1. UNCHANGED trackerVars /\ phase = "loaded"
    BY <1>5, Zenon DEF StartServer
  <2> QED
    BY <2>1, TrackingLeft
<1>6. CASE StartTracker
  <2>1. phase = "constructed" /\ phase' \in {"tracking", "tracked"}
        /\ \/ conf.TRACKER \in Kinds /\ StartThread(conf.TRACKER)
           \/ UNCHANGED trackerVars
    BY <1>6 DEF StartTracker
  <2>2. CASE conf.TRACKER \in Kinds /\ StartThread(conf.TRACKER)
    <3>1. TrackerInv'
      BY <2>1, <2>2, TrackerStarts DEF TrackingInv
    <3> QED
      BY <2>1, <3>1 DEF TrackingInv
  <2> QED
    BY <2>1, <2>2, TrackingLeft
<1>7. CASE TrackerStarted
  <2>1. FinishCreation /\ phase' = "tracked"
    BY <1>7 DEF TrackerStarted
  <2> QED
    BY <2>1, CreationFinished DEF TrackingInv
<1>8. CASE Activate
  <2>1. UNCHANGED trackerVars /\ phase' \in {"running", "leaving"}
    BY <1>8 DEF Activate
  <2> QED
    BY <2>1, TrackingLeft
<1>9. CASE Quit
  <2>1. UNCHANGED trackerVars /\ phase' = "leaving"
    BY <1>9 DEF Quit
  <2> QED
    BY <2>1, TrackingLeft
<1>10. CASE Deactivate
  <2>1. UNCHANGED trackerVars /\ phase' = "deactivated"
    BY <1>10 DEF Deactivate
  <2> QED
    BY <2>1, TrackingLeft
<1>11. CASE StopTracker
  <2>1. /\ phase' = "stopping" /\ tracker' = [tracker EXCEPT !.stopped = TRUE]
        /\ UNCHANGED <<device, seen, zero>>
    BY <1>11 DEF StopTracker
  <2>2. TrackerInv'
    BY <2>1, TrackerStopped DEF TrackingInv, TrackerInv
  <2> QED
    BY <2>1, <2>2 DEF TrackingInv
<1>12. CASE Finish
  <2>1. /\ phase' = "ended" /\ tracker' = [tracker EXCEPT !.ready = FALSE]
        /\ UNCHANGED <<device, seen, zero>>
    BY <1>12 DEF Finish
  <2>2. TrackerInv'
    BY <2>1, TrackerStopped DEF TrackingInv, TrackerInv
  <2> QED
    BY <2>1, <2>2 DEF TrackingInv
<1> QED
  BY <1>1, <1>2, <1>3, <1>4, <1>5, <1>6, <1>7, <1>8, <1>9, <1>10, <1>11, <1>12 DEF Main

LEMMA Tracks ==
  TrackingInv /\ [ProgramNext]_vars => TrackingInv'
<1>1. SUFFICES ASSUME TrackingInv, [ProgramNext]_vars PROVE TrackingInv'
  OBVIOUS
<1>2. CASE Main
  BY <1>1, <1>2, MainTracks
<1>3. CASE ClientStep
  <2>1. UNCHANGED trackerVars /\ phase' = phase
    BY <1>3, Zenon DEF ClientStep
  <2> QED
    BY <1>1, <2>1, TrackingLeft
<1>4. CASE CleanUp
  <2>1. UNCHANGED trackerVars /\ phase' = phase
    BY <1>4, Zenon DEF CleanUp
  <2> QED
    BY <1>1, <2>1, TrackingLeft
<1>5. CASE CalibrateStep
  <2>1. calibrate_client /\ phase' = phase
    BY <1>5 DEF CalibrateStep
  <2>2. tracker.kind # NoKind
    BY <1>1, <2>1 DEF calibrate_client, TrackingInv, TrackerInv, Consistent, CorrectionInv
  <2> QED
    BY <1>1, <2>1, <2>2, CalibrationCalled DEF TrackingInv
<1>6. CASE VisitorStep
  <2>1. UNCHANGED trackerVars /\ phase' = phase
    BY <1>6, Zenon DEF VisitorStep
  <2> QED
    BY <1>1, <2>1, TrackingLeft
<1>7. CASE TrackerStep
  <2>1. phase' = phase /\ tracker.pc # "none"
    BY <1>7 DEF TrackerStep
  <2>2. tracker.kind # NoKind
    BY <1>1, <2>1 DEF TrackingInv, TrackerInv, Consistent, CorrectionInv
  <2> QED
    BY <1>1, <1>7, <2>1, <2>2, TrackerSteps DEF TrackingInv
<1>8. CASE UNCHANGED vars
  <2>1. UNCHANGED trackerVars /\ phase' = phase
    BY <1>8, Zenon DEF vars
  <2> QED
    BY <1>1, <2>1, TrackingLeft
<1> QED
  BY <1>1, <1>2, <1>3, <1>4, <1>5, <1>6, <1>7, <1>8 DEF ProgramNext

\* Only a thread publishes, and what it publishes is right.
LEMMA OnlyPublished ==
  ASSUME TrackingInv, [ProgramNext]_vars, orientation' # orientation PROVE Publish
<1>1. ~ UNCHANGED trackerVars
  BY Zenon DEF trackerVars
<1>2. ~ UNCHANGED vars
  BY <1>1, Zenon DEF vars
<1>3. ~ Main
  <2>1. ~ Configure /\ ~ OpenRenderer /\ ~ LoadRecorder /\ ~ LoadFirstScene /\ ~ StartServer
    BY <1>1, Zenon DEF Configure, OpenRenderer, LoadRecorder, LoadFirstScene, StartServer
  <2>2. ~ StartTracker
    BY <1>1, Zenon DEF StartTracker, StartThread
  <2>3. ~ TrackerStarted
    BY DEF TrackerStarted, FinishCreation
  <2>4. ~ Activate /\ ~ Quit /\ ~ Deactivate
    BY <1>1, Zenon DEF Activate, Quit, Deactivate
  <2>5. ~ StopTracker /\ ~ Finish
    BY DEF StopTracker, Finish
  <2> QED
    BY <2>1, <2>2, <2>3, <2>4, <2>5 DEF Main
<1>4. ~ ClientStep /\ ~ CleanUp /\ ~ VisitorStep
  BY <1>1, Zenon DEF ClientStep, CleanUp, VisitorStep
<1>5. ~ CalibrateStep
  BY DEF CalibrateStep, calibrate_client
<1>6. TrackerStep
  BY <1>2, <1>3, <1>4, <1>5 DEF ProgramNext
<1>7. ~ DeviceStep
  BY DEF DeviceStep, SendReport, HandleRequest, Fail
<1>8. ~ ThreadReads /\ ~ RazorEnds /\ ~ RazorAgain
  BY DEF ThreadReads, VrpnRead, PolhemusRead, PolhemusGivesUp, InterSenseRead, RazorRead,
         RazorEnds, RazorAgain
<1> QED
  BY <1>6, <1>7, <1>8 DEF TrackerStep, ThreadStep

LEMMA PublishedIsRight ==
  ASSUME TrackingInv, Publish
  PROVE  /\ tracker.kind = "razor" => seen \in Azimuths /\ zero \in Azimuths
         /\ seen # Unknown /\ zero # Unknown => (orientation' - (1 + zero - seen)) % 4 = 0
<1>1. PICK t, d, s, z : t = tracker /\ d = device /\ s = seen /\ z = zero
  OBVIOUS
<1>2. /\ t \in TrackerSet /\ s \in Int /\ z \in Int
      /\ CorrectionInv(t, d, s, z) /\ RazorInv(t, d, s, z)
      /\ t.pc = "publish" /\ orientation' = - t.current + t.corr
  BY <1>1 DEF TrackingInv, TrackerInv, Consistent, Publish
<1>3. t.kind = "razor" => s \in Azimuths /\ z \in Azimuths
  BY <1>2 DEF RazorInv
<1>4. ASSUME s # Unknown, z # Unknown PROVE (orientation' - (1 + z - s)) % 4 = 0
  <2>1. PICK c \in Int, k \in Int : c = t.current /\ k = t.corr
    BY <1>2, TrackerFields
  <2>2. (c = s /\ k = z + 1) \/ (k = 1 /\ c = s - z)
    BY <1>2, <1>4, <2>1 DEF CorrectionInv
  <2>3. - c + k - (1 + z - s) = 0
    BY <1>2, <2>2
  <2>4. 0 % 4 = 0
    OBVIOUS
  <2> QED
    BY <1>2, <2>1, <2>3, <2>4
<1> QED
  BY <1>1, <1>3, <1>4

\* Whatever is published is relative to the last calibration, whatever the
\* devices send and whenever calibrate() is called.
THEOREM AlwaysCalibrated == Program => Calibrated
<1>1. TrackingInv /\ [ProgramNext]_vars => [CalibratedStep]_vars
  BY OnlyPublished, PublishedIsRight DEF CalibratedStep
<1> QED
  BY <1>1, TrackingAtFirst, Tracks, PTL DEF Program, Calibrated

------------------------------------------------------------------------------
(* Ports and connections                                                   *)

NoPrefix == ""

Own(port) == port[1] \in {"in", "out"}

\* Records with the fields that the code knows.
IsClient(c) ==
  c = [ports |-> c.ports, connections |-> c.connections, pending |-> c.pending,
       active |-> c.active, others |-> c.others]

IsState(s) ==
  s = [client |-> s.client, sources |-> s.sources, highest_id |-> s.highest_id,
       asked |-> s.asked, stale |-> s.stale]

\* Every connection has been asked for, or its port has the name of an earlier one;
\* what is pending may be left from a port that is gone.
ConnectionsInv(c, wanted, old) ==
  /\ \A x \in c.connections : x[2] \in old \/ x \in wanted
  /\ \A x \in c.pending : x[2] \in old \/ x \in wanted \/ (Own(x[2]) /\ x[2] \notin c.ports)

StateInv(s) ==
  /\ IsState(s) /\ IsClient(s.client)
  /\ \A port \in s.client.ports : Own(port)
  /\ \A port \in s.client.others : ~ Own(port) /\ port[1] # NoPrefix
  /\ ConnectionsInv(s.client, s.asked, s.stale)

\* Before the client is active everything that was asked for is pending.
Waiting(s) ==
  ~ s.client.active /\ s.client.connections = {} /\ s.asked \subseteq s.client.pending

OutputsWait(s, prefix) ==
  \A k \in 1..Outputs : /\ <<<<"out", k>>, <<prefix, k>>>> \in s.client.pending
                        /\ <<"out", k>> \in s.client.ports

Kept(s, active, waits, outputs, prefix) ==
  /\ StateInv(s)
  /\ s.client.active = active
  /\ waits => Waiting(s)
  /\ outputs => OutputsWait(s, prefix)

LEMMA PortsConnected ==
  ASSUME NEW c, IsClient(c), NEW X
  PROVE  LET e == connect_ports(c, X)
             possible == {x \in X : CanConnect(c, x)}
         IN  /\ IsClient(e) /\ e.ports = c.ports /\ e.active = c.active /\ e.others = c.others
             /\ e.connections = c.connections \cup possible
             /\ e.pending = c.pending \cup (X \ possible)
<1> DEFINE possible == {x \in X : CanConnect(c, x)}
<1>1. connect_ports(c, X) = [c EXCEPT !.connections = @ \cup possible,
                                      !.pending = @ \cup (X \ possible)]
  BY DEF connect_ports
<1> HIDE DEF possible
<1>2. PICK e : e = [c EXCEPT !.connections = c.connections \cup possible,
                             !.pending = c.pending \cup (X \ possible)]
  OBVIOUS
<1>3. /\ IsClient(e) /\ e.ports = c.ports /\ e.active = c.active /\ e.others = c.others
      /\ e.connections = c.connections \cup possible
      /\ e.pending = c.pending \cup (X \ possible)
  BY <1>2 DEF IsClient
<1> QED
  BY <1>1, <1>2, <1>3 DEF possible

LEMMA PortsMade ==
  ASSUME NEW c, IsClient(c), NEW names, NEW X, NEW e, e = NewPorts(c, names, X)
  PROVE  /\ IsClient(e) /\ e.ports = c.ports \cup names
         /\ e.active = c.active /\ e.others = c.others
         /\ \E possible \in SUBSET X :
              /\ ~ c.active => possible = {}
              /\ e.connections = c.connections \cup possible
              /\ e.pending = c.pending \cup (X \ possible)
<1>1. PICK d : d = [c EXCEPT !.ports = c.ports \cup names]
  OBVIOUS
<1>2. /\ IsClient(d) /\ d.ports = c.ports \cup names /\ d.active = c.active
      /\ d.others = c.others /\ d.connections = c.connections /\ d.pending = c.pending
  BY <1>1 DEF IsClient
<1>3. e = connect_ports(d, X)
  BY <1>1 DEF NewPorts
<1>4. PICK possible \in SUBSET X : possible = {x \in X : CanConnect(d, x)}
  OBVIOUS
<1>5. /\ IsClient(e) /\ e.ports = d.ports /\ e.active = d.active /\ e.others = d.others
      /\ e.connections = d.connections \cup possible
      /\ e.pending = d.pending \cup (X \ possible)
  BY <1>2, <1>3, <1>4, PortsConnected
<1>6. ~ c.active => possible = {}
  BY <1>2, <1>4 DEF CanConnect
<1> QED
  BY <1>2, <1>5, <1>6

LEMMA PortsGone ==
  ASSUME NEW c, IsClient(c), NEW gone
  PROVE  LET e == unregister_ports(c, gone)
         IN  /\ IsClient(e) /\ e.ports = c.ports \ gone /\ e.active = c.active
             /\ e.others = c.others /\ e.pending = c.pending
             /\ e.connections = {x \in c.connections : {x[1], x[2]} \cap gone = {}}
<1>1. PICK left : left = {x \in c.connections : {x[1], x[2]} \cap gone = {}}
  OBVIOUS
<1>2. PICK e : e = [c EXCEPT !.ports = c.ports \ gone, !.connections = left]
  OBVIOUS
<1>3. unregister_ports(c, gone) = e
  BY <1>1, <1>2 DEF unregister_ports
<1>4. /\ IsClient(e) /\ e.ports = c.ports \ gone /\ e.active = c.active
      /\ e.others = c.others /\ e.pending = c.pending /\ e.connections = left
  BY <1>2 DEF IsClient
<1> QED
  BY <1>1, <1>3, <1>4

LEMMA SourceAdded ==
  ASSUME NEW s, NEW active, NEW waits, NEW outputs, NEW prefix,
         Kept(s, active, waits, outputs, prefix), NEW target
  PROVE  Kept(AddSource(s, target), active, waits, outputs, prefix)
<1>1. PICK c : c = s.client
  OBVIOUS
<1>2. /\ IsState(s) /\ IsClient(c) /\ \A port \in c.ports : Own(port)
      /\ \A port \in c.others : ~ Own(port) /\ port[1] # NoPrefix
      /\ ConnectionsInv(c, s.asked, s.stale) /\ c.active = active
  BY <1>1 DEF Kept, StateInv
<1>3. PICK id, port, wanted, stale2 :
        /\ id = s.highest_id + 1 /\ port = <<"in", id>>
        /\ wanted = IF target = NoPort THEN {} ELSE {<<target, port>>}
        /\ stale2 = IF \E x \in c.pending : x[2] = port THEN s.stale \cup {port} ELSE s.stale
  OBVIOUS
<1>4. PICK e : e = NewPorts(c, {port}, wanted)
  OBVIOUS
<1>5. PICK possible \in SUBSET wanted :
        /\ ~ c.active => possible = {}
        /\ e.connections = c.connections \cup possible
        /\ e.pending = c.pending \cup (wanted \ possible)
  <2>1. PICK names : names = {port}
    OBVIOUS
  <2>2. e = NewPorts(c, names, wanted)
    BY <1>4, <2>1
  <2>3. IsClient(c)
    BY <1>2
  <2>4. \E possible \in SUBSET wanted :
          /\ ~ c.active => possible = {}
          /\ e.connections = c.connections \cup possible
          /\ e.pending = c.pending \cup (wanted \ possible)
    BY <2>2, <2>3, PortsMade
  <2> QED
    BY <2>4
<1>6. /\ IsClient(e) /\ e.ports = c.ports \cup {port}
      /\ e.active = c.active /\ e.others = c.others
  BY <1>2, <1>4, PortsMade
<1>7. PICK t : t = [client |-> e, sources |-> s.sources \cup {id}, highest_id |-> id,
                    asked |-> s.asked \cup wanted, stale |-> stale2]
  OBVIOUS
<1>8. t = AddSource(s, target)
  BY <1>1, <1>3, <1>4, <1>7 DEF AddSource, InputPort
<1>9. /\ IsState(t) /\ t.client = e /\ t.asked = s.asked \cup wanted /\ t.stale = stale2
  BY <1>7 DEF IsState
<1>10. Own(port)
  BY <1>3 DEF Own
<1>11. ConnectionsInv(e, s.asked \cup wanted, stale2)
  <2>1. s.stale \subseteq stale2
    BY <1>3
  <2>2. \A x \in e.connections : x[2] \in stale2 \/ x \in s.asked \cup wanted
    BY <1>2, <1>5, <2>1 DEF ConnectionsInv
  <2>3. ASSUME NEW x \in e.pending
        PROVE  x[2] \in stale2 \/ x \in s.asked \cup wanted \/ (Own(x[2]) /\ x[2] \notin e.ports)
    <3>1. CASE x \in wanted
      BY <3>1
    <3>2. CASE x \in c.pending /\ x[2] = port
      BY <1>3, <3>2
    <3>3. CASE x \in c.pending /\ x[2] # port
      BY <1>2, <1>6, <2>1, <3>3 DEF ConnectionsInv
    <3> QED
      BY <1>5, <3>1, <3>2, <3>3
  <2> QED
    BY <2>2, <2>3 DEF ConnectionsInv
<1>12. StateInv(t)
  BY <1>2, <1>6, <1>9, <1>10, <1>11 DEF StateInv
<1>13. waits => Waiting(t)
  BY <1>1, <1>5, <1>6, <1>9 DEF Waiting, Kept
<1>14. outputs => OutputsWait(t, prefix)
  BY <1>1, <1>5, <1>6, <1>9 DEF OutputsWait, Kept
<1> QED
  BY <1>2, <1>6, <1>8, <1>9, <1>12, <1>13, <1>14 DEF Kept

\* Ports of its own go: inputs, or all of them.
LEMMA PortsDestroyed ==
  ASSUME NEW s, NEW active, NEW waits, NEW outputs, NEW prefix,
         Kept(s, active, waits, outputs, prefix), NEW ports, \A port \in ports : Own(port),
         outputs => \A port \in ports : port[1] # "out"
  PROVE  Kept(Without(s, ports), active, waits, outputs, prefix)
<1>1. PICK c : c = s.client
  OBVIOUS
<1>2. /\ IsState(s) /\ IsClient(c) /\ \A port \in c.ports : Own(port)
      /\ \A port \in c.others : ~ Own(port) /\ port[1] # NoPrefix
      /\ ConnectionsInv(c, s.asked, s.stale) /\ c.active = active
  BY <1>1 DEF Kept, StateInv
<1>3. PICK e, asked2, stale2 :
        /\ e = unregister_ports(c, ports)
        /\ asked2 = {x \in s.asked : x[2] \notin ports} /\ stale2 = s.stale \ ports
  OBVIOUS
<1>4. /\ IsClient(e) /\ e.ports = c.ports \ ports /\ e.active = c.active
      /\ e.others = c.others /\ e.pending = c.pending
      /\ e.connections = {x \in c.connections : {x[1], x[2]} \cap ports = {}}
  BY <1>2, <1>3, PortsGone
<1>5. PICK t : t = [s EXCEPT !.client = e, !.asked = asked2, !.stale = stale2]
  OBVIOUS
<1>6. t = Without(s, ports)
  BY <1>1, <1>3, <1>5 DEF Without
<1>7. IsState(t) /\ t.client = e /\ t.asked = asked2 /\ t.stale = stale2
  BY <1>2, <1>5 DEF IsState
<1>8. ConnectionsInv(e, asked2, stale2)
  <2>1. \A x \in e.connections : x[2] \in stale2 \/ x \in asked2
    BY <1>2, <1>3, <1>4 DEF ConnectionsInv
  <2>2. \A x \in e.pending : x[2] \in stale2 \/ x \in asked2 \/ (Own(x[2]) /\ x[2] \notin e.ports)
    BY <1>2, <1>3, <1>4 DEF ConnectionsInv
  <2> QED
    BY <2>1, <2>2 DEF ConnectionsInv
<1>9. StateInv(t)
  BY <1>2, <1>4, <1>7, <1>8 DEF StateInv
<1>10. waits => Waiting(t)
  BY <1>1, <1>3, <1>4, <1>7 DEF Waiting, Kept
<1>11. outputs => OutputsWait(t, prefix)
  <2>1. SUFFICES ASSUME outputs, NEW k \in 1..Outputs
                 PROVE  /\ <<<<"out", k>>, <<prefix, k>>>> \in e.pending
                        /\ <<"out", k>> \in e.ports
    BY <1>7 DEF OutputsWait
  <2>2. <<<<"out", k>>, <<prefix, k>>>> \in c.pending /\ <<"out", k>> \in c.ports
    BY <1>1, <2>1 DEF Kept, OutputsWait
  <2>3. <<"out", k>>[1] = "out"
    OBVIOUS
  <2>4. <<"out", k>> \notin ports
    BY <2>1, <2>3
  <2> QED
    BY <1>4, <2>2, <2>4
<1> QED
  BY <1>2, <1>4, <1>6, <1>7, <1>9, <1>10, <1>11 DEF Kept

LEMMA LeastNumber ==
  ASSUME NEW S, S \subseteq Nat, S # {}
  PROVE  \E n \in S : \A k \in S : n <= k
<1> DEFINE Less == {p \in Nat \X Nat : p[1] < p[2]}
<1>1. IsWellFoundedOn(Less, Nat)
  BY NatLessThanWellFounded, Zenon DEF OpToRel
<1> HIDE DEF Less
<1>2. PICK n \in S : \A k \in S : ~ (<<k, n>> \in Less)
  BY <1>1, WFMin
<1>3. ASSUME NEW k \in S PROVE n <= k
  <2>1. n \in Nat /\ k \in Nat
    OBVIOUS
  <2>2. ~ (k < n)
    BY <1>2, <2>1 DEF Less
  <2> QED
    BY <2>1, <2>2
<1> QED
  BY <1>3

\* The recursion over the sources of a scene: there is such a function up to every
\* index, because a first one without cannot be; and nor can a first state that is
\* not right.
LEMMA SceneAdded ==
  ASSUME NEW s, NEW active, NEW waits, NEW outputs, NEW prefix,
         Kept(s, active, waits, outputs, prefix), NEW scene, Len(scene) \in Nat
  PROVE  LET added[n \in 0..Len(scene)] ==
               IF n = 0 THEN s ELSE AddSource(added[n - 1], scene[n])
         IN  Kept(added[Len(scene)], active, waits, outputs, prefix)
<1> DEFINE Adds(g, m) ==
             g = [n \in 0..m |-> IF n = 0 THEN s ELSE AddSource(g[n - 1], scene[n])]
           Possible == {m \in Nat : \E g : Adds(g, m)}
<1>1. PICK size \in Nat : size = Len(scene)
  OBVIOUS
<1>2. ASSUME NEW m \in Nat PROVE m \in Possible
  <2>1. SUFFICES ASSUME Nat \ Possible # {} PROVE FALSE
    OBVIOUS
  <2>2. PICK k \in Nat \ Possible : \A j \in Nat \ Possible : k <= j
    <3> HIDE DEF Possible
    <3> QED
      BY <2>1, LeastNumber
  <2>3. k # 0
    <3>1. SUFFICES ASSUME k = 0 PROVE FALSE
      OBVIOUS
    <3> DEFINE g == [n \in 0..0 |-> s]
    <3>2. Adds(g, 0)
      OBVIOUS
    <3> QED
      BY <2>2, <3>1, <3>2
  <2>4. k - 1 \in Nat /\ k - 1 \in Possible
    <3>1. k - 1 \in Nat /\ ~ (k <= k - 1)
      BY <2>2, <2>3
    <3> HIDE DEF Possible
    <3> QED
      BY <2>2, <3>1
  <2>5. PICK g : Adds(g, k - 1)
    BY <2>4
  <2> DEFINE h == [n \in 0..k |-> IF n = k THEN AddSource(g[k - 1], scene[k]) ELSE g[n]]
  <2>6. ASSUME NEW n \in 0..k
        PROVE  h[n] = IF n = 0 THEN s ELSE AddSource(h[n - 1], scene[n])
    <3>1. CASE n = k
      <4>1. k - 1 \in 0..k /\ k - 1 # k
        BY <2>2, <2>3
      <4>2. h[k - 1] = g[k - 1]
        BY <4>1
      <4> QED
        BY <2>3, <3>1, <4>2
    <3>2. CASE n # k
      <4>1. n \in 0..k - 1
        BY <2>2, <3>2
      <4>2. g[n] = IF n = 0 THEN s ELSE AddSource(g[n - 1], scene[n])
        BY <2>5, <4>1
      <4>3. n # 0 => n - 1 \in 0..k /\ n - 1 # k
        BY <2>2, <4>1
      <4>4. n # 0 => h[n - 1] = g[n - 1]
        BY <4>3
      <4>5. h[n] = g[n]
        BY <3>2
      <4> QED
        BY <4>2, <4>4, <4>5
    <3> QED
      BY <3>1, <3>2
  <2>7. h = [n \in 0..k |-> h[n]]
    OBVIOUS
  <2> HIDE DEF h
  <2>8. Adds(h, k)
    BY <2>6, <2>7
  <2> QED
    BY <2>2, <2>8
<1> DEFINE added == CHOOSE g : Adds(g, Len(scene))
<1>3. Adds(added, size)
  <2>1. \E g : Adds(g, size)
    BY <1>1, <1>2
  <2> HIDE DEF Adds
  <2> QED
    BY <1>1, <2>1
<1> HIDE DEF added
<1>4. ASSUME NEW n \in 0..size
      PROVE  added[n] = IF n = 0 THEN s ELSE AddSource(added[n - 1], scene[n])
  BY <1>3
<1> DEFINE Wrong == {n \in 0..size : ~ Kept(added[n], active, waits, outputs, prefix)}
<1>5. Wrong = {}
  <2>1. SUFFICES ASSUME Wrong # {} PROVE FALSE
    OBVIOUS
  <2>2. PICK n \in Wrong : \A j \in Wrong : n <= j
    <3>1. Wrong \subseteq Nat
      BY <1>1
    <3> HIDE DEF Wrong
    <3> QED
      BY <2>1, <3>1, LeastNumber
  <2>3. n \in 0..size /\ ~ Kept(added[n], active, waits, outputs, prefix)
    OBVIOUS
  <2>4. n # 0
    BY <1>4, <2>3
  <2>5. n - 1 \in 0..size /\ ~ (n <= n - 1)
    BY <1>1, <2>3, <2>4
  <2>6. Kept(added[n - 1], active, waits, outputs, prefix)
    BY <2>2, <2>5
  <2>7. Kept(AddSource(added[n - 1], scene[n]), active, waits, outputs, prefix)
    BY <2>6, SourceAdded
  <2> QED
    BY <1>4, <2>3, <2>4, <2>7
<1>6. Kept(added[Len(scene)], active, waits, outputs, prefix)
  BY <1>1, <1>5
<1> QED
  BY <1>6 DEF added

------------------------------------------------------------------------------
(* Configuration files                                                     *)

Good(file) == {n \in 0..Len(file) : \A i \in 1..n : ~ Fails(file[i])}

Before(file) == {i \in 1..Len(file) : i \in Good(file) /\ file[i].result # "comment"}

Full(file, i) == {j \in Before(file) : j <= i /\ file[j].result = "CONFIG_SUCCESS"}

Value(file, i) ==
  IF Full(file, i) = {} THEN Uninitialized
  ELSE file[CHOOSE j \in Full(file, i) : \A k \in Full(file, i) : k <= j].value

\* The lines up to n that set a key.
Setters(file, n, key) ==
  {i \in Before(file) : i <= n /\ file[i].key = key /\ Understood(key, Value(file, i))}

\* The value v of a key after these lines, v0 before them.
SetByLast(v, v0, file, n, key) ==
  LET setters == Setters(file, n, key)
  IN  \/ setters = {} /\ v = v0
      \/ \E i \in setters : v = Meaning(key, Value(file, i)) /\ \A j \in setters : j <= i

\* What has been made of the first n lines.
HasRead(r, conf0, file, n) ==
  /\ r = [conf |-> r.conf, value |-> r.value, failed |-> r.failed]
  /\ r.failed \in BOOLEAN /\ (r.failed <=> n \notin Good(file))
  /\ r.value = Value(file, n)
  /\ DOMAIN r.conf = DOMAIN Defaults
  /\ \A key \in DOMAIN Defaults : SetByLast(r.conf[key], conf0[key], file, n, key)

LEMMA GoodSoFar ==
  ASSUME NEW file, Len(file) \in Nat, NEW n \in 1..Len(file)
  PROVE  n \in Good(file) <=> n - 1 \in Good(file) /\ ~ Fails(file[n])
<1>1. \A i \in 1..n : i \in 1..n - 1 \/ i = n
  OBVIOUS
<1>2. n \in 0..Len(file) /\ n - 1 \in 0..Len(file) /\ n \in 1..n /\ 1..n - 1 \subseteq 1..n
  OBVIOUS
<1> QED
  BY <1>1, <1>2 DEF Good

\* A line before which the file is read no more, or which says nothing.
LEMMA NothingSet ==
  ASSUME NEW file, Len(file) \in Nat, NEW n \in 1..Len(file), n \notin Before(file)
  PROVE  /\ Value(file, n) = Value(file, n - 1)
         /\ \A key : Setters(file, n, key) = Setters(file, n - 1, key)
<1>1. \A i \in Before(file) : i \in Nat /\ (i <= n <=> i <= n - 1)
  BY DEF Before
<1>2. Full(file, n) = Full(file, n - 1)
  BY <1>1 DEF Full
<1>3. Value(file, n) = Value(file, n - 1)
  BY <1>2 DEF Value
<1>4. \A key : Setters(file, n, key) = Setters(file, n - 1, key)
  BY <1>1 DEF Setters
<1> QED
  BY <1>3, <1>4

LEMMA ValueOfLine ==
  ASSUME NEW file, Len(file) \in Nat, NEW n \in 1..Len(file), n \in Before(file)
  PROVE  /\ file[n].result = "CONFIG_SUCCESS" => Value(file, n) = file[n].value
         /\ file[n].result # "CONFIG_SUCCESS" => Value(file, n) = Value(file, n - 1)
<1>1. \A i \in Before(file) : i \in Nat /\ (i <= n <=> i <= n - 1 \/ i = n)
  BY DEF Before
<1>2. ASSUME file[n].result = "CONFIG_SUCCESS" PROVE Value(file, n) = file[n].value
  <2>1. n \in Full(file, n) /\ \A i \in Full(file, n) : i \in Nat /\ i <= n
    BY <1>1, <1>2 DEF Full
  <2>2. \A j \in Full(file, n) : (\A k \in Full(file, n) : k <= j) <=> j = n
    BY <2>1
  <2>3. (CHOOSE j \in Full(file, n) : \A k \in Full(file, n) : k <= j) = n
    BY <2>1, <2>2
  <2> QED
    BY <2>1, <2>3 DEF Value
<1>3. ASSUME file[n].result # "CONFIG_SUCCESS" PROVE Value(file, n) = Value(file, n - 1)
  <2>1. Full(file, n) = Full(file, n - 1)
    BY <1>1, <1>3 DEF Full
  <2> QED
    BY <2>1 DEF Value
<1> QED
  BY <1>2, <1>3

LEMMA LineRead ==
  ASSUME NEW file, Len(file) \in Nat, NEW n \in 1..Len(file), file[n].result \in Results,
         NEW r, NEW conf0, HasRead(r, conf0, file, n - 1)
  PROVE  HasRead(ReadLine(r, file[n]), conf0, file, n)
<1>1. PICK m : m = n - 1
  OBVIOUS
<1>2. PICK line : line = file[n]
  OBVIOUS
<1>3. n \in Good(file) <=> m \in Good(file) /\ ~ Fails(line)
  BY <1>1, <1>2, GoodSoFar
<1>4. /\ r = [conf |-> r.conf, value |-> r.value, failed |-> r.failed]
      /\ r.failed \in BOOLEAN /\ (r.failed <=> m \notin Good(file))
      /\ r.value = Value(file, m)
      /\ DOMAIN r.conf = DOMAIN Defaults
      /\ \A key \in DOMAIN Defaults : SetByLast(r.conf[key], conf0[key], file, m, key)
  BY <1>1 DEF HasRead
<1>5. n \in Before(file) <=> n \in Good(file) /\ line.result # "comment"
  BY <1>2 DEF Before
<1>6. ASSUME n \notin Before(file)
      PROVE  /\ Value(file, n) = Value(file, m)
             /\ \A key \in DOMAIN Defaults : SetByLast(r.conf[key], conf0[key], file, n, key)
  <2>1. /\ Value(file, n) = Value(file, m)
        /\ \A key : Setters(file, n, key) = Setters(file, m, key)
    BY <1>1, <1>6, NothingSet
  <2> QED
    BY <1>4, <2>1 DEF SetByLast
<1>7. CASE r.failed \/ line.result = "comment"
  <2>1. n \notin Before(file)
    BY <1>3, <1>4, <1>5, <1>7
  <2>2. r.failed <=> n \notin Good(file)
    <3>1. line.result = "comment" => ~ Fails(line)
      BY DEF Fails
    <3> QED
      BY <1>3, <1>4, <1>7, <3>1
  <2>3. HasRead(r, conf0, file, n)
    BY <1>4, <1>6, <2>1, <2>2 DEF HasRead
  <2>4. ReadLine(r, line) = r
    BY <1>7 DEF ReadLine
  <2> QED
    BY <1>2, <2>3, <2>4
<1>8. CASE ~ r.failed /\ line.result # "comment" /\ Fails(line)
  <2>1. n \notin Before(file) /\ n \notin Good(file)
    BY <1>3, <1>5, <1>8
  <2>2. PICK t : t = [r EXCEPT !.failed = TRUE]
    OBVIOUS
  <2>3. /\ t = [conf |-> t.conf, value |-> t.value, failed |-> t.failed]
        /\ t.conf = r.conf /\ t.value = r.value /\ t.failed = TRUE
    BY <1>4, <2>2
  <2>4. HasRead(t, conf0, file, n)
    BY <1>4, <1>6, <2>1, <2>3 DEF HasRead
  <2>5. ReadLine(r, line) = t
    BY <1>8, <2>2 DEF ReadLine
  <2> QED
    BY <1>2, <2>4, <2>5
<1>9. CASE ~ r.failed /\ line.result # "comment" /\ ~ Fails(line)
  <2>1. n \in Before(file) /\ n \in Good(file)
    BY <1>3, <1>4, <1>5, <1>9
  <2>2. line.result \in {"CONFIG_SUCCESS", "CONFIG_EMPTY"}
    BY <1>2, <1>9 DEF Fails, Results
  <2>3. PICK value : value = IF line.result = "CONFIG_EMPTY" THEN r.value ELSE line.value
    OBVIOUS
  <2>4. value = Value(file, n)
    BY <1>1, <1>2, <1>4, <2>1, <2>2, <2>3, ValueOfLine
  <2>5. PICK conf2 : conf2 = Set(r.conf, line.key, value)
    OBVIOUS
  <2>6. PICK t : t = [conf |-> conf2, value |-> value, failed |-> FALSE]
    OBVIOUS
  <2>7. ReadLine(r, line) = t
    BY <1>9, <2>3, <2>5, <2>6 DEF ReadLine
  <2>8. /\ DOMAIN conf2 = DOMAIN Defaults
        /\ \A key \in DOMAIN Defaults :
             conf2[key] = IF key = line.key /\ Understood(key, value) THEN Meaning(key, value)
                          ELSE r.conf[key]
    <3>1. CASE Understood(line.key, value)
      <4>1. conf2 = [r.conf EXCEPT ![line.key] = Meaning(line.key, value)]
        BY <2>5, <3>1 DEF Set
      <4> QED
        BY <1>4, <3>1, <4>1
    <3>2. CASE ~ Understood(line.key, value)
      BY <1>4, <2>5, <3>2 DEF Set
    <3> QED
      BY <3>1, <3>2
  <2>9. ASSUME NEW key \in DOMAIN Defaults
        PROVE  SetByLast(conf2[key], conf0[key], file, n, key)
    <3>1. SetByLast(r.conf[key], conf0[key], file, m, key)
      BY <1>4
    <3>2. \A i \in Before(file) : i \in Nat /\ (i <= n <=> i <= m \/ i = n) /\ (i <= m => i <= n)
      BY <1>1 DEF Before
    <3>3. CASE key = line.key /\ Understood(key, value)
      <4>1. n \in Setters(file, n, key)
        BY <1>2, <2>1, <2>4, <3>3 DEF Setters
      <4>2. \A j \in Setters(file, n, key) : j <= n
        BY DEF Setters
      <4>3. conf2[key] = Meaning(key, Value(file, n))
        BY <2>4, <2>8, <3>3
      <4> QED
        BY <4>1, <4>2, <4>3 DEF SetByLast
    <3>4. CASE ~ (key = line.key /\ Understood(key, value))
      <4>1. Setters(file, n, key) = Setters(file, m, key)
        BY <1>2, <2>4, <3>2, <3>4 DEF Setters
      <4>2. conf2[key] = r.conf[key]
        BY <2>8, <3>4
      <4> QED
        BY <3>1, <4>1, <4>2 DEF SetByLast
    <3> QED
      BY <3>3, <3>4
  <2>10. /\ t.conf = conf2 /\ t.value = value /\ t.failed = FALSE
         /\ t = [conf |-> t.conf, value |-> t.value, failed |-> t.failed]
    BY <2>6
  <2>11. HasRead(t, conf0, file, n)
    BY <2>1, <2>4, <2>8, <2>9, <2>10 DEF HasRead
  <2> QED
    BY <1>2, <2>7, <2>11
<1> QED
  BY <1>4, <1>7, <1>8, <1>9

LEMMA FileLength ==
  ASSUME NEW file, IsFile(file), file # Missing
  PROVE  Len(file) \in Nat /\ \A n \in 1..Len(file) : file[n].result \in Results
<1>1. PICK S : file \in Seq(S) /\ \A n \in DOMAIN file : file[n].result \in Results
  BY DEF IsFile, IsSequence
<1> QED
  BY <1>1

LEMMA NothingRead ==
  ASSUME NEW file, Len(file) \in Nat, NEW conf0, DOMAIN conf0 = DOMAIN Defaults
  PROVE  HasRead([conf |-> conf0, value |-> Uninitialized, failed |-> FALSE], conf0, file, 0)
<1>1. PICK r : r = [conf |-> conf0, value |-> Uninitialized, failed |-> FALSE]
  OBVIOUS
<1>2. /\ r = [conf |-> r.conf, value |-> r.value, failed |-> r.failed]
      /\ r.conf = conf0 /\ r.value = Uninitialized /\ r.failed = FALSE
  BY <1>1
<1>3. 0 \in Good(file)
  BY DEF Good
<1>4. \A i \in Before(file) : i \in Nat /\ ~ (i <= 0)
  BY DEF Before
<1>5. Value(file, 0) = Uninitialized
  BY <1>4 DEF Value, Full
<1>6. \A key \in DOMAIN Defaults : SetByLast(r.conf[key], conf0[key], file, 0, key)
  BY <1>2, <1>4 DEF SetByLast, Setters
<1> QED
  BY <1>1, <1>2, <1>3, <1>5, <1>6 DEF HasRead

\* The recursion over the lines, as SceneAdded for the sources of a scene.
LEMMA FileRead ==
  ASSUME NEW file, IsFile(file), file # Missing, NEW conf0, DOMAIN conf0 = DOMAIN Defaults
  PROVE  HasRead(load_config_file(conf0, file), conf0, file, Len(file))
<1> DEFINE first == [conf |-> conf0, value |-> Uninitialized, failed |-> FALSE]
           Reads(g, m) ==
             g = [n \in 0..m |-> IF n = 0 THEN first ELSE ReadLine(g[n - 1], file[n])]
           Possible == {m \in Nat : \E g : Reads(g, m)}
<1>1. PICK size \in Nat : size = Len(file) /\ \A n \in 1..size : file[n].result \in Results
  BY FileLength
<1>2. PICK s : s = first
  OBVIOUS
<1>3. ASSUME NEW m \in Nat PROVE m \in Possible
  <2> HIDE DEF first
  <2>1. SUFFICES ASSUME Nat \ Possible # {} PROVE FALSE
    OBVIOUS
  <2>2. PICK k \in Nat \ Possible : \A j \in Nat \ Possible : k <= j
    <3> HIDE DEF Possible
    <3> QED
      BY <2>1, LeastNumber
  <2>3. k # 0
    <3>1. SUFFICES ASSUME k = 0 PROVE FALSE
      OBVIOUS
    <3> DEFINE g == [n \in 0..0 |-> first]
    <3>2. Reads(g, 0)
      OBVIOUS
    <3> QED
      BY <2>2, <3>1, <3>2
  <2>4. k - 1 \in Nat /\ k - 1 \in Possible
    <3>1. k - 1 \in Nat /\ ~ (k <= k - 1)
      BY <2>2, <2>3
    <3> HIDE DEF Possible
    <3> QED
      BY <2>2, <3>1
  <2>5. PICK g : Reads(g, k - 1)
    BY <2>4
  <2> DEFINE h == [n \in 0..k |-> IF n = k THEN ReadLine(g[k - 1], file[k]) ELSE g[n]]
  <2>6. ASSUME NEW n \in 0..k
        PROVE  h[n] = IF n = 0 THEN first ELSE ReadLine(h[n - 1], file[n])
    <3>1. CASE n = k
      <4>1. k - 1 \in 0..k /\ k - 1 # k
        BY <2>2, <2>3
      <4>2. h[k - 1] = g[k - 1]
        BY <4>1
      <4> QED
        BY <2>3, <3>1, <4>2
    <3>2. CASE n # k
      <4>1. n \in 0..k - 1
        BY <2>2, <3>2
      <4>2. g[n] = IF n = 0 THEN first ELSE ReadLine(g[n - 1], file[n])
        BY <2>5, <4>1
      <4>3. n # 0 => n - 1 \in 0..k /\ n - 1 # k
        BY <2>2, <4>1
      <4>4. n # 0 => h[n - 1] = g[n - 1]
        BY <4>3
      <4>5. h[n] = g[n]
        BY <3>2
      <4> QED
        BY <4>2, <4>4, <4>5
    <3> QED
      BY <3>1, <3>2
  <2>7. h = [n \in 0..k |-> h[n]]
    OBVIOUS
  <2> HIDE DEF h
  <2>8. Reads(h, k)
    BY <2>6, <2>7
  <2> QED
    BY <2>2, <2>8
<1> DEFINE read == CHOOSE g : Reads(g, Len(file))
<1>4. load_config_file(conf0, file) = read[Len(file)]
  BY DEF load_config_file
<1>5. Reads(read, size)
  <2>1. \E g : Reads(g, size)
    BY <1>1, <1>3
  <2> HIDE DEF Reads
  <2> QED
    BY <1>1, <2>1
<1> HIDE DEF read
<1>6. ASSUME NEW n \in 0..size
      PROVE  read[n] = IF n = 0 THEN first ELSE ReadLine(read[n - 1], file[n])
  <2> HIDE DEF first
  <2> QED
    BY <1>5
<1> DEFINE Wrong == {n \in 0..size : ~ HasRead(read[n], conf0, file, n)}
<1>7. Wrong = {}
  <2>1. SUFFICES ASSUME Wrong # {} PROVE FALSE
    OBVIOUS
  <2>2. PICK n \in Wrong : \A j \in Wrong : n <= j
    <3>1. Wrong \subseteq Nat
      BY <1>1
    <3> HIDE DEF Wrong
    <3> QED
      BY <2>1, <3>1, LeastNumber
  <2>3. n \in 0..size /\ ~ HasRead(read[n], conf0, file, n)
    OBVIOUS
  <2>4. n # 0
    <3>1. HasRead(first, conf0, file, 0)
      BY <1>1, NothingRead
    <3> HIDE DEF first
    <3> QED
      BY <1>6, <2>3, <3>1
  <2>5. n - 1 \in 0..size /\ ~ (n <= n - 1) /\ n \in 1..Len(file)
    BY <1>1, <2>3, <2>4
  <2>6. HasRead(read[n - 1], conf0, file, n - 1)
    BY <2>2, <2>5
  <2>7. file[n].result \in Results
    BY <1>1, <2>5
  <2>8. HasRead(ReadLine(read[n - 1], file[n]), conf0, file, n)
    BY <1>1, <2>5, <2>6, <2>7, LineRead
  <2>9. read[n] = ReadLine(read[n - 1], file[n])
    BY <1>6, <2>3, <2>4
  <2> QED
    BY <2>3, <2>8, <2>9
<1> QED
  BY <1>1, <1>4, <1>7

\* What a set of settings, all of them of the n-th input, makes of a configuration.
SetBy(S, n, conf0, conf1) ==
  /\ DOMAIN conf1 = DOMAIN Defaults
  /\ \A s \in S : s[1] = n /\ s[2] \in Nat
  /\ \A key \in DOMAIN Defaults :
       LET settings == {s \in S : s[3] = key}
       IN  \/ settings = {} /\ conf1[key] = conf0[key]
           \/ \E s \in settings : conf1[key] = s[4] /\ \A t \in settings : s[2] >= t[2]

LEMMA NothingIsSet ==
  ASSUME NEW n, NEW conf0, DOMAIN conf0 = DOMAIN Defaults PROVE SetBy({}, n, conf0, conf0)
BY DEF SetBy

LEMMA FileSets ==
  ASSUME NEW file, IsFile(file), NEW n, NEW conf0, DOMAIN conf0 = DOMAIN Defaults
  PROVE  SetBy(FileSettings(n, file), n, conf0, load_config_file(conf0, file).conf)
<1>1. CASE file = Missing
  <2>1. FileSettings(n, file) = {} /\ load_config_file(conf0, file).conf = conf0
    BY <1>1 DEF FileSettings, load_config_file
  <2> QED
    BY <2>1, NothingIsSet
<1>2. CASE file # Missing
  <2>1. PICK r : r = load_config_file(conf0, file)
    OBVIOUS
  <2>2. HasRead(r, conf0, file, Len(file)) /\ Len(file) \in Nat
    BY <1>2, <2>1, FileRead, FileLength
  <2> DEFINE lines == Accepted(file)
             Setting_(i) == <<n, i, file[i].key, Meaning(file[i].key, Value(file, i))>>
             known == {i \in Before(file) : Understood(file[i].key, Value(file, i))}
  <2>3. lines = [i \in Before(file) |-> [key |-> file[i].key, value |-> Value(file, i)]]
    BY Zenon DEF Accepted, Before, Good, Full, Value
  <2>4. FileSettings(n, file) =
          {<<n, i, lines[i].key, Meaning(lines[i].key, lines[i].value)>> :
             i \in {j \in DOMAIN lines : Understood(lines[j].key, lines[j].value)}}
    BY <1>2, Zenon DEF FileSettings
  <2> HIDE DEF lines
  <2>5. DOMAIN lines = Before(file)
        /\ \A i \in Before(file) : lines[i].key = file[i].key /\ lines[i].value = Value(file, i)
    BY <2>3
  <2>6. {j \in DOMAIN lines : Understood(lines[j].key, lines[j].value)} = known
    BY <2>5
  <2>7. FileSettings(n, file) = {Setting_(i) : i \in known}
    <3> DEFINE Line(i) == <<n, i, lines[i].key, Meaning(lines[i].key, lines[i].value)>>
    <3>1. FileSettings(n, file) = {Line(i) : i \in known}
      BY <2>4, <2>6, Zenon
    <3>2. \A i \in known : Line(i) = Setting_(i)
      BY <2>5
    <3> HIDE DEF Line, Setting_, known
    <3> QED
      BY <3>1, <3>2
  <2>8. PICK S : S = FileSettings(n, file)
    OBVIOUS
  <2>9. \A i : /\ Setting_(i)[1] = n /\ Setting_(i)[2] = i /\ Setting_(i)[3] = file[i].key
               /\ Setting_(i)[4] = Meaning(file[i].key, Value(file, i))
    OBVIOUS
  <2>10. \A i \in known : i \in Nat
    BY DEF Before
  <2> HIDE DEF Setting_
  <2>11. \A s \in S : s[1] = n /\ s[2] \in Nat
    BY <2>7, <2>8, <2>9, <2>10
  <2>12. ASSUME NEW key \in DOMAIN Defaults
         PROVE  LET settings == {s \in S : s[3] = key}
                IN  \/ settings = {} /\ r.conf[key] = conf0[key]
                    \/ \E s \in settings : r.conf[key] = s[4]
                                           /\ \A t \in settings : s[2] >= t[2]
    <3>1. SetByLast(r.conf[key], conf0[key], file, Len(file), key)
      BY <2>2 DEF HasRead
    <3>2. PICK setters : setters = Setters(file, Len(file), key)
      OBVIOUS
    <3>3. \A i : i \in setters <=> i \in known /\ file[i].key = key
      <4>1. \A i \in Before(file) : i <= Len(file)
        BY <2>2 DEF Before
      <4> QED
        BY <3>2, <4>1 DEF Setters
    <3>4. CASE setters = {}
      <4>1. {s \in S : s[3] = key} = {}
        BY <2>7, <2>8, <2>9, <3>3, <3>4
      <4>2. r.conf[key] = conf0[key]
        BY <3>1, <3>2, <3>4 DEF SetByLast
      <4> QED
        BY <4>1, <4>2
    <3>5. CASE setters # {}
      <4>1. PICK i \in setters : /\ r.conf[key] = Meaning(key, Value(file, i))
                                 /\ \A j \in setters : j <= i
        BY <3>1, <3>2, <3>5 DEF SetByLast
      <4>2. PICK s : s = Setting_(i)
        OBVIOUS
      <4>3. s \in S /\ s[3] = key /\ r.conf[key] = s[4] /\ s[2] = i
        BY <2>7, <2>8, <2>9, <3>3, <4>1, <4>2
      <4>4. ASSUME NEW t \in S, t[3] = key PROVE s[2] >= t[2]
        <5>1. PICK j \in known : t = Setting_(j)
          BY <2>7, <2>8
        <5>2. j \in setters /\ t[2] = j
          BY <2>9, <3>3, <4>4, <5>1
        <5>3. j <= i /\ i \in Nat /\ j \in Nat
          BY <2>10, <3>3, <4>1, <5>1, <5>2
        <5> QED
          BY <4>3, <5>2, <5>3
      <4> QED
        BY <4>3, <4>4
    <3> QED
      BY <3>4, <3>5
  <2>13. DOMAIN r.conf = DOMAIN Defaults
    BY <2>2 DEF HasRead
  <2>14. SetBy(S, n, conf0, r.conf)
    BY <2>11, <2>12, <2>13 DEF SetBy
  <2> QED
    BY <2>1, <2>8, <2>14
<1> QED
  BY <1>1, <1>2

LEMMA OneIsSet ==
  ASSUME NEW n, NEW conf0, DOMAIN conf0 = DOMAIN Defaults, NEW key, NEW value
  PROVE  SetBy({<<n, 0, key, value>>}, n, conf0, [conf0 EXCEPT ![key] = value])
<1>1. PICK s : s = <<n, 0, key, value>>
  OBVIOUS
<1>2. s[1] = n /\ s[2] = 0 /\ s[3] = key /\ s[4] = value
  BY <1>1
<1>3. PICK conf1 : conf1 = [conf0 EXCEPT ![key] = value]
  OBVIOUS
<1>4. /\ DOMAIN conf1 = DOMAIN Defaults
      /\ \A k \in DOMAIN Defaults : conf1[k] = IF k = key THEN value ELSE conf0[k]
  BY <1>3
<1>5. ASSUME NEW k \in DOMAIN Defaults
      PROVE  LET settings == {t \in {s} : t[3] = k}
             IN  \/ settings = {} /\ conf1[k] = conf0[k]
                 \/ \E t \in settings : conf1[k] = t[4] /\ \A u \in settings : t[2] >= u[2]
  <2>1. CASE k = key
    <3>1. {t \in {s} : t[3] = k} = {s}
      BY <1>2, <2>1
    <3>2. conf1[k] = s[4] /\ s[2] >= s[2]
      BY <1>2, <1>4, <2>1
    <3> QED
      BY <3>1, <3>2
  <2>2. CASE k # key
    <3>1. {t \in {s} : t[3] = k} = {}
      BY <1>2, <2>2
    <3> QED
      BY <1>4, <2>2, <3>1
  <2> QED
    BY <2>1, <2>2
<1>6. SetBy({s}, n, conf0, conf1)
  BY <1>2, <1>4, <1>5 DEF SetBy
<1> QED
  BY <1>1, <1>3, <1>6

IsInput(input) ==
  /\ input.is \in {"file", "option", "argument"}
  /\ input.is = "file" => IsFile(input.file)
  /\ input.is = "option" /\ input.option = "-c" => IsFile(input.arg)

\* As in Settings, and in Configure.
InputSettings(n, input) ==
  CASE input.is = "file" -> FileSettings(n, input.file)
    [] input.is = "option" /\ input.option = "-c" -> FileSettings(n, input.arg)
    [] input.is = "option" /\ input.option # "-c" ->
         {<<n, 0, OptionSetting(input).key, OptionSetting(input).value>>}
    [] input.is = "argument" ->
         IF input.number = 1 THEN {<<n, 0, "SCENE_FILE_NAME", input.arg>>} ELSE {}

Configured(conf0, input) ==
  CASE input.is = "file" -> load_config_file(conf0, input.file).conf
    [] input.is = "option" -> Option(conf0, input)
    [] input.is = "argument" /\ input.number = 1 ->
         [conf0 EXCEPT !.SCENE_FILE_NAME = input.arg]
    [] OTHER -> conf0

LEMMA InputSets ==
  ASSUME NEW input, IsInput(input), NEW n, NEW conf0, DOMAIN conf0 = DOMAIN Defaults
  PROVE  SetBy(InputSettings(n, input), n, conf0, Configured(conf0, input))
<1>1. CASE input.is = "file"
  <2>1. /\ InputSettings(n, input) = FileSettings(n, input.file)
        /\ Configured(conf0, input) = load_config_file(conf0, input.file).conf
    BY <1>1 DEF InputSettings, Configured
  <2> QED
    BY <1>1, <2>1, FileSets DEF IsInput
<1>2. CASE input.is = "option" /\ input.option = "-c"
  <2>1. /\ InputSettings(n, input) = FileSettings(n, input.arg)
        /\ Configured(conf0, input) = load_config_file(conf0, input.arg).conf
    BY <1>2 DEF InputSettings, Configured, Option
  <2> QED
    BY <1>2, <2>1, FileSets DEF IsInput
<1>3. CASE input.is = "option" /\ input.option # "-c"
  <2>1. PICK key, value : key = OptionSetting(input).key /\ value = OptionSetting(input).value
    OBVIOUS
  <2>2. /\ InputSettings(n, input) = {<<n, 0, key, value>>}
        /\ Configured(conf0, input) = [conf0 EXCEPT ![key] = value]
    BY <1>3, <2>1 DEF InputSettings, Configured, Option
  <2>3. SetBy({<<n, 0, key, value>>}, n, conf0, [conf0 EXCEPT ![key] = value])
    BY OneIsSet, Zenon
  <2> QED
    BY <2>2, <2>3, Zenon
<1>4. CASE input.is = "argument" /\ input.number = 1
  <2>1. /\ InputSettings(n, input) = {<<n, 0, "SCENE_FILE_NAME", input.arg>>}
        /\ Configured(conf0, input) = [conf0 EXCEPT !["SCENE_FILE_NAME"] = input.arg]
    BY <1>4 DEF InputSettings, Configured
  <2>2. SetBy({<<n, 0, "SCENE_FILE_NAME", input.arg>>}, n, conf0,
              [conf0 EXCEPT !["SCENE_FILE_NAME"] = input.arg])
    BY OneIsSet, Zenon
  <2> QED
    BY <2>1, <2>2, Zenon
<1>5. CASE input.is = "argument" /\ input.number # 1
  <2>1. InputSettings(n, input) = {} /\ Configured(conf0, input) = conf0
    BY <1>5 DEF InputSettings, Configured
  <2> QED
    BY <2>1, NothingIsSet
<1> QED
  BY <1>1, <1>2, <1>3, <1>4, <1>5 DEF IsInput

\* The last of these settings counts.
Counts(S, c) ==
  \A key \in DOMAIN Defaults :
    LET all == {s \in S : s[3] = key}
    IN  \/ all = {} /\ c[key] = Defaults[key]
        \/ \E s \in all : c[key] = s[4] /\ \A t \in all : Later(s, t)

LEMMA MoreCount ==
  ASSUME NEW n \in Nat, NEW S, \A s \in S : s[1] \in Nat /\ s[1] < n /\ s[2] \in Nat,
         NEW conf0, Counts(S, conf0), NEW T, NEW conf1, SetBy(T, n, conf0, conf1)
  PROVE  Counts(S \cup T, conf1)
<1> SUFFICES ASSUME NEW key \in DOMAIN Defaults
             PROVE  LET all == {s \in S \cup T : s[3] = key}
                    IN  \/ all = {} /\ conf1[key] = Defaults[key]
                        \/ \E s \in all : conf1[key] = s[4] /\ \A t \in all : Later(s, t)
  BY DEF Counts
<1>1. \A s \in T : s[1] = n /\ s[2] \in Nat
  BY DEF SetBy
<1>2. PICK before, later, all :
        /\ before = {s \in S : s[3] = key} /\ later = {s \in T : s[3] = key}
        /\ all = {s \in S \cup T : s[3] = key}
  OBVIOUS
<1>3. all = before \cup later
  BY <1>2
<1>4. CASE later = {}
  <2>1. conf1[key] = conf0[key]
    BY <1>2, <1>4 DEF SetBy
  <2>2. \/ before = {} /\ conf0[key] = Defaults[key]
        \/ \E s \in before : conf0[key] = s[4] /\ \A t \in before : Later(s, t)
    BY <1>2 DEF Counts
  <2>3. all = before
    BY <1>3, <1>4
  <2> QED
    BY <1>2, <2>1, <2>2, <2>3
<1>5. CASE later # {}
  <2>1. PICK s \in later : conf1[key] = s[4] /\ \A t \in later : s[2] >= t[2]
    BY <1>2, <1>5 DEF SetBy
  <2>2. ASSUME NEW t \in all PROVE Later(s, t)
    <3>1. CASE t \in later
      BY <1>1, <1>2, <2>1, <3>1 DEF Later
    <3>2. CASE t \in before
      BY <1>1, <1>2, <2>1, <3>2 DEF Later
    <3> QED
      BY <1>3, <3>1, <3>2
  <2>3. s \in all
    BY <1>3
  <2> QED
    BY <1>2, <2>1, <2>2, <2>3
<1> QED
  BY <1>4, <1>5

AllSettings(inputs, k) == UNION {InputSettings(n, inputs[n]) : n \in 1..k}

LEMMA SettingsOfInputs ==
  ASSUME NEW inputs, NEW k \in Nat, \A n \in 1..k + 1 : IsInput(inputs[n])
  PROVE  /\ AllSettings(inputs, k + 1) = AllSettings(inputs, k)
                                         \cup InputSettings(k + 1, inputs[k + 1])
         /\ \A s \in AllSettings(inputs, k) : s[1] \in Nat /\ s[1] < k + 1 /\ s[2] \in Nat
<1>1. 1..k + 1 = (1..k) \cup {k + 1}
  OBVIOUS
<1>2. AllSettings(inputs, k + 1) = AllSettings(inputs, k)
                                   \cup InputSettings(k + 1, inputs[k + 1])
  BY <1>1 DEF AllSettings
<1>3. ASSUME NEW s \in AllSettings(inputs, k)
      PROVE  s[1] \in Nat /\ s[1] < k + 1 /\ s[2] \in Nat
  <2>1. PICK n \in 1..k : s \in InputSettings(n, inputs[n])
    BY DEF AllSettings
  <2>2. SetBy(InputSettings(n, inputs[n]), n, Defaults, Configured(Defaults, inputs[n]))
    BY <1>1, InputSets
  <2>3. s[1] = n /\ s[2] \in Nat
    BY <2>1, <2>2 DEF SetBy
  <2> QED
    BY <2>3
<1> QED
  BY <1>2, <1>3


\* What is left of the inputs g after the first k.
Left(g, t, k) ==
  /\ k + Len(t) = Len(g)
  /\ IsSequence(t)
  /\ \A i \in 1..Len(t) : t[i] = g[k + i]

SettingsIn(inputs) == UNION {InputSettings(n, inputs[n]) : n \in DOMAIN inputs}

LEMMA InputsLength ==
  ASSUME NEW g \in Inputs
  PROVE  Len(g) \in Nat /\ DOMAIN g = 1..Len(g) /\ \A n \in 1..Len(g) : IsInput(g[n])
<1>1. IsSequence(g) /\ \A n \in DOMAIN g : IsInput(g[n])
  BY InputsAssumption, Zenon DEF IsInput
<1>2. PICK S : g \in Seq(S)
  BY <1>1 DEF IsSequence
<1>3. Len(g) \in Nat /\ DOMAIN g = 1..Len(g)
  BY <1>2
<1> QED
  BY <1>1, <1>3

LEMMA FirstInputs ==
  ASSUME NEW g \in Inputs, NEW t, NEW k \in Nat, Left(g, t, k)
  PROVE  SettingsIn(SubSeq(g, 1, Len(g) - Len(t))) = AllSettings(g, k)
<1>1. Len(g) \in Nat /\ IsSequence(g)
  BY InputsLength, InputsAssumption
<1>2. PICK S : g \in Seq(S)
  BY <1>1 DEF IsSequence
<1>3. PICK T : t \in Seq(T)
  BY DEF Left, IsSequence
<1>4. Len(g) - Len(t) = k /\ k <= Len(g)
  BY <1>1, <1>3 DEF Left
<1>5. PICK r : r = SubSeq(g, 1, k)
  OBVIOUS
<1>6. DOMAIN r = 1..k /\ \A n \in 1..k : r[n] = g[n]
  BY <1>1, <1>2, <1>4, <1>5
<1>7. SettingsIn(r) = AllSettings(g, k)
  BY <1>6 DEF SettingsIn, AllSettings
<1> QED
  BY <1>4, <1>5, <1>7

\* One more input is read.
LEMMA InputRead ==
  ASSUME NEW g \in Inputs, NEW t, t # <<>>, NEW k \in Nat, Left(g, t, k),
         NEW c, DOMAIN c = DOMAIN Defaults, Counts(AllSettings(g, k), c)
  PROVE  /\ DOMAIN Configured(c, Head(t)) = DOMAIN Defaults
         /\ Left(g, Tail(t), k + 1)
         /\ Counts(AllSettings(g, k + 1), Configured(c, Head(t)))
<1>1. PICK T : t \in Seq(T)
  BY DEF Left, IsSequence
<1>2. Len(t) \in Nat \ {0} /\ Head(t) = t[1]
  BY <1>1
<1>3. Len(g) \in Nat /\ \A n \in 1..Len(g) : IsInput(g[n])
  BY InputsLength
<1>4. k + 1 \in 1..Len(g) /\ Head(t) = g[k + 1]
  BY <1>2, <1>3 DEF Left
<1>5. PICK input : input = Head(t)
  OBVIOUS
<1>6. IsInput(input) /\ input = g[k + 1]
  BY <1>3, <1>4, <1>5
<1>7. SetBy(InputSettings(k + 1, input), k + 1, c, Configured(c, input))
  BY <1>6, InputSets
<1>8. \A n \in 1..k + 1 : IsInput(g[n])
  BY <1>3, <1>4
<1>9. /\ AllSettings(g, k + 1) = AllSettings(g, k) \cup InputSettings(k + 1, input)
      /\ \A s \in AllSettings(g, k) : s[1] \in Nat /\ s[1] < k + 1 /\ s[2] \in Nat
  BY <1>6, <1>8, SettingsOfInputs
<1>10. PICK m \in Nat : m = k + 1
  OBVIOUS
<1>11. Counts(AllSettings(g, k) \cup InputSettings(m, input), Configured(c, input))
  BY <1>7, <1>9, <1>10, MoreCount
<1>12. Left(g, Tail(t), k + 1)
  <2>1. PICK u : u = Tail(t)
    OBVIOUS
  <2>2. u \in Seq(T) /\ Len(u) = Len(t) - 1 /\ \A i \in 1..Len(u) : u[i] = t[i + 1]
    BY <1>1, <1>2, <2>1
  <2>3. IsSequence(u)
    BY <2>2 DEF IsSequence
  <2>4. (k + 1) + Len(u) = Len(g)
    <3>1. k + Len(t) = Len(g)
      BY DEF Left
    <3>2. PICK n \in Nat, l \in Nat : n = Len(t) /\ l = Len(u)
      BY <1>2, <2>2
    <3>3. l = n - 1
      BY <2>2, <3>2
    <3>4. (k + 1) + l = k + n
      BY <3>2, <3>3
    <3> QED
      BY <3>1, <3>2, <3>4
  <2>5. ASSUME NEW i \in 1..Len(u) PROVE u[i] = g[k + 1 + i]
    BY <1>2, <2>2 DEF Left
  <2> QED
    BY <2>1, <2>3, <2>4, <2>5 DEF Left
<1>13. DOMAIN Configured(c, input) = DOMAIN Defaults
  BY <1>7 DEF SetBy
<1> QED
  BY <1>5, <1>9, <1>10, <1>11, <1>12, <1>13

\* The settings that have been read are those of the first k inputs.
InputInv ==
  /\ DOMAIN conf = DOMAIN Defaults
  /\ phase = "started" =>
       given \in Inputs /\ \E k \in Nat : Left(given, todo, k) /\ Counts(AllSettings(given, k), conf)

LEMMA FirstInputInv == ProgramInit => InputInv
<1> SUFFICES ASSUME ProgramInit PROVE InputInv
  OBVIOUS
<1>1. conf = Defaults /\ given \in Inputs /\ todo = given
  BY DEF ProgramInit
<1>2. PICK g \in Inputs : g = given
  BY <1>1
<1>3. Left(g, g, 0)
  BY InputsLength, InputsAssumption DEF Left
<1>4. Counts(AllSettings(g, 0), Defaults)
  <2>1. AllSettings(g, 0) = {}
    BY DEF AllSettings
  <2> QED
    BY <2>1 DEF Counts
<1> QED
  BY <1>1, <1>2, <1>3, <1>4 DEF InputInv

LEMMA InputsAreKept ==
  ASSUME InputInv, UNCHANGED configVars, phase' = "started" => phase = "started"
  PROVE  InputInv'
BY DEF InputInv, configVars

LEMMA InputStep == InputInv /\ [ProgramNext]_vars => InputInv'
<1> SUFFICES ASSUME InputInv, [ProgramNext]_vars PROVE InputInv'
  OBVIOUS
<1>1. CASE Configure
  <2>1. /\ phase = "started" /\ todo # <<>> /\ todo' = Tail(todo) /\ given' = given
        /\ \/ phase' = "ended" /\ conf' = conf
           \/ phase' = phase /\ conf' = Configured(conf, Head(todo))
    BY <1>1, Zenon DEF Configure, Configured
  <2>2. PICK g, c, t : g = given /\ c = conf /\ t = todo
    OBVIOUS
  <2>3. g \in Inputs /\ DOMAIN c = DOMAIN Defaults
    BY <2>1, <2>2 DEF InputInv
  <2>4. PICK k \in Nat : Left(g, t, k) /\ Counts(AllSettings(g, k), c)
    BY <2>1, <2>2 DEF InputInv
  <2>5. CASE phase' = "ended" /\ conf' = conf
    BY <2>2, <2>3, <2>5 DEF InputInv
  <2>6. CASE phase' = phase /\ conf' = Configured(conf, Head(todo))
    <3>1. PICK c1, t1 : c1 = Configured(c, Head(t)) /\ t1 = Tail(t)
      OBVIOUS
    <3>2. DOMAIN c1 = DOMAIN Defaults /\ Left(g, t1, k + 1) /\ Counts(AllSettings(g, k + 1), c1)
      BY <2>1, <2>2, <2>3, <2>4, <3>1, InputRead, Zenon
    <3>3. conf' = c1 /\ given' = g /\ todo' = t1
      BY <2>1, <2>2, <2>6, <3>1
    <3>4. k + 1 \in Nat
      OBVIOUS
    <3> QED
      BY <2>3, <3>2, <3>3, <3>4 DEF InputInv
  <2> QED
    BY <2>1, <2>5, <2>6
<1>2. CASE OpenRenderer
  <2>1. /\ phase' = "renderer"
        /\ \/ conf' = [conf EXCEPT !.FREEWHEEL = FALSE]
           \/ conf' = [conf EXCEPT !.GUI = conf.GUI /\ ~ conf.FREEWHEEL]
    BY <1>2, Zenon DEF OpenRenderer
  <2> QED
    BY <2>1 DEF InputInv
<1>3. CASE LoadRecorder
  BY <1>3, InputsAreKept, Zenon DEF LoadRecorder
<1>4. CASE LoadFirstScene
  BY <1>4, InputsAreKept, Zenon DEF LoadFirstScene
<1>5. CASE StartServer
  BY <1>5, InputsAreKept, Zenon DEF StartServer
<1>6. CASE StartTracker
  BY <1>6, InputsAreKept, Zenon DEF StartTracker
<1>7. CASE TrackerStarted
  BY <1>7, InputsAreKept, Zenon DEF TrackerStarted
<1>8. CASE Activate
  BY <1>8, InputsAreKept, Zenon DEF Activate
<1>9. CASE Quit
  BY <1>9, InputsAreKept, Zenon DEF Quit
<1>10. CASE Deactivate
  BY <1>10, InputsAreKept, Zenon DEF Deactivate
<1>11. CASE StopTracker
  BY <1>11, InputsAreKept, Zenon DEF StopTracker
<1>12. CASE Finish
  BY <1>12, InputsAreKept, Zenon DEF Finish
<1>13. CASE ClientStep
  BY <1>13, InputsAreKept, Zenon DEF ClientStep
<1>14. CASE CleanUp
  BY <1>14, InputsAreKept, Zenon DEF CleanUp
<1>15. CASE CalibrateStep
  BY <1>15, InputsAreKept, Zenon DEF CalibrateStep
<1>16. CASE VisitorStep
  BY <1>16, InputsAreKept, Zenon DEF VisitorStep
<1>17. CASE TrackerStep
  BY <1>17, InputsAreKept, Zenon DEF TrackerStep
<1>18. CASE UNCHANGED vars
  BY <1>18, InputsAreKept, Zenon DEF vars
<1> QED
  BY <1>1, <1>2, <1>3, <1>4, <1>5, <1>6, <1>7, <1>8, <1>9, <1>10, <1>11, <1>12, <1>13,
     <1>14, <1>15, <1>16, <1>17, <1>18, Zenon DEF ProgramNext, Main

\* Over the files and arguments that configuration() has read so far, the last
\* occurrence of every setting counts, or its default if there is none
\* (Program!LastCounts).
THEOREM TheLastCounts == Program => []LastCounts
<1>1. ProgramInit => InputInv
  BY FirstInputInv
<1>2. InputInv /\ [ProgramNext]_vars => InputInv'
  BY InputStep
<1>3. InputInv => LastCounts
  <2> SUFFICES ASSUME InputInv, phase = "started"
               PROVE  Counts(Settings, conf)
    BY Zenon DEF LastCounts, Counts
  <2>1. given \in Inputs
    BY DEF InputInv
  <2>2. PICK k \in Nat : Left(given, todo, k) /\ Counts(AllSettings(given, k), conf)
    BY DEF InputInv
  <2>3. Settings = SettingsIn(Read)
    BY Zenon DEF Settings, SettingsIn, InputSettings
  <2>4. SettingsIn(Read) = AllSettings(given, k)
    BY <2>1, <2>2, FirstInputs, Zenon DEF Read
  <2> QED
    BY <2>2, <2>3, <2>4, Zenon
<1> QED
  BY <1>1, <1>2, <1>3, PTL DEF Program


\* More that keeps the connections right.
LEMMA KeptFor ==
  ASSUME NEW s, NEW active, NEW waits, NEW outputs, NEW prefix, NEW waits1, NEW outputs1,
         Kept(s, active, waits, outputs, prefix), waits1 => waits, outputs1 => outputs
  PROVE  Kept(s, active, waits1, outputs1, prefix)
BY DEF Kept

\* Sources do not matter, only their inputs.
LEMMA SourcesChanged ==
  ASSUME NEW s, NEW active, NEW waits, NEW outputs, NEW prefix,
         Kept(s, active, waits, outputs, prefix),
         NEW t, t.client = s.client, t.asked = s.asked, t.stale = s.stale, IsState(t)
  PROVE  Kept(t, active, waits, outputs, prefix)
BY DEF Kept, StateInv, Waiting, OutputsWait

LEMMA SourcesReplaced ==
  ASSUME NEW s, NEW active, NEW waits, NEW outputs, NEW prefix,
         Kept(s, active, waits, outputs, prefix), NEW S, NEW id
  PROVE  /\ Kept([s EXCEPT !.sources = S], active, waits, outputs, prefix)
         /\ Kept([s EXCEPT !.sources = S, !.highest_id = id], active, waits, outputs, prefix)
<1>1. IsState(s)
  BY DEF Kept, StateInv
<1>2. PICK t : t = [s EXCEPT !.sources = S]
  OBVIOUS
<1>3. IsState(t) /\ t.client = s.client /\ t.asked = s.asked /\ t.stale = s.stale
  BY <1>1, <1>2 DEF IsState
<1>4. PICK u : u = [s EXCEPT !.sources = S, !.highest_id = id]
  OBVIOUS
<1>5. IsState(u) /\ u.client = s.client /\ u.asked = s.asked /\ u.stale = s.stale
  BY <1>1, <1>4 DEF IsState
<1>6. Kept(t, active, waits, outputs, prefix)
  BY <1>3, SourcesChanged
<1>7. Kept(u, active, waits, outputs, prefix)
  BY <1>5, SourcesChanged
<1> QED
  BY <1>2, <1>4, <1>6, <1>7

\* The ports as they are, with another state of the client.
LEMMA ClientChanged ==
  ASSUME NEW s, NEW active, NEW waits, NEW outputs, NEW prefix,
         Kept(s, active, waits, outputs, prefix),
         NEW e, IsClient(e), e.ports = s.client.ports,
         \A port \in e.others : ~ Own(port) /\ port[1] # NoPrefix,
         e.connections \subseteq s.client.connections, e.pending = s.client.pending,
         e.active = s.client.active,
         NEW t, IsState(t), t.client = e, t.asked = s.asked, t.stale = s.stale
  PROVE  Kept(t, active, waits, outputs, prefix)
<1>1. ConnectionsInv(e, t.asked, t.stale)
  BY DEF Kept, StateInv, ConnectionsInv
<1>2. StateInv(t)
  BY <1>1 DEF Kept, StateInv
<1>3. waits => Waiting(t)
  BY DEF Kept, Waiting
<1>4. outputs => OutputsWait(t, prefix)
  BY DEF Kept, OutputsWait
<1> QED
  BY <1>2, <1>3, <1>4 DEF Kept

LEMMA VisitorComes ==
  ASSUME NEW c, IsClient(c), NEW port, NEW e, e = Appear(c, port) \/ e = Vanish(c, port)
  PROVE  /\ IsClient(e) /\ e.ports = c.ports /\ e.active = c.active /\ e.pending = c.pending
         /\ e.connections \subseteq c.connections /\ e.others \subseteq c.others \cup {port}
<1>1. CASE e = Appear(c, port)
  <2>1. e = [c EXCEPT !.others = c.others \cup {port}]
    BY <1>1 DEF Appear
  <2> QED
    BY <2>1 DEF IsClient
<1>2. CASE e = Vanish(c, port)
  <2>1. PICK others, left :
          /\ others = c.others \ {port}
          /\ left = {x \in c.connections : port \notin {x[1], x[2]}}
    OBVIOUS
  <2>2. e = [c EXCEPT !.others = others, !.connections = left]
    BY <1>2, <2>1 DEF Vanish
  <2>3. /\ IsClient(e) /\ e.ports = c.ports /\ e.active = c.active /\ e.pending = c.pending
        /\ e.connections = left /\ e.others = others
    BY <2>2 DEF IsClient
  <2> QED
    BY <2>1, <2>3
<1> QED
  BY <1>1, <1>2

LEMMA ClientDeactivated ==
  ASSUME NEW c, IsClient(c), NEW e, e = deactivate(c)
  PROVE  /\ IsClient(e) /\ e.ports = c.ports /\ e.active = FALSE /\ e.pending = c.pending
         /\ e.connections = {} /\ e.others = c.others
<1>1. e = [c EXCEPT !.active = FALSE, !.connections = {}]
  BY DEF deactivate
<1> QED
  BY <1>1 DEF IsClient

\* All that is pending and possible is connected.
LEMMA ClientActivated ==
  ASSUME NEW c, IsClient(c), NEW e, e = activate(c)
  PROVE  /\ IsClient(e) /\ e.ports = c.ports /\ e.active = TRUE /\ e.others = c.others
         /\ \A x : x \in e.connections <=>
                    x \in c.connections \/ (x \in c.pending /\ CanConnect(e, x))
         /\ e.pending \subseteq c.pending
<1>1. PICK a : a = [c EXCEPT !.active = TRUE]
  OBVIOUS
<1>2. /\ IsClient(a) /\ a.ports = c.ports /\ a.active = TRUE /\ a.others = c.others
      /\ a.connections = c.connections /\ a.pending = c.pending
  BY <1>1 DEF IsClient
<1>3. PICK d : d = [a EXCEPT !.pending = {}]
  OBVIOUS
<1>4. /\ IsClient(d) /\ d.ports = c.ports /\ d.active = TRUE /\ d.others = c.others
      /\ d.connections = c.connections /\ d.pending = {}
  BY <1>2, <1>3 DEF IsClient
<1>5. PICK X : X = c.pending
  OBVIOUS
<1>6. e = connect_ports(d, X)
  BY <1>1, <1>2, <1>3, <1>5 DEF activate, connect_pending_connections
<1>7. PICK possible : possible = {x \in X : CanConnect(d, x)}
  OBVIOUS
<1>8. /\ IsClient(e) /\ e.ports = d.ports /\ e.active = d.active /\ e.others = d.others
      /\ e.connections = d.connections \cup possible
      /\ e.pending = d.pending \cup (X \ possible)
  BY <1>4, <1>6, <1>7, PortsConnected
<1>9. \A x : CanConnect(e, x) <=> CanConnect(d, x)
  BY <1>8 DEF CanConnect
<1> QED
  BY <1>4, <1>5, <1>7, <1>8, <1>9

LEMMA ConnectionsAsked ==
  ASSUME NEW s, NEW active, NEW waits, NEW outputs, NEW prefix,
         Kept(s, active, waits, outputs, prefix), NEW X,
         NEW t, IsState(t), t.client = connect_ports(s.client, X), t.asked = s.asked \cup X,
         t.stale = s.stale
  PROVE  Kept(t, active, waits, outputs, prefix)
<1>1. PICK c, e : c = s.client /\ e = t.client
  OBVIOUS
<1>2. /\ IsClient(c) /\ \A port \in c.ports : Own(port)
      /\ \A port \in c.others : ~ Own(port) /\ port[1] # NoPrefix
      /\ ConnectionsInv(c, s.asked, s.stale) /\ c.active = active
  BY <1>1 DEF Kept, StateInv
<1>3. PICK possible : possible = {x \in X : CanConnect(c, x)}
  OBVIOUS
<1>4. e = connect_ports(c, X)
  BY <1>1
<1>5. /\ IsClient(e) /\ e.ports = c.ports /\ e.active = c.active /\ e.others = c.others
      /\ e.connections = c.connections \cup possible
      /\ e.pending = c.pending \cup (X \ possible)
  BY <1>2, <1>3, <1>4, PortsConnected
<1>6. possible \subseteq X /\ (~ c.active => possible = {})
  BY <1>3 DEF CanConnect
<1>7. ConnectionsInv(e, s.asked \cup X, s.stale)
  BY <1>2, <1>5, <1>6 DEF ConnectionsInv
<1>8. StateInv(t)
  BY <1>1, <1>2, <1>5, <1>7 DEF StateInv
<1>9. waits => Waiting(t)
  BY <1>1, <1>5, <1>6 DEF Kept, Waiting
<1>10. outputs => OutputsWait(t, prefix)
  BY <1>1, <1>5 DEF Kept, OutputsWait
<1> QED
  BY <1>1, <1>2, <1>5, <1>8, <1>9, <1>10 DEF Kept


\* Until the client is active, and until the ports of the outputs are destroyed.
Building ==
  {"started", "renderer", "recorder", "loaded", "constructed", "tracking", "tracked"}
Opened == Building \ {"started"}

PortsRight(s, gone, ph, free, prefix) ==
  /\ \A port \in gone : port[1] = "in"
  /\ Kept(s, s.client.active, ph \in Building, ph \in Opened /\ ~ free, prefix)
  /\ ph = "started" => s.client.pending = {}

Free == conf.FREEWHEEL \/ ignored \/ conf.OUTPUT_PREFIX = NoPrefix

\* Everything that is connected or pending has been asked for or has the name of a
\* port that is gone; everything that has been asked for is pending until the client
\* is active, and so are the connections of the outputs.
PortsInv == PortsRight(SourcesNow, doomed, phase, Free, conf.OUTPUT_PREFIX)

LEMMA NowIsState == IsState(SourcesNow) /\ IsState(SourcesNow)'
BY DEF IsState, SourcesNow

LEMMA NamesOfOthers ==
  \A port \in Visitors \cup UNION Hardware : ~ Own(port) /\ port[1] # NoPrefix
BY PortsAssumption, Zenon DEF Own, NoPrefix

LEMMA SettingsThere ==
  "FREEWHEEL" \in DOMAIN Defaults /\ "GUI" \in DOMAIN Defaults
  /\ "OUTPUT_PREFIX" \in DOMAIN Defaults
<1>1. ASSUME NEW e
      PROVE  LET d == [NAME |-> e, SCENE_FILE_NAME |-> e, AUDIO_RECORDER_FILE_NAME |-> e,
                       OUTPUT_PREFIX |-> "system:playback_", TRACKER |-> e,
                       IN_PHASE_RENDERING |-> "false", FREEWHEEL |-> FALSE, GUI |-> TRUE,
                       NETWORK_INTERFACE |-> TRUE]
             IN  "FREEWHEEL" \in DOMAIN d /\ "GUI" \in DOMAIN d /\ "OUTPUT_PREFIX" \in DOMAIN d
  OBVIOUS
<1> QED
  BY <1>1, Zenon DEF Defaults

\* An action that makes t of the ports.
LEMMA PortsBecome ==
  ASSUME NEW t, IsState(t), Becomes(t) PROVE SourcesNow' = t
BY DEF IsState, Becomes, SourcesNow

LEMMA RightAfter ==
  ASSUME NEW s, NEW gone, NEW ph, NEW free, NEW prefix, PortsRight(s, gone, ph, free, prefix),
         NEW t, NEW gone1, \A port \in gone1 : port[1] = "in",
         NEW ph1, ph1 \in Building => ph \in Building, ph1 \in Opened => ph \in Opened,
         ph1 = "started" => t.client.pending = {},
         \A active, waits, outputs, p :
           Kept(s, active, waits, outputs, p) => Kept(t, active, waits, outputs, p)
  PROVE  PortsRight(t, gone1, ph1, free, prefix) /\ t.client.active = s.client.active
<1>1. PICK a, w, o : a = s.client.active /\ w = (ph \in Building)
                     /\ o = (ph \in Opened /\ ~ free)
  OBVIOUS
<1>2. Kept(s, a, ph \in Building, ph \in Opened /\ ~ free, prefix)
  BY <1>1 DEF PortsRight
<1>3. Kept(t, a, ph \in Building, ph \in Opened /\ ~ free, prefix)
  BY <1>2
<1>4. t.client.active = a
  BY <1>3 DEF Kept
<1>5. Kept(t, a, ph1 \in Building, ph1 \in Opened /\ ~ free, prefix)
  BY <1>3, KeptFor
<1> QED
  BY <1>1, <1>4, <1>5 DEF PortsRight

\* An action that changes the ports to t, and nothing in the configuration.
LEMMA PortsStay ==
  ASSUME PortsInv, UNCHANGED <<conf, ignored>>, NEW t, SourcesNow' = t,
         \A port \in doomed' : port[1] = "in",
         phase' \in Building => phase \in Building, phase' \in Opened => phase \in Opened,
         phase' = "started" => phase = "started" /\ t.client.pending = client.pending,
         \A s, active, waits, outputs, p :
           s = SourcesNow /\ Kept(s, active, waits, outputs, p)
             => Kept(t, active, waits, outputs, p)
  PROVE  PortsInv' /\ client'.active = client.active
<1>1. PICK s, gone, ph, free, prefix :
        s = SourcesNow /\ gone = doomed /\ ph = phase /\ free = Free
        /\ prefix = conf.OUTPUT_PREFIX
  OBVIOUS
<1>2. PICK gone1, ph1 : gone1 = doomed' /\ ph1 = phase'
  OBVIOUS
<1>3. Free' = free /\ conf'.OUTPUT_PREFIX = prefix
  BY <1>1 DEF Free
<1>4. s.client = client /\ t.client = client'
  BY <1>1 DEF SourcesNow
<1>5. PortsRight(s, gone, ph, free, prefix)
  BY <1>1 DEF PortsInv
<1>6. ph1 = "started" => t.client.pending = {}
  BY <1>1, <1>2, <1>4, <1>5 DEF PortsRight
<1>7. \A active, waits, outputs, p :
        Kept(s, active, waits, outputs, p) => Kept(t, active, waits, outputs, p)
  BY <1>1
<1>8. PortsRight(t, gone1, ph1, free, prefix) /\ t.client.active = s.client.active
  BY <1>1, <1>2, <1>5, <1>6, <1>7, RightAfter
<1> QED
  BY <1>2, <1>3, <1>4, <1>8 DEF PortsInv

\* An action that leaves the ports alone.
LEMMA PortsAlone ==
  ASSUME PortsInv, UNCHANGED <<conf, ignored, portVars>>,
         phase' \in Building => phase \in Building, phase' \in Opened => phase \in Opened,
         phase' = "started" => phase = "started"
  PROVE  PortsInv' /\ client'.active = client.active
<1>1. PICK t : t = SourcesNow
  OBVIOUS
<1>2. SourcesNow' = t /\ t.client = client /\ UNCHANGED <<conf, ignored, doomed>>
  BY <1>1 DEF SourcesNow, portVars
<1>3. \A port \in doomed' : port[1] = "in"
  BY <1>2 DEF PortsInv, PortsRight
<1>4. \A s, active, waits, outputs, p :
        s = SourcesNow /\ Kept(s, active, waits, outputs, p)
          => Kept(t, active, waits, outputs, p)
  BY <1>1
<1> QED
  BY <1>2, <1>3, <1>4, PortsStay


\* load_scene() as a function of the state of the ports.
Emptied(s, ports) == [Without(s, ports) EXCEPT !.sources = {}, !.highest_id = 0]
SceneOf(s, scene) ==
  LET added[n \in 0..Len(scene)] == IF n = 0 THEN s ELSE AddSource(added[n - 1], scene[n])
  IN  added[Len(scene)]

LEMMA ScenePorts ==
  ASSUME PortsInv, UNCHANGED <<conf, ignored>>, phase' # "started",
         phase' \in Building => phase \in Building, phase' \in Opened => phase \in Opened,
         NEW scene, Len(scene) \in Nat, LoadScene(scene)
  PROVE  PortsInv' /\ client'.active = client.active
<1>1. PICK ports : ports = doomed \cup {InputPort(id) : id \in sources}
  OBVIOUS
<1>2. \A port \in ports : Own(port) /\ port[1] # "out"
  BY <1>1 DEF PortsInv, PortsRight, InputPort, Own
<1>3. PICK s0 : s0 = SourcesNow
  OBVIOUS
<1>4. PICK empty : empty = Emptied(s0, ports)
  OBVIOUS
<1>5. PICK t : t = SceneOf(empty, scene)
  OBVIOUS
<1>6. Becomes(t) /\ doomed' = {}
  <2>1. Becomes(SceneOf(Emptied(SourcesNow, ports), scene)) /\ doomed' = {}
    BY <1>1, Zenon DEF LoadScene, SceneOf, Emptied
  <2> QED
    BY <1>3, <1>4, <1>5, <2>1
<1>7. ASSUME NEW active, NEW waits, NEW outputs, NEW p, Kept(s0, active, waits, outputs, p)
      PROVE  Kept(t, active, waits, outputs, p)
  <2>1. Kept(Without(s0, ports), active, waits, outputs, p)
    BY <1>2, <1>7, PortsDestroyed
  <2>2. PICK without : without = Without(s0, ports)
    OBVIOUS
  <2>3. Kept(without, active, waits, outputs, p)
    BY <2>1, <2>2
  <2>4. Kept([without EXCEPT !.sources = {}, !.highest_id = 0], active, waits, outputs, p)
    BY <2>3, SourcesReplaced
  <2>5. empty = [without EXCEPT !.sources = {}, !.highest_id = 0]
    BY <1>4, <2>2 DEF Emptied
  <2>6. Kept(empty, active, waits, outputs, p)
    BY <2>4, <2>5
  <2>7. Kept(SceneOf(empty, scene), active, waits, outputs, p)
    BY <2>6, SceneAdded, Zenon DEF SceneOf
  <2> QED
    BY <1>5, <2>7
<1>8. IsState(t)
  <2>1. Kept(s0, client.active, phase \in Building, phase \in Opened /\ ~ Free, conf.OUTPUT_PREFIX)
    BY <1>3 DEF PortsInv, PortsRight, SourcesNow
  <2>2. Kept(s0, client.active, FALSE, FALSE, conf.OUTPUT_PREFIX)
    BY <2>1 DEF Kept
  <2>3. Kept(t, client.active, FALSE, FALSE, conf.OUTPUT_PREFIX)
    BY <1>7, <2>2
  <2> QED
    BY <2>3 DEF Kept, StateInv
<1>9. SourcesNow' = t
  BY <1>6, <1>8, PortsBecome
<1>10. \A s, active, waits, outputs, p :
         s = SourcesNow /\ Kept(s, active, waits, outputs, p)
           => Kept(t, active, waits, outputs, p)
  BY <1>3, <1>7
<1> QED
  BY <1>6, <1>9, <1>10, PortsStay

LEMMA NewSourcePorts ==
  ASSUME PortsInv, UNCHANGED <<conf, ignored, phase>>, phase # "started",
         NEW target, NewSource(target)
  PROVE  PortsInv' /\ client'.active = client.active
<1>1. PICK s0 : s0 = SourcesNow
  OBVIOUS
<1>2. PICK t : t = AddSource(s0, target)
  OBVIOUS
<1>3. Becomes(t) /\ UNCHANGED doomed
  BY <1>1, <1>2 DEF NewSource
<1>4. IsState(t)
  BY <1>2 DEF AddSource, IsState
<1>5. SourcesNow' = t
  BY <1>3, <1>4, PortsBecome
<1>6. \A s, active, waits, outputs, p :
        s = SourcesNow /\ Kept(s, active, waits, outputs, p)
          => Kept(t, active, waits, outputs, p)
  BY <1>1, <1>2, SourceAdded
<1>7. \A port \in doomed' : port[1] = "in"
  BY <1>3 DEF PortsInv, PortsRight
<1> QED
  BY <1>5, <1>6, <1>7, PortsStay

\* Some of the inputs go, and the sources are others.
LEMMA InputsGone ==
  ASSUME PortsInv, UNCHANGED <<conf, ignored, phase>>,
         NEW S, NEW ports, \A port \in ports : port[1] = "in",
         NEW s0, s0 = [SourcesNow EXCEPT !.sources = S],
         NEW t, t = s0 \/ t = Without(s0, ports), Becomes(t),
         \A port \in doomed' : port[1] = "in"
  PROVE  PortsInv' /\ client'.active = client.active
<1>1. PICK s1 : s1 = SourcesNow
  OBVIOUS
<1>2. ASSUME NEW active, NEW waits, NEW outputs, NEW p, Kept(s1, active, waits, outputs, p)
      PROVE  Kept(t, active, waits, outputs, p)
  <2>1. Kept(s0, active, waits, outputs, p)
    BY <1>1, <1>2, SourcesReplaced
  <2>2. \A port \in ports : Own(port) /\ port[1] # "out"
    BY DEF Own
  <2>3. Kept(Without(s0, ports), active, waits, outputs, p)
    BY <2>1, <2>2, PortsDestroyed
  <2> QED
    BY <2>1, <2>3
<1>3. Kept(s1, client.active, phase \in Building, phase \in Opened /\ ~ Free, conf.OUTPUT_PREFIX)
  BY <1>1 DEF PortsInv, PortsRight, SourcesNow
<1>4. Kept(s1, client.active, FALSE, FALSE, conf.OUTPUT_PREFIX)
  BY <1>3 DEF Kept
<1>5. Kept(t, client.active, FALSE, FALSE, conf.OUTPUT_PREFIX)
  BY <1>2, <1>4
<1>6. IsState(t)
  BY <1>5 DEF Kept, StateInv
<1>7. SourcesNow' = t
  BY <1>6, PortsBecome
<1>8. t.client.pending = client.pending
  <2>1. IsState(s1) /\ s1.client = client /\ IsClient(client)
    BY <1>1, <1>4 DEF Kept, StateInv, SourcesNow
  <2>2. s0.client = client
    BY <1>1, <2>1 DEF IsState
  <2>3. IsState(s0)
    BY <1>1, <2>1 DEF IsState
  <2>4. PICK asked2, stale2, e :
          asked2 = {c \in s0.asked : c[2] \notin ports} /\ stale2 = s0.stale \ ports
          /\ e = unregister_ports(s0.client, ports)
    OBVIOUS
  <2>5. Without(s0, ports) = [s0 EXCEPT !.client = e, !.asked = asked2, !.stale = stale2]
    BY <2>4 DEF Without
  <2>6. Without(s0, ports).client = e
    BY <2>3, <2>5 DEF IsState
  <2>7. e.pending = client.pending
    BY <2>1, <2>2, <2>4, PortsGone
  <2> QED
    BY <2>2, <2>6, <2>7
<1>9. \A s, active, waits, outputs, p :
        s = SourcesNow /\ Kept(s, active, waits, outputs, p)
          => Kept(t, active, waits, outputs, p)
  BY <1>1, <1>2
<1> QED
  BY <1>7, <1>8, <1>9, PortsStay

LEMMA DeleteSourcePorts ==
  ASSUME PortsInv, UNCHANGED <<conf, ignored, phase>>, NEW id, DeleteSource(id)
  PROVE  PortsInv' /\ client'.active = client.active
<1>1. PICK S, ports : S = sources \ {id} /\ ports = {InputPort(id)}
  OBVIOUS
<1>2. PICK s0 : s0 = [SourcesNow EXCEPT !.sources = S]
  OBVIOUS
<1>3. s0 = [SourcesNow EXCEPT !.sources = @ \ {id}]
  BY <1>1, <1>2 DEF SourcesNow
<1>4. PICK t : t = IF client.active THEN s0 ELSE Without(s0, ports)
  OBVIOUS
<1>5. Becomes(t) /\ (doomed' = doomed \/ doomed' = doomed \cup ports)
  BY <1>1, <1>3, <1>4 DEF DeleteSource
<1>6. \A port \in ports : port[1] = "in"
  BY <1>1 DEF InputPort
<1>7. \A port \in doomed' : port[1] = "in"
  BY <1>5, <1>6 DEF PortsInv, PortsRight
<1> QED
  BY <1>2, <1>4, <1>5, <1>6, <1>7, InputsGone

LEMMA CleanUpPorts ==
  ASSUME PortsInv, CleanUp PROVE PortsInv' /\ client'.active = client.active
<1>1. PICK s0, ports, S : s0 = SourcesNow /\ ports = doomed /\ S = sources
  OBVIOUS
<1>2. s0 = [SourcesNow EXCEPT !.sources = S]
  BY <1>1 DEF SourcesNow
<1>3. PICK t : t = Without(s0, ports)
  OBVIOUS
<1>4. Becomes(t) /\ doomed' = {} /\ UNCHANGED <<conf, ignored, phase>>
  BY <1>1, <1>3 DEF CleanUp, configVars
<1>5. \A port \in ports : port[1] = "in"
  BY <1>1 DEF PortsInv, PortsRight
<1> QED
  BY <1>2, <1>3, <1>4, <1>5, InputsGone


LEMMA ConfigurePorts ==
  ASSUME PortsInv, UNCHANGED <<ignored, portVars>>, phase = "started",
         phase' \in {"started", "ended"}
  PROVE  PortsInv' /\ client'.active = client.active
<1>1. PICK s, gone, prefix : s = SourcesNow /\ gone = doomed /\ prefix = conf'.OUTPUT_PREFIX
  OBVIOUS
<1>2. SourcesNow' = s /\ doomed' = gone /\ client' = client /\ s.client = client
  BY <1>1 DEF SourcesNow, portVars
<1>3. /\ \A port \in gone : port[1] = "in"
      /\ s.client.pending = {}
      /\ Kept(s, s.client.active, phase \in Building, phase \in Opened /\ ~ Free,
              conf.OUTPUT_PREFIX)
  BY <1>1, <1>2 DEF PortsInv, PortsRight
<1>4. phase \in Building /\ phase' \notin Opened
  BY DEF Building, Opened
<1>5. Kept(s, s.client.active, phase' \in Building, phase' \in Opened /\ ~ Free', prefix)
  BY <1>3, <1>4 DEF Kept
<1> QED
  BY <1>1, <1>2, <1>3, <1>5 DEF PortsInv, PortsRight

\* The ports of the outputs, and what they are connected with.
LEMMA OutputsMade ==
  ASSUME NEW s, Kept(s, FALSE, TRUE, FALSE, NoPrefix), s.client.pending = {},
         NEW wanted, NEW t, IsState(t), t.client = NewPorts(s.client, OutputPorts, wanted),
         t.asked = wanted, t.stale = s.stale, NEW prefix
  PROVE  Kept(t, FALSE, TRUE, wanted = Connections(prefix), prefix)
<1>1. PICK c, e, names : c = s.client /\ e = t.client /\ names = OutputPorts
  OBVIOUS
<1>2. /\ IsClient(c) /\ \A port \in c.ports : Own(port)
      /\ \A port \in c.others : ~ Own(port) /\ port[1] # NoPrefix
      /\ c.active = FALSE /\ c.connections = {} /\ c.pending = {}
  BY <1>1 DEF Kept, StateInv, Waiting
<1>3. e = NewPorts(c, names, wanted)
  BY <1>1
<1>4. /\ IsClient(e) /\ e.ports = c.ports \cup names
      /\ e.active = c.active /\ e.others = c.others
      /\ \E possible \in SUBSET wanted :
           /\ ~ c.active => possible = {}
           /\ e.connections = c.connections \cup possible
           /\ e.pending = c.pending \cup (wanted \ possible)
  BY <1>2, <1>3, PortsMade
<1>5. e.active = FALSE /\ e.connections = {} /\ e.pending = wanted
  BY <1>2, <1>4
<1>6. \A port \in names : Own(port)
  BY <1>1 DEF OutputPorts, Own
<1>7. ConnectionsInv(e, wanted, t.stale)
  BY <1>5 DEF ConnectionsInv
<1>8. StateInv(t)
  BY <1>1, <1>2, <1>4, <1>6, <1>7 DEF StateInv
<1>9. Waiting(t)
  BY <1>1, <1>5 DEF Waiting
<1>10. ASSUME wanted = Connections(prefix) PROVE OutputsWait(t, prefix)
  BY <1>1, <1>4, <1>5, <1>10 DEF OutputsWait, OutputPorts, Connections
<1> QED
  BY <1>1, <1>5, <1>8, <1>9, <1>10 DEF Kept

LEMMA OpenRendererPorts ==
  ASSUME PortsInv, InputInv, OpenRenderer
  PROVE  PortsInv' /\ client'.active = client.active
<1>1. PICK s, wanted, prefix, t :
        s = SourcesNow /\ wanted = asked' /\ prefix = system_output_prefix(conf)
        /\ t = SourcesNow'
  OBVIOUS
<1>2. /\ phase = "started" /\ phase' = "renderer"
      /\ client' = NewPorts(client, OutputPorts, wanted)
      /\ ignored' = (conf.NETWORK_INTERFACE /\ conf.FREEWHEEL)
      /\ conf' = IF conf.NETWORK_INTERFACE THEN [conf EXCEPT !.FREEWHEEL = FALSE]
                 ELSE [conf EXCEPT !.GUI = conf.GUI /\ ~ conf.FREEWHEEL]
      /\ UNCHANGED <<sources, highest_id, doomed, stale>>
  BY <1>1, Zenon DEF OpenRenderer
<1>3. prefix # NoPrefix => wanted = Connections(prefix)
  BY <1>1, Zenon DEF OpenRenderer, NoPrefix
<1>4. ~ conf.FREEWHEEL => prefix = conf.OUTPUT_PREFIX
  BY <1>1, Zenon DEF system_output_prefix
<1>5. DOMAIN conf = DOMAIN Defaults
  BY DEF InputInv
<1>6. conf'.OUTPUT_PREFIX = conf.OUTPUT_PREFIX
  BY <1>2, <1>5, SettingsThere
<1>7. ~ Free' => ~ conf.FREEWHEEL /\ conf.OUTPUT_PREFIX # NoPrefix
  <2>1. CASE conf.NETWORK_INTERFACE
    <3>1. ~ ignored' => ~ conf.FREEWHEEL
      BY <1>2, <2>1
    <3> QED
      BY <1>6, <3>1 DEF Free
  <2>2. CASE ~ conf.NETWORK_INTERFACE
    <3>1. conf'.FREEWHEEL = conf.FREEWHEEL
      BY <1>2, <1>5, <2>2, SettingsThere
    <3> QED
      BY <1>6, <3>1 DEF Free
  <2> QED
    BY <2>1, <2>2
<1>8. ~ Free' => wanted = Connections(conf'.OUTPUT_PREFIX)
  BY <1>3, <1>4, <1>6, <1>7
<1>9. /\ s.client = client /\ s.stale = stale /\ IsState(t) /\ t.client = client'
      /\ t.asked = wanted /\ t.stale = stale
  BY <1>1, <1>2 DEF SourcesNow, IsState
<1>10. s.client.pending = {} /\ \A port \in doomed : port[1] = "in"
  BY <1>1, <1>2 DEF PortsInv, PortsRight
<1>11. Kept(s, FALSE, TRUE, FALSE, NoPrefix)
  <2>1. Kept(s, s.client.active, phase \in Building, phase \in Opened /\ ~ Free,
             conf.OUTPUT_PREFIX)
    BY <1>1 DEF PortsInv, PortsRight
  <2>2. phase \in Building
    BY <1>2 DEF Building
  <2>3. StateInv(s) /\ Waiting(s)
    BY <2>1, <2>2 DEF Kept
  <2>4. s.client.active = FALSE
    BY <2>1, <2>3 DEF Kept, Waiting
  <2> QED
    BY <2>3, <2>4 DEF Kept
<1>12. PICK prefix1 : prefix1 = conf'.OUTPUT_PREFIX
  OBVIOUS
<1>13. t.client = NewPorts(s.client, OutputPorts, wanted) /\ t.stale = s.stale
  BY <1>2, <1>9
<1>14. Kept(t, FALSE, TRUE, wanted = Connections(prefix1), prefix1)
  BY <1>9, <1>10, <1>11, <1>13, OutputsMade
<1>15. t.client.active = FALSE
  BY <1>14 DEF Kept
<1>16. Kept(t, t.client.active, phase' \in Building, phase' \in Opened /\ ~ Free', prefix1)
  BY <1>8, <1>12, <1>14, <1>15 DEF Kept
<1>17. PortsInv'
  BY <1>1, <1>2, <1>10, <1>12, <1>16 DEF PortsInv, PortsRight
<1> QED
  BY <1>9, <1>11, <1>15, <1>17 DEF Kept

LEMMA LoadRecorderPorts ==
  ASSUME PortsInv, LoadRecorder PROVE PortsInv' /\ client'.active = client.active
<1>1. /\ phase = "renderer" /\ phase' \in {"recorder", "failed"}
      /\ UNCHANGED <<conf, ignored, sources, highest_id, doomed, stale>>
      /\ \/ client' = client /\ asked' = asked
         \/ /\ client' = connect_ports(client, Connections("recorder"))
            /\ asked' = asked \cup Connections("recorder")
  BY Zenon DEF LoadRecorder, configVars
<1>2. PICK s0, t, X : s0 = SourcesNow /\ t = SourcesNow' /\ X = Connections("recorder")
  OBVIOUS
<1>3. /\ s0.client = client /\ s0.asked = asked /\ s0.stale = stale
      /\ IsState(t) /\ t.client = client' /\ t.asked = asked' /\ t.stale = stale
  BY <1>1, <1>2 DEF SourcesNow, IsState
<1>4. /\ phase' \in Building => phase \in Building
      /\ phase' \in Opened => phase \in Opened
      /\ phase' # "started"
  BY <1>1 DEF Building, Opened
<1>5. \A port \in doomed' : port[1] = "in"
  BY <1>1 DEF PortsInv, PortsRight
<1>6. ASSUME NEW active, NEW waits, NEW outputs, NEW p, Kept(s0, active, waits, outputs, p)
      PROVE  Kept(t, active, waits, outputs, p)
  <2>1. CASE client' = client /\ asked' = asked
    BY <1>3, <1>6, <2>1, SourcesChanged
  <2>2. CASE /\ client' = connect_ports(client, Connections("recorder"))
             /\ asked' = asked \cup Connections("recorder")
    <3>1. t.client = connect_ports(s0.client, X) /\ t.asked = s0.asked \cup X
          /\ t.stale = s0.stale
      BY <1>2, <1>3, <2>2
    <3> QED
      BY <1>3, <1>6, <3>1, ConnectionsAsked
  <2> QED
    BY <1>1, <2>1, <2>2
<1>7. \A s, active, waits, outputs, p :
        s = SourcesNow /\ Kept(s, active, waits, outputs, p)
          => Kept(t, active, waits, outputs, p)
  BY <1>2, <1>6
<1> QED
  BY <1>1, <1>2, <1>4, <1>5, <1>7, PortsStay


\* The client has another state, its own ports and what is pending stay.
LEMMA ClientSteps ==
  ASSUME PortsInv, UNCHANGED <<conf, ignored, sources, highest_id, doomed, asked, stale>>,
         phase' \notin Building,
         NEW e, client' = e, IsClient(e), e.ports = client.ports,
         \A port \in e.others : ~ Own(port) /\ port[1] # NoPrefix,
         ConnectionsInv(e, asked, stale)
  PROVE  PortsInv'
<1>1. PICK s, t, a : s = SourcesNow /\ t = SourcesNow' /\ a = e.active
  OBVIOUS
<1>2. /\ s.client = client /\ s.asked = asked /\ s.stale = stale
      /\ IsState(t) /\ t.client = e /\ t.asked = asked /\ t.stale = stale
  BY <1>1 DEF SourcesNow, IsState
<1>3. StateInv(s) /\ \A port \in doomed : port[1] = "in"
  BY <1>1 DEF PortsInv, PortsRight, Kept
<1>4. StateInv(t)
  BY <1>2, <1>3 DEF StateInv
<1>5. phase' \notin Building /\ phase' \notin Opened /\ phase' # "started"
  BY DEF Opened, Building
<1>6. Kept(t, t.client.active, phase' \in Building, phase' \in Opened /\ ~ Free',
           conf'.OUTPUT_PREFIX)
  BY <1>4, <1>5 DEF Kept
<1> QED
  BY <1>1, <1>3, <1>5, <1>6 DEF PortsInv, PortsRight

LEMMA ClientIsRight ==
  ASSUME PortsInv
  PROVE  /\ IsClient(client)
         /\ \A port \in client.ports : Own(port)
         /\ \A port \in client.others : ~ Own(port) /\ port[1] # NoPrefix
         /\ ConnectionsInv(client, asked, stale)
         /\ phase \in Building => ~ client.active /\ client.connections = {}
                                  /\ asked \subseteq client.pending
         /\ phase \in Opened /\ ~ Free => OutputsWait(SourcesNow, conf.OUTPUT_PREFIX)
<1>1. PICK s : s = SourcesNow
  OBVIOUS
<1>2. s.client = client /\ s.asked = asked /\ s.stale = stale
  BY <1>1 DEF SourcesNow
<1>3. /\ StateInv(s)
      /\ phase \in Building => Waiting(s)
      /\ phase \in Opened /\ ~ Free => OutputsWait(s, conf.OUTPUT_PREFIX)
  BY <1>1 DEF PortsInv, PortsRight, Kept
<1>4. /\ IsClient(client)
      /\ \A port \in client.ports : Own(port)
      /\ \A port \in client.others : ~ Own(port) /\ port[1] # NoPrefix
      /\ ConnectionsInv(client, asked, stale)
  BY <1>2, <1>3 DEF StateInv
<1>5. phase \in Building => ~ client.active /\ client.connections = {}
                           /\ asked \subseteq client.pending
  BY <1>2, <1>3 DEF Waiting
<1>6. phase \in Opened /\ ~ Free => OutputsWait(SourcesNow, conf.OUTPUT_PREFIX)
  BY <1>1, <1>3, Zenon
<1> QED
  BY <1>4, <1>5, <1>6, Zenon

LEMMA ActivatePorts ==
  ASSUME PortsInv, Activate PROVE PortsInv'
<1>1. CASE client' = activate(client) /\ phase' = "running"
  <2>1. PICK c, e : c = client /\ e = client'
    OBVIOUS
  <2>2. /\ IsClient(e) /\ e.ports = c.ports /\ e.others = c.others
        /\ \A x : x \in e.connections <=>
                   x \in c.connections \/ (x \in c.pending /\ CanConnect(e, x))
        /\ e.pending \subseteq c.pending
    <3>1. IsClient(c) /\ e = activate(c)
      BY <1>1, <2>1, ClientIsRight
    <3> QED
      BY <3>1, ClientActivated, Zenon
  <2>3. phase = "tracked" /\ phase' \notin Building
        /\ UNCHANGED <<conf, ignored, sources, highest_id, doomed, asked, stale>>
    BY <1>1 DEF Activate, Building, configVars
  <2>4. phase \in Building
    BY <2>3 DEF Building
  <2>5. ConnectionsInv(e, asked, stale)
    <3>1. ConnectionsInv(c, asked, stale)
      BY <2>1, ClientIsRight
    <3>2. ASSUME NEW x \in e.connections PROVE x[2] \in stale \/ x \in asked
      <4>1. CASE x \in c.connections
        BY <3>1, <4>1 DEF ConnectionsInv
      <4>2. CASE x \in c.pending /\ CanConnect(e, x)
        <5>1. SUFFICES ASSUME Own(x[2]) /\ x[2] \notin c.ports PROVE FALSE
          BY <3>1, <4>2 DEF ConnectionsInv
        <5>2. x[2] \in e.ports \cup e.others
          BY <4>2 DEF CanConnect
        <5>3. \A port \in c.others : ~ Own(port)
          BY <2>1, ClientIsRight
        <5> QED
          BY <2>2, <5>1, <5>2, <5>3
      <4> QED
        BY <2>2, <4>1, <4>2
    <3>3. \A x \in e.pending : x[2] \in stale \/ x \in asked \/ (Own(x[2]) /\ x[2] \notin e.ports)
      BY <2>2, <3>1 DEF ConnectionsInv
    <3> QED
      BY <3>2, <3>3 DEF ConnectionsInv
  <2>6. \A port \in e.others : ~ Own(port) /\ port[1] # NoPrefix
    BY <2>1, <2>2, ClientIsRight
  <2> QED
    BY <2>1, <2>2, <2>3, <2>5, <2>6, ClientSteps
<1>2. CASE client' = client /\ phase' = "leaving"
  <2>1. PICK e : e = client
    OBVIOUS
  <2>2. phase' \notin Building
        /\ UNCHANGED <<conf, ignored, sources, highest_id, doomed, asked, stale>>
    BY <1>2 DEF Activate, Building, configVars
  <2>3. /\ IsClient(e) /\ ConnectionsInv(e, asked, stale)
        /\ \A port \in e.others : ~ Own(port) /\ port[1] # NoPrefix
    BY <2>1, ClientIsRight
  <2> QED
    BY <1>2, <2>1, <2>2, <2>3, ClientSteps
<1> QED
  BY <1>1, <1>2 DEF Activate

LEMMA DeactivatePorts ==
  ASSUME PortsInv, Deactivate PROVE PortsInv' /\ ~ client'.active
<1>1. PICK c, e : c = client /\ e = client'
  OBVIOUS
<1>2. e = deactivate(c) /\ phase' \notin Building
      /\ UNCHANGED <<conf, ignored, sources, highest_id, doomed, asked, stale>>
  BY <1>1 DEF Deactivate, Building, configVars
<1>3. /\ IsClient(e) /\ e.ports = c.ports /\ e.active = FALSE /\ e.pending = c.pending
      /\ e.connections = {} /\ e.others = c.others
  BY <1>1, <1>2, ClientIsRight, ClientDeactivated
<1>4. ConnectionsInv(c, asked, stale)
      /\ \A port \in c.others : ~ Own(port) /\ port[1] # NoPrefix
  BY <1>1, ClientIsRight
<1>5. ConnectionsInv(e, asked, stale)
  BY <1>3, <1>4 DEF ConnectionsInv
<1> QED
  BY <1>1, <1>2, <1>3, <1>4, <1>5, ClientSteps

LEMMA VisitorPorts ==
  ASSUME PortsInv, VisitorStep PROVE PortsInv' /\ client'.active = client.active
<1>1. PICK port \in Visitors :
        client' = IF port \in client.others THEN Vanish(client, port) ELSE Appear(client, port)
  BY Zenon DEF VisitorStep
<1>2. UNCHANGED <<phase, conf, ignored, sources, highest_id, doomed, asked, stale>>
  BY Zenon DEF VisitorStep, configVars
<1>3. phase # "started"
  BY Zenon DEF VisitorStep
<1>4. PICK s0, t, c, e : s0 = SourcesNow /\ t = SourcesNow' /\ c = client /\ e = client'
  OBVIOUS
<1>5. /\ s0.client = c /\ s0.asked = asked /\ s0.stale = stale
      /\ IsState(t) /\ t.client = e /\ t.asked = asked /\ t.stale = stale
  BY <1>2, <1>4 DEF SourcesNow, IsState
<1>6. IsClient(c) /\ \A p \in c.others : ~ Own(p) /\ p[1] # NoPrefix
  BY <1>4, ClientIsRight
<1>7. e = Appear(c, port) \/ e = Vanish(c, port)
  BY <1>1, <1>4
<1>8. /\ IsClient(e) /\ e.ports = c.ports /\ e.active = c.active /\ e.pending = c.pending
      /\ e.connections \subseteq c.connections /\ e.others \subseteq c.others \cup {port}
  BY <1>6, <1>7, VisitorComes
<1>9. \A p \in e.others : ~ Own(p) /\ p[1] # NoPrefix
  BY <1>6, <1>8, NamesOfOthers
<1>10. ASSUME NEW active, NEW waits, NEW outputs, NEW p, Kept(s0, active, waits, outputs, p)
       PROVE  Kept(t, active, waits, outputs, p)
  <2>1. /\ e.ports = s0.client.ports /\ e.pending = s0.client.pending
        /\ e.connections \subseteq s0.client.connections /\ e.active = s0.client.active
        /\ t.asked = s0.asked /\ t.stale = s0.stale
    BY <1>5, <1>8
  <2> QED
    BY <1>5, <1>8, <1>9, <1>10, <2>1, ClientChanged
<1>11. \A s, active, waits, outputs, p :
         s = SourcesNow /\ Kept(s, active, waits, outputs, p)
           => Kept(t, active, waits, outputs, p)
  BY <1>4, <1>10
<1>12. \A p \in doomed' : p[1] = "in"
  BY <1>2 DEF PortsInv, PortsRight
<1> QED
  BY <1>2, <1>3, <1>4, <1>11, <1>12, PortsStay

LEMMA FinishPorts ==
  ASSUME PortsInv, Finish PROVE PortsInv' /\ client'.active = client.active
<1>1. PICK s, ports, s1, t :
        s = SourcesNow /\ ports = client.ports /\ s1 = [s EXCEPT !.sources = {}]
        /\ t = Without(s1, ports)
  OBVIOUS
<1>2. /\ Becomes(t) /\ doomed' = {} /\ phase' = "ended" /\ UNCHANGED <<conf, ignored>>
  BY <1>1 DEF Finish, configVars
<1>3. PICK a : a = client.active
  OBVIOUS
<1>4. s.client = client
  BY <1>1 DEF SourcesNow
<1>5. Kept(s, a, phase \in Building, phase \in Opened /\ ~ Free, conf.OUTPUT_PREFIX)
  BY <1>1, <1>3, <1>4 DEF PortsInv, PortsRight
<1>6. Kept(s, a, FALSE, FALSE, NoPrefix)
  BY <1>5 DEF Kept
<1>7. Kept(s1, a, FALSE, FALSE, NoPrefix)
  BY <1>1, <1>6, SourcesReplaced
<1>8. \A port \in ports : Own(port)
  BY <1>1, ClientIsRight
<1>9. Kept(t, a, FALSE, FALSE, NoPrefix)
  BY <1>1, <1>7, <1>8, PortsDestroyed
<1>10. IsState(t) /\ t.client.active = a
  BY <1>9 DEF Kept, StateInv
<1>11. SourcesNow' = t /\ client' = t.client
  BY <1>2, <1>10, PortsBecome DEF Becomes
<1>12. phase' \notin Building /\ phase' \notin Opened /\ phase' # "started"
  BY <1>2 DEF Building, Opened
<1>13. Kept(t, t.client.active, phase' \in Building, phase' \in Opened /\ ~ Free',
            conf'.OUTPUT_PREFIX)
  BY <1>9, <1>10, <1>12 DEF Kept
<1> QED
  BY <1>2, <1>3, <1>10, <1>11, <1>12, <1>13 DEF PortsInv, PortsRight


LEMMA SceneLength ==
  /\ \A scene \in Scenes : Len(scene) \in Nat
  /\ Len(<<>>) \in Nat
<1>1. ASSUME NEW scene \in Scenes PROVE Len(scene) \in Nat
  <2>1. PICK S : scene \in Seq(S)
    BY ScenesAssumption DEF IsSequence
  <2> QED
    BY <2>1
<1> QED
  BY <1>1

LEMMA FirstPorts == ProgramInit => PortsInv
<1> SUFFICES ASSUME ProgramInit PROVE PortsInv
  OBVIOUS
<1>1. PICK others \in Hardware : client = NewClient(others)
  BY Zenon DEF ProgramInit
<1>2. phase = "started" /\ doomed = {} /\ asked = {} /\ stale = {}
  BY Zenon DEF ProgramInit
<1>3. PICK s, c : s = SourcesNow /\ c = client
  OBVIOUS
<1>4. IsState(s) /\ s.client = c /\ s.asked = {} /\ s.stale = {}
  BY <1>2, <1>3 DEF SourcesNow, IsState
<1>5. /\ IsClient(c) /\ c.ports = {} /\ c.connections = {} /\ c.pending = {}
      /\ c.active = FALSE /\ c.others = others
  BY <1>1, <1>3 DEF NewClient, IsClient
<1>6. \A port \in others : ~ Own(port) /\ port[1] # NoPrefix
  BY NamesOfOthers
<1>7. StateInv(s)
  BY <1>4, <1>5, <1>6 DEF StateInv, ConnectionsInv
<1>8. Waiting(s)
  BY <1>4, <1>5 DEF Waiting
<1>9. phase \notin Opened
  BY <1>2 DEF Opened
<1>10. Kept(s, s.client.active, phase \in Building, phase \in Opened /\ ~ Free,
            conf.OUTPUT_PREFIX)
  BY <1>7, <1>8, <1>9 DEF Kept
<1> QED
  BY <1>2, <1>3, <1>4, <1>5, <1>10 DEF PortsInv, PortsRight

LEMMA PortsStep ==
  ASSUME PortsInv, InputInv, [ProgramNext]_vars
  PROVE  PortsInv' /\ (Activate \/ ~ client'.active \/ client'.active = client.active)
<1>1. CASE Configure
  <2>1. phase = "started" /\ phase' \in {"started", "ended"} /\ UNCHANGED <<ignored, portVars>>
    BY <1>1 DEF Configure
  <2> QED
    BY <2>1, ConfigurePorts
<1>2. CASE OpenRenderer
  BY <1>2, OpenRendererPorts
<1>3. CASE LoadRecorder
  BY <1>3, LoadRecorderPorts
<1>4. CASE LoadFirstScene
  <2>1. /\ phase = "recorder" /\ phase' \in {"loaded", "failed"} /\ UNCHANGED <<conf, ignored>>
        /\ \E scene \in Scenes \cup {<<>>} : LoadScene(scene)
    BY <1>4, Zenon DEF LoadFirstScene, configVars
  <2>2. PICK scene \in Scenes \cup {<<>>} : LoadScene(scene)
    BY <2>1
  <2>3. Len(scene) \in Nat
    BY SceneLength
  <2>4. /\ phase' # "started"
        /\ phase' \in Building => phase \in Building
        /\ phase' \in Opened => phase \in Opened
    BY <2>1 DEF Building, Opened
  <2> QED
    BY <2>1, <2>2, <2>3, <2>4, ScenePorts
<1>5. CASE StartServer
  BY <1>5, PortsAlone DEF StartServer, Building, Opened, configVars
<1>6. CASE StartTracker
  BY <1>6, PortsAlone DEF StartTracker, Building, Opened, configVars
<1>7. CASE TrackerStarted
  BY <1>7, PortsAlone DEF TrackerStarted, Building, Opened, configVars
<1>8. CASE Activate
  BY <1>8, ActivatePorts
<1>9. CASE Quit
  BY <1>9, PortsAlone DEF Quit, Building, Opened, configVars
<1>10. CASE Deactivate
  BY <1>10, DeactivatePorts
<1>11. CASE StopTracker
  BY <1>11, PortsAlone DEF StopTracker, Building, Opened, configVars
<1>12. CASE Finish
  BY <1>12, FinishPorts
<1>13. CASE ClientStep
  <2>1. UNCHANGED <<conf, ignored, phase>>
    BY <1>13 DEF ClientStep, configVars
  <2>2. phase # "started"
    BY <1>13 DEF ClientStep, Serving
  <2>3. \/ \E target \in Targets : NewSource(target)
        \/ \E id \in sources : DeleteSource(id)
        \/ \E scene \in Scenes : LoadScene(scene)
    BY <1>13 DEF ClientStep
  <2>4. CASE \E target \in Targets : NewSource(target)
    BY <2>1, <2>2, <2>4, NewSourcePorts
  <2>5. CASE \E id \in sources : DeleteSource(id)
    BY <2>1, <2>5, DeleteSourcePorts
  <2>6. CASE \E scene \in Scenes : LoadScene(scene)
    <3>1. PICK scene \in Scenes : LoadScene(scene)
      BY <2>6
    <3> QED
      BY <2>1, <2>2, <3>1, SceneLength, ScenePorts
  <2> QED
    BY <2>3, <2>4, <2>5, <2>6
<1>14. CASE CleanUp
  BY <1>14, CleanUpPorts
<1>15. CASE CalibrateStep
  BY <1>15, PortsAlone DEF CalibrateStep, configVars
<1>16. CASE VisitorStep
  BY <1>16, VisitorPorts
<1>17. CASE TrackerStep
  BY <1>17, PortsAlone DEF TrackerStep, configVars
<1>18. CASE UNCHANGED vars
  BY <1>18, PortsAlone DEF vars, configVars
<1> QED
  BY <1>1, <1>2, <1>3, <1>4, <1>5, <1>6, <1>7, <1>8, <1>9, <1>10, <1>11, <1>12, <1>13,
     <1>14, <1>15, <1>16, <1>17, <1>18, Zenon DEF ProgramNext, Main

\* The step that activates the client makes all connections that are possible.
LEMMA AllIsConnected ==
  ASSUME PortsInv, Activate, client'.active, ~ client.active
  PROVE  /\ {c \in asked : CanConnect(client', c)} \subseteq client'.connections
         /\ conf.FREEWHEEL \/ ignored
            \/ \A k \in 1..Outputs :
                 <<conf.OUTPUT_PREFIX, k>> \in client'.others =>
                   <<<<"out", k>>, <<conf.OUTPUT_PREFIX, k>>>> \in client'.connections
<1>1. PICK c, e, prefix : c = client /\ e = client' /\ prefix = conf.OUTPUT_PREFIX
  OBVIOUS
<1>2. phase = "tracked" /\ e = activate(c)
  BY <1>1 DEF Activate
<1>3. IsClient(c) /\ \A port \in c.others : port[1] # NoPrefix
  BY <1>1, ClientIsRight
<1>4. /\ e.ports = c.ports /\ e.active = TRUE /\ e.others = c.others
      /\ \A x : x \in e.connections <=>
                 x \in c.connections \/ (x \in c.pending /\ CanConnect(e, x))
  BY <1>2, <1>3, ClientActivated
<1>5. asked \subseteq c.pending
  <2>1. phase \in Building
    BY <1>2 DEF Building
  <2> QED
    BY <1>1, <2>1, ClientIsRight
<1>6. {x \in asked : CanConnect(e, x)} \subseteq e.connections
  BY <1>4, <1>5
<1>7. CASE Free
  <2>1. CASE conf.OUTPUT_PREFIX = NoPrefix
    <3>1. \A k \in 1..Outputs : <<prefix, k>> \notin e.others
      <4>1. SUFFICES ASSUME NEW k \in 1..Outputs, <<prefix, k>> \in c.others PROVE FALSE
        BY <1>4
      <4>2. <<prefix, k>>[1] = prefix
        OBVIOUS
      <4> QED
        BY <1>1, <1>3, <2>1, <4>1, <4>2
    <3> QED
      BY <1>1, <1>6, <3>1
  <2> QED
    BY <1>1, <1>6, <1>7, <2>1 DEF Free
<1>8. CASE ~ Free
  <2>1. phase \in Opened
    BY <1>2 DEF Opened, Building
  <2>2. OutputsWait(SourcesNow, prefix)
    BY <1>1, <1>8, <2>1, ClientIsRight
  <2>3. \A k \in 1..Outputs : /\ <<<<"out", k>>, <<prefix, k>>>> \in c.pending
                              /\ <<"out", k>> \in c.ports
    BY <1>1, <2>2 DEF OutputsWait, SourcesNow
  <2>4. ASSUME NEW k \in 1..Outputs, <<prefix, k>> \in e.others
        PROVE  <<<<"out", k>>, <<prefix, k>>>> \in e.connections
    <3>1. PICK x : x = <<<<"out", k>>, <<prefix, k>>>>
      OBVIOUS
    <3>2. x[1] \in e.ports /\ x[2] \in e.others
      BY <1>4, <2>3, <2>4, <3>1
    <3>3. CanConnect(e, x)
      BY <1>4, <3>2 DEF CanConnect
    <3> QED
      BY <1>4, <2>3, <3>1, <3>3
  <2> QED
    BY <1>1, <1>6, <2>4
<1> QED
  BY <1>7, <1>8

\* Ports are connected as it was asked for, whatever clients do before and after
\* the client is active and whatever ports of other clients come and go: no other
\* connection is made, but for the ports that take the name of an earlier one with
\* a connection pending; activating the client makes all connections that are
\* possible then, those of the outputs among them (Program!AsAsked).
THEOREM ConnectedAsAsked == Program => AsAsked
<1>1. ProgramInit => InputInv /\ PortsInv
  BY FirstInputInv, FirstPorts
<1>2. InputInv /\ PortsInv /\ [ProgramNext]_vars => (InputInv /\ PortsInv)'
  BY InputStep, PortsStep
<1> DEFINE Right ==
      /\ {c \in client'.connections : c[2] \notin stale'} \subseteq asked'
      /\ ~ client.active /\ client'.active =>
           /\ {c \in asked : CanConnect(client', c)} \subseteq client'.connections
           /\ conf.FREEWHEEL \/ ignored
              \/ \A k \in 1..Outputs :
                   <<conf.OUTPUT_PREFIX, k>> \in client'.others =>
                     <<<<"out", k>>, <<conf.OUTPUT_PREFIX, k>>>> \in client'.connections
<1>3. InputInv /\ PortsInv /\ [ProgramNext]_vars => Right
  <2> SUFFICES ASSUME InputInv, PortsInv, [ProgramNext]_vars PROVE Right
    OBVIOUS
  <2>1. PortsInv' /\ (Activate \/ ~ client'.active \/ client'.active = client.active)
    BY PortsStep
  <2>2. {c \in client'.connections : c[2] \notin stale'} \subseteq asked'
    <3>1. PICK s : s = SourcesNow'
      OBVIOUS
    <3>2. s.client = client' /\ s.asked = asked' /\ s.stale = stale'
      BY <3>1 DEF SourcesNow
    <3>3. ConnectionsInv(s.client, s.asked, s.stale)
      BY <2>1, <3>1 DEF PortsInv, PortsRight, Kept, StateInv
    <3> QED
      BY <3>2, <3>3 DEF ConnectionsInv
  <2>3. ASSUME ~ client.active, client'.active PROVE Activate
    BY <2>1, <2>3
  <2> QED
    BY <2>2, <2>3, AllIsConnected, Zenon
<1> QED
  BY <1>1, <1>2, <1>3, PTL DEF Program, AsAsked
===============================================================================
