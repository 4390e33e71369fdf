---------------------------- MODULE Conn_proofs ----------------------------
(***************************************************************************)
(* Proofs about Conn: that it implements Heartbeat, that no wake-up is     *)
(* lost to edge triggering, and how long a silent peer may stay connected; *)
(* and about what runs over one connection, in Report: that the agent and  *)
(* the master keep in step.                                                *)
(***************************************************************************)
EXTENDS Conn, Report, FiniteSetTheorems, SequenceTheorems, TLAPS

----------------------------------------------------------------------------
(* The pass over activelist, in Heartbeat                                  *)

(* What is left of the bound of IdleIsClosed without its last hold-up, and *)
(* by how much a peer is older than that, less than nothing if it is not.  *)
Before(w) == HB!To + HB!HoldUp * w
Over(p) == age[p] - Before(work)

(* A peer that the pass sends no heartbeat to, for what it is or its age.  *)
AtRest(p) == p \notin Probed \/ age[p] >= HB!To

(* Whose heartbeat went out while p was held up: each ahead of it got one  *)
(* with it or since, or will not get one, or was just Timeout old then,    *)
(* which does not happen once p has been held up for a Timeout.            *)
Tame ==
    \A p \in HB!Up : \A j \in ahead[p] : \A i \in ahead[j] :
      age[j] < Timeout /\ age[j] < Over(p) =>
        \/ age[i] =< age[j]
        \/ AtRest(i)
        \/ age[i] = Timeout + age[j] /\ Over(p) - age[j] =< Timeout

(* No heartbeat goes out ahead of a peer that has been held up for long.   *)
Recent ==
    \A p \in HB!Up : \A j \in ahead[p] :
      age[j] < Timeout /\ age[j] < Over(p) => Over(p) - age[j] =< 2 * Timeout - 1

HeldUp == \A p \in HB!Up : Over(p) =< HB!HoldUp

HInv == HB!TypeOK /\ Tame /\ Recent /\ HeldUp

(* The bounds are numbers, and one task more is one HoldUp more.           *)
LEMMA BoundIsNat ==
    /\ HB!HoldUp \in Nat \ {0} /\ HB!To \in Nat
    /\ HB!To >= 2 * Timeout /\ Timeout \in Nat \ {0}
    /\ HB!HoldUp = 3 * Timeout - 2
    /\ \A w \in Nat : Before(w) \in Nat /\ Before(w) >= HB!To
    /\ \A w \in Nat, k \in Nat \ {0} : Before(w + k) >= Before(w) + HB!HoldUp
    /\ \A w \in Nat : HB!To + HB!HoldUp * (1 + w) = Before(w) + HB!HoldUp
<1>1. Timeout \in Nat \ {0} /\ Times \in Nat /\ Times >= 2
  BY TimeAssumption
<1>2. \A a, b \in Nat : a * b \in Nat
  OBVIOUS
<1>3. \A a, b, c \in Nat : b =< c => a * b =< a * c
  OBVIOUS
<1>4. HB!To \in Nat /\ HB!To >= 2 * Timeout
  <2>1. Timeout * 2 =< Timeout * Times
    BY <1>1, <1>3
  <2> QED
    BY <2>1, <1>1, <1>2 DEF HB!To
<1>5. HB!HoldUp \in Nat \ {0} /\ HB!HoldUp = 3 * Timeout - 2
  BY <1>1 DEF HB!HoldUp
<1> HIDE DEF HB!To, HB!HoldUp
<1>6. ASSUME NEW w \in Nat
      PROVE  Before(w) \in Nat /\ Before(w) >= HB!To
  <2>1. HB!HoldUp * w \in Nat
    BY <1>2, <1>5
  <2> QED
    BY <2>1, <1>4 DEF Before
<1>7. ASSUME NEW w \in Nat, NEW k \in Nat \ {0}
      PROVE  Before(w + k) >= Before(w) + HB!HoldUp
  <2>1. HB!HoldUp * (w + 1) =< HB!HoldUp * (w + k)
    BY <1>3, <1>5
  <2>2. HB!HoldUp * (w + 1) = HB!HoldUp * w + HB!HoldUp
    BY <1>5
  <2>3. HB!HoldUp * w \in Nat /\ HB!HoldUp * (w + k) \in Nat
    BY <1>2, <1>5
  <2> QED
    BY <2>1, <2>2, <2>3, <1>4, <1>5 DEF Before
<1>8. ASSUME NEW w \in Nat
      PROVE  HB!To + HB!HoldUp * (1 + w) = Before(w) + HB!HoldUp
  <2>1. HB!HoldUp * (1 + w) = HB!HoldUp * w + HB!HoldUp
    BY <1>5
  <2>2. HB!HoldUp * w \in Nat
    BY <1>2, <1>5
  <2> QED
    BY <2>1, <2>2, <1>4, <1>5 DEF Before
<1> QED
  BY <1>1, <1>4, <1>5, <1>6, <1>7, <1>8

(* What an action does to activelist: some are taken out, and one at most  *)
(* is put last; the others stay in their order.                            *)
Relinked(gone, last) ==
    /\ HB!Up' = (HB!Up \ gone) \union last
    /\ \A q \in HB!Up \ gone : q \notin last => ahead'[q] = ahead[q] \ gone
    /\ \A q \in last : ahead'[q] = HB!Up \ gone
    /\ \A q, r \in last : q = r
    /\ last \subseteq Peer
    /\ last \intersect (HB!Up \ gone) = {}

(* The order of activelist is kept.                                        *)
LEMMA OrderIsKept ==
    ASSUME HB!TypeOK, NEW gone, NEW last, Relinked(gone, last)
    PROVE  /\ HB!Up' \subseteq Peer
           /\ \A p, q \in HB!Up' :
                /\ ahead'[p] \subseteq HB!Up' \ {p}
                /\ p # q => (p \in ahead'[q] <=> q \notin ahead'[p])
                /\ p \in ahead'[q] => ahead'[p] \subseteq ahead'[q]
<1> DEFINE up == HB!Up
           upp == HB!Up'
           a == ahead
           b == ahead'
<1>1. /\ up \subseteq Peer
      /\ \A p \in up : a[p] \subseteq up \ {p}
      /\ \A p, q \in up : p # q => (p \in a[q] <=> q \notin a[p])
      /\ \A p, q \in up : p \in a[q] => a[p] \subseteq a[q]
  BY DEF HB!TypeOK
<1>2. /\ upp = (up \ gone) \union last
      /\ \A q \in up \ gone : q \notin last => b[q] = a[q] \ gone
      /\ \A q \in last : b[q] = up \ gone
      /\ \A q, r \in last : q = r
      /\ last \subseteq Peer
      /\ last \intersect (up \ gone) = {}
  BY DEF Relinked
<1> HIDE DEF up, upp, a, b
<1>3. ASSUME NEW p \in upp
      PROVE  b[p] \subseteq upp \ {p}
  BY <1>1, <1>2, <1>3
<1>4. ASSUME NEW p \in upp, NEW q \in upp, p # q
      PROVE  p \in b[q] <=> q \notin b[p]
  <2>1. CASE p \in last
    BY <1>1, <1>2, <1>4, <2>1
  <2>2. CASE q \in last
    BY <1>1, <1>2, <1>4, <2>2
  <2>3. CASE p \notin last /\ q \notin last
    <3>1. p \in up \ gone /\ q \in up \ gone
      BY <1>2, <2>3
    <3>2. b[p] = a[p] \ gone /\ b[q] = a[q] \ gone
      BY <1>2, <2>3, <3>1
    <3> QED
      BY <1>1, <1>4, <3>1, <3>2
  <2> QED
    BY <2>1, <2>2, <2>3
<1>5. ASSUME NEW p \in upp, NEW q \in upp, p \in b[q]
      PROVE  b[p] \subseteq b[q]
  <2>1. p \in up \ gone /\ p \notin last
    BY <1>1, <1>2, <1>5
  <2>2. b[p] = a[p] \ gone
    BY <1>2, <2>1
  <2>3. CASE q \in last
    BY <1>1, <1>2, <2>1, <2>2, <2>3
  <2>4. CASE q \notin last
    <3>1. q \in up \ gone /\ b[q] = a[q] \ gone
      BY <1>2, <2>4
    <3> QED
      BY <1>1, <1>5, <2>1, <2>2, <3>1
  <2> QED
    BY <2>3, <2>4
<1>6. upp \subseteq Peer
  BY <1>1, <1>2
<1> QED
  BY <1>3, <1>4, <1>5, <1>6 DEF upp, b

(* Each action of Heartbeat relinks activelist so.                         *)
LEMMA MovesAreRelinks ==
    ASSUME HB!TypeOK
    PROVE  /\ \A p \in Peer : ahead' = HB!MoveToTail(p) => Relinked({p}, {p})
           /\ \A p \in Peer : ahead' = HB!Without({p}) => Relinked({p}, {})
           /\ \A new, busy \in SUBSET Peer :
                HB!SvcTimeout(new, busy) => Relinked(HB!Closed, new)
<1>1. ASSUME NEW p \in Peer, ahead' = HB!MoveToTail(p)
      PROVE  Relinked({p}, {p})
  BY <1>1 DEF HB!MoveToTail, HB!Up, Relinked, HB!TypeOK
<1>2. ASSUME NEW p \in Peer, ahead' = HB!Without({p})
      PROVE  Relinked({p}, {})
  BY <1>2 DEF HB!Without, HB!Up, Relinked, HB!TypeOK
<1>3. ASSUME NEW new \in SUBSET Peer, NEW busy \in SUBSET Peer, HB!SvcTimeout(new, busy)
      PROVE  Relinked(HB!Closed, new)
  <2> DEFINE cl == HB!Closed
  <2>1. ahead' = [q \in (HB!Up \ cl) \union new |->
                    IF q \in new THEN HB!Up \ cl ELSE ahead[q] \ cl]
    BY <1>3 DEF HB!SvcTimeout, HB!Passed
  <2>2. new \in {{}} \union {{p} : p \in Probed \ (HB!Up \ cl)}
    BY <1>3 DEF HB!SvcTimeout
  <2> HIDE DEF cl
  <2>3. /\ new \intersect (HB!Up \ cl) = {}
        /\ \A q, r \in new : q = r
    BY <2>2
  <2>4. HB!Up' = (HB!Up \ cl) \union new
    BY <2>1 DEF HB!Up
  <2>5. Relinked(cl, new)
    BY <2>1, <2>3, <2>4 DEF Relinked
  <2> QED
    BY <2>5 DEF cl
<1> QED
  BY <1>1, <1>2, <1>3

(* The instance's numbers of elements are those of FiniteSets.             *)
LEMMA SameCardinality ==
    \A S : HB!Cardinality(S) = Cardinality(S)
BY DEF HB!Cardinality, Cardinality, HB!IsFiniteSet, IsFiniteSet

(* What is sent is counted.                                                *)
LEMMA SentIsCounted ==
    ASSUME HB!TypeOK, NEW busy \in SUBSET Peer
    PROVE  /\ Cardinality(busy) \in Nat
           /\ busy # {} => Cardinality(busy) > 0
<1>1. IsFiniteSet(busy)
  BY TimeAssumption, FS_Subset
<1>2. Cardinality(busy) \in Nat /\ (Cardinality(busy) = 0 <=> busy = {})
  BY <1>1, FS_CardinalityType, FS_EmptySet
<1> QED
  BY <1>2

(* Heartbeat's variables stay in their domains.                            *)
LEMMA PassKeepsTypes ==
    HB!TypeOK /\ HB!Next => HB!TypeOK'
<1> SUFFICES ASSUME HB!TypeOK, HB!Next
             PROVE  HB!TypeOK'
  OBVIOUS
<1>1. age \in [Peer -> Nat] /\ work \in 0 .. Tasks
  BY DEF HB!TypeOK
<1>2. ASSUME NEW p \in Peer, HB!Connect(p) \/ HB!Heard(p)
      PROVE  HB!TypeOK'
  <2>1. Relinked({p}, {p}) /\ age' \in [Peer -> Nat] /\ work' = work
    BY <1>1, <1>2, MovesAreRelinks DEF HB!Connect, HB!Heard
  <2> QED
    BY <1>1, <2>1, OrderIsKept DEF HB!TypeOK
<1>3. ASSUME NEW p \in Peer, HB!Lost(p)
      PROVE  HB!TypeOK'
  <2>1. Relinked({p}, {}) /\ age' = age /\ work' = work
    BY <1>1, <1>3, MovesAreRelinks DEF HB!Lost
  <2> QED
    BY <1>1, <2>1, OrderIsKept DEF HB!TypeOK
<1>4. ASSUME NEW new \in SUBSET Peer, NEW busy \in SUBSET Peer, HB!SvcTimeout(new, busy)
      PROVE  HB!TypeOK'
  <2>1. Relinked(HB!Closed, new)
    BY <1>4, MovesAreRelinks
  <2>2. HB!AgeNow \in [Peer -> Nat]
    BY <1>1 DEF HB!AgeNow
  <2>3. age' \in [Peer -> Nat]
    BY <1>4, <2>2 DEF HB!SvcTimeout
  <2>4. work' \in 0 .. Tasks
    BY <1>1, <1>4, SentIsCounted, SameCardinality, TimeAssumption DEF HB!SvcTimeout
  <2> QED
    BY <2>1, <2>3, <2>4, OrderIsKept DEF HB!TypeOK
<1> QED
  BY <1>2, <1>3, <1>4 DEF HB!Next

(* A peer that the pass finds older than To without closing it is held up: *)
(* one ahead of it is too young, and the pass comes to none that is not    *)
(* ahead of that one.                                                      *)
LEMMA HeldUpByOne ==
    ASSUME HB!TypeOK, NEW p \in HB!Up \ HB!Closed, age[p] >= HB!To
    PROVE  \E b \in ahead[p] :
             /\ age[b] + 1 < Timeout
             /\ \A j \in ahead[p] : j \in HB!Scanned => j \in ahead[b]
<1>1. /\ HB!Up \subseteq Peer /\ age \in [Peer -> Nat]
      /\ \A q \in HB!Up : ahead[q] \subseteq HB!Up \ {q}
      /\ \A q, r \in HB!Up : q # r => (q \in ahead[r] <=> r \notin ahead[q])
  BY DEF HB!TypeOK
<1>2. \A q \in HB!Up : HB!AgeNow[q] = age[q] + 1
  BY <1>1 DEF HB!AgeNow
<1>3. p \notin HB!Scanned
  BY <1>1, <1>2, BoundIsNat DEF HB!Closed
<1>4. PICK b \in ahead[p] \union {p} : ~(HB!AgeNow[b] >= Timeout)
  BY <1>3 DEF HB!Scanned
<1>5. b \in HB!Up /\ age[b] + 1 < Timeout
  BY <1>1, <1>2, <1>4, BoundIsNat
<1>6. b # p
  BY <1>1, <1>5, BoundIsNat
<1>7. ASSUME NEW j \in ahead[p], j \in HB!Scanned
      PROVE  j \in ahead[b]
  <2>1. b \notin ahead[j] /\ b # j
    BY <1>4, <1>7 DEF HB!Scanned
  <2> QED
    BY <1>1, <1>5, <2>1
<1> QED
  BY <1>4, <1>5, <1>6, <1>7

(* How the pass sets the ages, when no task is sent.                       *)
LEMMA AgesAfterPass ==
    ASSUME HB!TypeOK, NEW new \in SUBSET Peer, HB!SvcTimeout(new, {})
    PROVE  /\ work' = work
           /\ \A q \in HB!Up \ HB!Closed : q \notin new /\
                age'[q] = IF q \in HB!Beaten THEN 0 ELSE age[q] + 1
           /\ \A q \in new : age'[q] = 0
           /\ \A q \in HB!Up : q \in HB!Beaten <=>
                /\ q \in HB!Scanned /\ q \in Probed
                /\ age[q] + 1 > Timeout /\ age[q] + 1 < HB!To
           /\ \A q \in HB!Scanned : q \in HB!Up /\ age[q] + 1 >= Timeout
           /\ \A j \in HB!Scanned : \A i \in ahead[j] : i \in HB!Scanned
<1>1. /\ HB!Up \subseteq Peer /\ age \in [Peer -> Nat] /\ work \in Nat
      /\ \A q \in HB!Up : ahead[q] \subseteq HB!Up \ {q}
      /\ \A q, r \in HB!Up : q \in ahead[r] => ahead[q] \subseteq ahead[r]
  BY DEF HB!TypeOK
<1>2. \A q \in HB!Up : HB!AgeNow[q] = age[q] + 1
  BY <1>1 DEF HB!AgeNow
<1>3. Cardinality({}) = 0
  BY FS_EmptySet
<1>4. /\ work' = work + Cardinality({})
      /\ new \in {{}} \union {{q} : q \in Probed \ (HB!Up \ HB!Closed)}
      /\ age' = [q \in Peer |->
                   IF q \in HB!Beaten \union new \union {} THEN 0 ELSE HB!AgeNow[q]]
  BY SameCardinality DEF HB!SvcTimeout
<1>5. \A q \in HB!Up \ HB!Closed : q \notin new
  BY <1>4
<1>6. \A q \in HB!Scanned : q \in HB!Up /\ age[q] + 1 >= Timeout
  BY <1>2 DEF HB!Scanned
<1>7. \A q \in HB!Up : q \in HB!Beaten <=>
                /\ q \in HB!Scanned /\ q \in Probed
                /\ age[q] + 1 > Timeout /\ age[q] + 1 < HB!To
  BY <1>2 DEF HB!Beaten
<1>8. \A j \in HB!Scanned : \A i \in ahead[j] : i \in HB!Scanned
  BY <1>1 DEF HB!Scanned
<1>9. ASSUME NEW q \in HB!Up \ HB!Closed
      PROVE  age'[q] = IF q \in HB!Beaten THEN 0 ELSE age[q] + 1
  BY <1>1, <1>2, <1>4, <1>5
<1> QED
  BY <1>1, <1>3, <1>4, <1>5, <1>6, <1>7, <1>8, <1>9

(* Only those already ahead of a peer are ahead of it, and a peer just put *)
(* last is ahead of none.                                                  *)
LEMMA AheadBefore ==
    ASSUME HB!TypeOK, NEW gone, NEW last, Relinked(gone, last),
           NEW p \in HB!Up', p \notin last
    PROVE  /\ p \in HB!Up \ gone
           /\ \A j \in ahead'[p] :
                /\ j \in ahead[p] /\ j \in HB!Up \ gone /\ j \notin last
                /\ \A i \in ahead'[j] :
                     i \in ahead[j] /\ i \in ahead[p] /\ i \in HB!Up \ gone /\ i \notin last
<1>1. /\ \A q \in HB!Up : ahead[q] \subseteq HB!Up \ {q}
      /\ \A q, r \in HB!Up : q \in ahead[r] => ahead[q] \subseteq ahead[r]
  BY DEF HB!TypeOK
<1>2. /\ HB!Up' = (HB!Up \ gone) \union last
      /\ \A q \in HB!Up \ gone : q \notin last => ahead'[q] = ahead[q] \ gone
      /\ last \intersect (HB!Up \ gone) = {}
  BY DEF Relinked
<1>3. p \in HB!Up \ gone /\ ahead'[p] = ahead[p] \ gone
  BY <1>2
<1>4. ASSUME NEW j \in ahead'[p]
      PROVE  j \in ahead[p] /\ j \in HB!Up \ gone /\ j \notin last
  BY <1>1, <1>2, <1>3
<1>5. ASSUME NEW j \in ahead'[p], NEW i \in ahead'[j]
      PROVE  i \in ahead[j] /\ i \in ahead[p] /\ i \in HB!Up \ gone /\ i \notin last
  <2>1. ahead'[j] = ahead[j] \ gone
    BY <1>2, <1>4
  <2> QED
    BY <1>1, <1>2, <1>3, <1>4, <2>1
<1> QED
  BY <1>3, <1>4, <1>5

(* A peer held up for a Timeout: one ahead of it is too young, got its     *)
(* heartbeat a while ago, and has none ahead of it that is due for one but *)
(* those that were Timeout old then.                                       *)
LEMMA HeldUpForLong ==
    ASSUME HInv, NEW p \in HB!Up \ HB!Closed, Over(p) >= Timeout
    PROVE  \E b \in ahead[p] :
             /\ age[b] \in Nat /\ age[b] + 1 < Timeout
             /\ Over(p) - age[b] =< 2 * Timeout - 1
             /\ \A j \in HB!Scanned \intersect ahead[p] :
                  \/ AtRest(j)
                  \/ age[j] = Timeout + age[b] /\ Over(p) - age[b] =< Timeout
<1>1. /\ HB!Up \subseteq Peer /\ age \in [Peer -> Nat] /\ work \in Nat
      /\ \A q \in HB!Up : ahead[q] \subseteq HB!Up \ {q}
  BY DEF HInv, HB!TypeOK
<1>2. age[p] \in Nat /\ Before(work) \in Nat /\ Before(work) >= HB!To
  BY <1>1, BoundIsNat
<1>3. Timeout \in Nat \ {0} /\ HB!To \in Nat /\ Over(p) \in Int /\ age[p] >= HB!To
  BY <1>2, BoundIsNat DEF Over
<1>4. PICK b \in ahead[p] :
        /\ age[b] + 1 < Timeout
        /\ \A j \in ahead[p] : j \in HB!Scanned => j \in ahead[b]
  BY <1>3, HeldUpByOne DEF HInv
<1>5. age[b] \in Nat /\ age[b] < Timeout /\ age[b] < Over(p)
  BY <1>1, <1>3, <1>4
<1>6. Over(p) - age[b] =< 2 * Timeout - 1
  BY <1>4, <1>5 DEF HInv, Recent
<1>7. ASSUME NEW j \in HB!Scanned \intersect ahead[p]
      PROVE  \/ AtRest(j)
             \/ age[j] = Timeout + age[b] /\ Over(p) - age[b] =< Timeout
  <2>1. j \in HB!Up /\ age[j] \in Nat /\ age[j] + 1 >= Timeout
    BY <1>1 DEF HB!Scanned, HB!AgeNow
  <2>2. \/ age[j] =< age[b]
        \/ AtRest(j)
        \/ age[j] = Timeout + age[b] /\ Over(p) - age[b] =< Timeout
    BY <1>4, <1>5 DEF HInv, Tame
  <2>3. ~(age[j] =< age[b])
    BY <1>3, <1>4, <1>5, <2>1
  <2> QED
    BY <2>2, <2>3
<1> QED
  BY <1>4, <1>5, <1>6, <1>7

(* The pass leaves no peer further beyond the bound than HoldUp.           *)
LEMMA PassBounds ==
    ASSUME HInv, NEW p \in HB!Up \ HB!Closed
    PROVE  age[p] + 1 - Before(work) =< HB!HoldUp
<1>1. HB!Up \subseteq Peer /\ age \in [Peer -> Nat] /\ work \in Nat
  BY DEF HInv, HB!TypeOK
<1>2. age[p] \in Nat /\ Before(work) \in Nat /\ Over(p) = age[p] - Before(work)
  BY <1>1, BoundIsNat DEF Over
<1>3. CASE Over(p) < Timeout
  BY <1>2, <1>3, BoundIsNat
<1>4. CASE Over(p) >= Timeout
  <2>1. PICK b \in ahead[p] :
          /\ age[b] \in Nat /\ age[b] + 1 < Timeout
          /\ Over(p) - age[b] =< 2 * Timeout - 1
    BY <1>4, HeldUpForLong
  <2> QED
    BY <1>2, <2>1, BoundIsNat
<1> QED
  BY <1>2, <1>3, <1>4, BoundIsNat

(* What a step leaves of the invariant when it makes p younger than the    *)
(* bound, or makes no one older and takes no one's place.                  *)
LEMMA QuietSteps ==
    ASSUME HInv, HB!TypeOK', work' = work,
           NEW gone, NEW last, Relinked(gone, last),
           \A q \in last : age'[q] = 0,
           \A q \in HB!Up \ gone : q \notin last => age'[q] = age[q]
    PROVE  Tame' /\ Recent' /\ HeldUp'
<1>1. /\ HB!TypeOK /\ HB!Up \subseteq Peer /\ age \in [Peer -> Nat] /\ work \in Nat
      /\ HB!Up' \subseteq Peer
  BY DEF HInv, HB!TypeOK
<1>2. Before(work') = Before(work) /\ Before(work) \in Nat
  BY <1>1, BoundIsNat
<1>3. ASSUME NEW p \in HB!Up'
      PROVE  /\ Over(p)' =< HB!HoldUp
             /\ \A j \in ahead'[p] : age'[j] < Timeout /\ age'[j] < Over(p)' =>
                  /\ Over(p)' - age'[j] =< 2 * Timeout - 1
                  /\ \A i \in ahead'[j] :
                       \/ age'[i] =< age'[j]
                       \/ AtRest(i)'
                       \/ age'[i] = Timeout + age'[j] /\ Over(p)' - age'[j] =< Timeout
  <2>1. Over(p)' = age'[p] - Before(work)
    BY <1>2 DEF Over
  <2>2. CASE p \in last
    <3>1. Over(p)' =< 0
      BY <1>2, <2>1, <2>2
    <3>2. \A j \in ahead'[p] : age'[j] \in Nat
      BY DEF HB!TypeOK
    <3>3. Over(p)' \in Int
      BY <1>2, <2>1, <2>2
    <3> QED
      BY <3>1, <3>2, <3>3, BoundIsNat
  <2>3. CASE p \notin last
    <3>1. p \in HB!Up /\ age'[p] = age[p] /\ Over(p)' = Over(p)
      BY <1>1, <2>1, <2>3, AheadBefore DEF Over
    <3>2. Over(p)' =< HB!HoldUp
      BY <3>1 DEF HInv, HeldUp
    <3>3. ASSUME NEW j \in ahead'[p], age'[j] < Timeout, age'[j] < Over(p)'
          PROVE  /\ Over(p)' - age'[j] =< 2 * Timeout - 1
                 /\ \A i \in ahead'[j] :
                      \/ age'[i] =< age'[j]
                      \/ AtRest(i)'
                      \/ age'[i] = Timeout + age'[j] /\ Over(p)' - age'[j] =< Timeout
      <4>1. j \in ahead[p] /\ age'[j] = age[j]
        BY <1>1, <2>3, AheadBefore
      <4>2. Over(p) - age[j] =< 2 * Timeout - 1
        BY <3>1, <3>3, <4>1 DEF HInv, Recent
      <4>3. ASSUME NEW i \in ahead'[j]
            PROVE  \/ age'[i] =< age'[j]
                   \/ AtRest(i)'
                   \/ age'[i] = Timeout + age'[j] /\ Over(p)' - age'[j] =< Timeout
        <5>1. i \in ahead[j] /\ age'[i] = age[i]
          BY <1>1, <2>3, AheadBefore
        <5>2. \/ age[i] =< age[j]
              \/ AtRest(i)
              \/ age[i] = Timeout + age[j] /\ Over(p) - age[j] =< Timeout
          BY <3>1, <3>3, <4>1, <5>1 DEF HInv, Tame
        <5> QED
          BY <3>1, <4>1, <5>1, <5>2 DEF AtRest
      <4> QED
        BY <3>1, <4>1, <4>2, <4>3
    <3> QED
      BY <3>2, <3>3
  <2> QED
    BY <2>2, <2>3
<1> QED
  BY <1>3 DEF Tame, Recent, HeldUp

(* The pass, when it is followed by a task: no one is beyond the bound.    *)
LEMMA TasksRaiseTheBound ==
    ASSUME HInv, HB!TypeOK', NEW new \in SUBSET Peer, NEW busy \in SUBSET Peer,
           HB!SvcTimeout(new, busy), busy # {}
    PROVE  Tame' /\ Recent' /\ HeldUp'
<1>1. /\ HB!TypeOK /\ HB!Up \subseteq Peer /\ age \in [Peer -> Nat] /\ work \in Nat
      /\ HB!Up' \subseteq Peer /\ age' \in [Peer -> Nat]
      /\ \A p \in HB!Up' : ahead'[p] \subseteq Peer
  BY DEF HInv, HB!TypeOK
<1>2. PICK k \in Nat \ {0} : work' = work + k
  BY <1>1, SentIsCounted, SameCardinality DEF HB!SvcTimeout
<1>3. Before(work') >= Before(work) + HB!HoldUp /\ Before(work) \in Nat
      /\ Before(work') \in Nat
  <2>1. Before(work + k) >= Before(work) + HB!HoldUp /\ Before(work) \in Nat
    BY <1>1, BoundIsNat
  <2>2. work' \in Nat
    BY <1>1, <1>2
  <2>3. Before(work') \in Nat
    BY <2>2, BoundIsNat
  <2>4. Before(work') = Before(work + k)
    BY <1>2 DEF Before
  <2> QED
    BY <2>1, <2>3, <2>4
<1>4. \A p \in HB!Up : HB!AgeNow[p] = age[p] + 1
  BY <1>1 DEF HB!AgeNow
<1>5. ASSUME NEW p \in HB!Up'
      PROVE  Over(p)' =< 0
  <2>1. Over(p)' = age'[p] - Before(work')
    BY DEF Over
  <2>2. Relinked(HB!Closed, new)
    BY <1>1, MovesAreRelinks
  <2>3. CASE p \in HB!Beaten \union new \union busy
    <3>1. age'[p] = 0
      BY <1>1, <2>3 DEF HB!SvcTimeout
    <3> QED
      BY <1>3, <2>1, <3>1
  <2>4. CASE p \notin HB!Beaten \union new \union busy
    <3>1. p \in HB!Up \ HB!Closed
      BY <2>2, <2>4 DEF Relinked
    <3>2. age'[p] = age[p] + 1
      BY <1>1, <1>4, <2>4, <3>1 DEF HB!SvcTimeout
    <3>3. age[p] + 1 - Before(work) =< HB!HoldUp /\ age[p] \in Nat
      BY <1>1, <3>1, PassBounds
    <3> QED
      BY <1>3, <2>1, <3>2, <3>3, BoundIsNat
  <2> QED
    BY <2>3, <2>4
<1>6. \A p \in HB!Up' : Over(p)' \in Int
  BY <1>1, <1>3 DEF Over
<1>7. HeldUp'
  BY <1>5, <1>6, BoundIsNat DEF HeldUp
<1>8. \A p \in HB!Up' : \A j \in ahead'[p] : ~(age'[j] < Over(p)')
  BY <1>1, <1>5, <1>6
<1> QED
  BY <1>7, <1>8 DEF Tame, Recent

(* The pass without a task after it.                                       *)
LEMMA PassKeepsTame ==
    ASSUME HInv, HB!TypeOK', NEW new \in SUBSET Peer, HB!SvcTimeout(new, {})
    PROVE  Tame' /\ Recent' /\ HeldUp'
<1>1. /\ HB!TypeOK /\ HB!Up \subseteq Peer /\ age \in [Peer -> Nat] /\ work \in Nat
      /\ \A q \in HB!Up : age[q] \in Nat
      /\ Timeout \in Nat \ {0} /\ HB!To >= 2 * Timeout /\ HB!To \in Nat
  BY BoundIsNat DEF HInv, HB!TypeOK
<1>2. Relinked(HB!Closed, new)
  BY <1>1, MovesAreRelinks
<1>3. /\ work' = work
      /\ \A q \in HB!Up \ HB!Closed : q \notin new /\
           age'[q] = IF q \in HB!Beaten THEN 0 ELSE age[q] + 1
      /\ \A q \in new : age'[q] = 0
      /\ \A q \in HB!Up : q \in HB!Beaten <=>
           /\ q \in HB!Scanned /\ q \in Probed
           /\ age[q] + 1 > Timeout /\ age[q] + 1 < HB!To
      /\ \A q \in HB!Scanned : q \in HB!Up /\ age[q] + 1 >= Timeout
      /\ \A j \in HB!Scanned : \A i \in ahead[j] : i \in HB!Scanned
  BY <1>1, AgesAfterPass
<1>4. Before(work') = Before(work) /\ Before(work) \in Nat
  BY <1>1, <1>3, BoundIsNat
<1>5. \A p \in HB!Up' : p \in new => Over(p)' =< 0 /\ Over(p)' \in Int
  BY <1>3, <1>4 DEF Over
<1>6. \A p \in HB!Up' : \A j \in ahead'[p] : age'[j] \in Nat
  BY DEF HB!TypeOK
<1>7. ASSUME NEW p \in HB!Up', p \notin new
      PROVE  p \in HB!Up \ HB!Closed /\ Over(p)' \in Int
             /\ Over(p)' = age'[p] - Before(work)
             /\ age[p] \in Nat /\ Over(p) \in Int /\ Over(p) = age[p] - Before(work)
  <2>1. p \in HB!Up \ HB!Closed
    BY <1>1, <1>2, <1>7, AheadBefore
  <2> QED
    BY <1>1, <1>3, <1>4, <2>1 DEF Over
<1>8. HeldUp'
  <2>1. ASSUME NEW p \in HB!Up', p \notin new
        PROVE  Over(p)' =< HB!HoldUp
    <3>1. age[p] + 1 - Before(work) =< HB!HoldUp
      BY <1>7, <2>1, PassBounds
    <3> QED
      BY <1>3, <1>4, <1>7, <2>1, <3>1, BoundIsNat
  <2> QED
    BY <1>5, <2>1, BoundIsNat DEF HeldUp
<1>9. ASSUME NEW p \in HB!Up', p \notin new, NEW j \in ahead'[p],
             age'[j] < Timeout, age'[j] < Over(p)'
      PROVE  /\ Over(p)' - age'[j] =< 2 * Timeout - 1
             /\ \A i \in ahead'[j] :
                  \/ age'[i] =< age'[j]
                  \/ AtRest(i)'
                  \/ age'[i] = Timeout + age'[j] /\ Over(p)' - age'[j] =< Timeout
  <2>1. /\ p \in HB!Up \ HB!Closed
        /\ j \in ahead[p] /\ j \in HB!Up \ HB!Closed
        /\ \A i \in ahead'[j] :
             i \in ahead[j] /\ i \in ahead[p] /\ i \in HB!Up \ HB!Closed
    BY <1>1, <1>2, <1>9, AheadBefore
  <2>2. age[j] \in Nat /\ age'[j] \in Nat
    BY <1>1, <1>6, <1>9, <2>1
  <2>3. age'[p] = age[p] + 1 /\ Over(p)' = Over(p) + 1
    <3>1. age'[p] # 0
      BY <1>4, <1>7, <1>9, <2>2
    <3> QED
      BY <1>3, <1>4, <1>7, <1>9, <2>1, <3>1
  <2>4. CASE j \in HB!Beaten
    <3>1. age'[j] = 0 /\ j \in HB!Scanned /\ ~AtRest(j) /\ age[j] + 1 > Timeout
      BY <1>1, <1>3, <2>1, <2>2, <2>4 DEF AtRest
    <3>2. CASE Over(p) < Timeout
      <4>1. Over(p)' =< Timeout
        BY <1>1, <1>7, <1>9, <2>3, <3>2
      <4>2. ASSUME NEW i \in ahead'[j]
            PROVE  age'[i] =< 0 \/ AtRest(i)' \/ age'[i] = Timeout
        <5>1. i \in HB!Scanned /\ i \in HB!Up \ HB!Closed /\ age[i] \in Nat
              /\ age[i] + 1 >= Timeout
          BY <1>1, <1>3, <2>1, <3>1
        <5>2. CASE i \in HB!Beaten
          BY <1>3, <5>1, <5>2
        <5>3. CASE i \notin HB!Beaten
          <6>1. age'[i] = age[i] + 1
            BY <1>3, <5>1, <5>3
          <6> QED
            BY <1>1, <1>3, <5>1, <5>3, <6>1 DEF AtRest
        <5> QED
          BY <5>2, <5>3
      <4> QED
        BY <1>1, <1>7, <1>9, <3>1, <4>1, <4>2
    <3>3. CASE Over(p) >= Timeout
      <4>1. PICK b \in ahead[p] :
              /\ age[b] \in Nat /\ age[b] + 1 < Timeout
              /\ \A q \in HB!Scanned \intersect ahead[p] :
                   \/ AtRest(q)
                   \/ age[q] = Timeout + age[b] /\ Over(p) - age[b] =< Timeout
        BY <2>1, <3>3, HeldUpForLong
      <4>2. Over(p) - age[b] =< Timeout
        BY <2>1, <3>1, <4>1
      <4>3. Over(p)' =< 2 * Timeout - 1
        BY <1>1, <1>7, <1>9, <2>3, <4>1, <4>2
      <4>4. ASSUME NEW i \in ahead'[j]
            PROVE  age'[i] =< 0 \/ AtRest(i)'
        <5>1. i \in HB!Scanned /\ i \in ahead[p] /\ i \in HB!Up \ HB!Closed
              /\ age[i] \in Nat
          BY <1>1, <1>3, <2>1, <3>1
        <5>2. AtRest(i) \/ age[i] = Timeout + age[b]
          BY <4>1, <5>1
        <5>3. CASE i \in HB!Beaten
          BY <1>3, <5>1, <5>3
        <5>4. CASE i \notin HB!Beaten
          <6>1. age'[i] = age[i] + 1
            BY <1>3, <5>1, <5>4
          <6> QED
            BY <1>1, <1>3, <4>1, <5>1, <5>2, <5>4, <6>1 DEF AtRest
        <5> QED
          BY <5>3, <5>4
      <4> QED
        BY <1>1, <1>7, <1>9, <3>1, <4>3, <4>4
    <3> QED
      BY <1>1, <1>7, <1>9, <3>2, <3>3
  <2>5. CASE j \notin HB!Beaten
    <3>1. age'[j] = age[j] + 1
      BY <1>3, <2>1, <2>5
    <3>2. age[j] < Timeout /\ age[j] < Over(p)
      BY <1>1, <1>7, <1>9, <2>2, <2>3, <3>1
    <3>3. Over(p) - age[j] =< 2 * Timeout - 1
      BY <2>1, <3>2 DEF HInv, Recent
    <3>4. Over(p)' - age'[j] = Over(p) - age[j]
      BY <1>7, <1>9, <2>2, <2>3, <3>1
    <3>5. ASSUME NEW i \in ahead'[j]
          PROVE  \/ age'[i] =< age'[j]
                 \/ AtRest(i)'
                 \/ age'[i] = Timeout + age'[j] /\ Over(p)' - age'[j] =< Timeout
      <4>1. i \in ahead[j] /\ i \in HB!Up \ HB!Closed /\ age[i] \in Nat
        BY <1>1, <2>1
      <4>2. \/ age[i] =< age[j]
            \/ AtRest(i)
            \/ age[i] = Timeout + age[j] /\ Over(p) - age[j] =< Timeout
        BY <2>1, <3>2, <4>1 DEF HInv, Tame
      <4>3. CASE i \in HB!Beaten
        BY <1>3, <2>2, <4>1, <4>3
      <4>4. CASE i \notin HB!Beaten
        <5>1. age'[i] = age[i] + 1
          BY <1>3, <4>1, <4>4
        <5> QED
          BY <1>1, <2>2, <3>1, <3>4, <4>1, <4>2, <5>1 DEF AtRest
      <4> QED
        BY <4>3, <4>4
    <3> QED
      BY <3>3, <3>4, <3>5
  <2> QED
    BY <2>4, <2>5
<1>10. \A p \in HB!Up' : \A j \in ahead'[p] :
          age'[j] < Timeout /\ age'[j] < Over(p)' => p \notin new
  BY <1>5, <1>6
<1> QED
  BY <1>8, <1>9, <1>10 DEF Tame, Recent

LEMMA HInvKept ==
    HInv /\ HB!Next => HInv'
<1> SUFFICES ASSUME HInv, HB!Next
             PROVE  HInv'
  OBVIOUS
<1>1. HB!TypeOK /\ HB!TypeOK' /\ age \in [Peer -> Nat] /\ HB!Up \subseteq Peer
  BY PassKeepsTypes DEF HInv, HB!TypeOK
<1>2. ASSUME NEW p \in Peer, HB!Connect(p) \/ HB!Heard(p)
      PROVE  HInv'
  <2>1. /\ Relinked({p}, {p}) /\ work' = work
        /\ age' = [age EXCEPT ![p] = 0]
    BY <1>1, <1>2, MovesAreRelinks DEF HB!Connect, HB!Heard
  <2>2. /\ \A q \in {p} : age'[q] = 0
        /\ \A q \in HB!Up \ {p} : q \notin {p} => age'[q] = age[q]
    BY <1>1, <2>1
  <2> QED
    BY <1>1, <2>1, <2>2, QuietSteps DEF HInv
<1>3. ASSUME NEW p \in Peer, HB!Lost(p)
      PROVE  HInv'
  <2>1. Relinked({p}, {}) /\ work' = work /\ age' = age
    BY <1>1, <1>3, MovesAreRelinks DEF HB!Lost
  <2>2. /\ \A q \in {} : age'[q] = 0
        /\ \A q \in HB!Up \ {p} : q \notin {} => age'[q] = age[q]
    BY <2>1
  <2> QED
    BY <1>1, <2>1, <2>2, QuietSteps DEF HInv
<1>4. ASSUME NEW new \in SUBSET Peer, NEW busy \in SUBSET Peer, HB!SvcTimeout(new, busy)
      PROVE  HInv'
  <2>1. CASE busy = {}
    BY <1>1, <1>4, <2>1, PassKeepsTame DEF HInv
  <2>2. CASE busy # {}
    BY <1>1, <1>4, <2>2, TasksRaiseTheBound DEF HInv
  <2> QED
    BY <2>1, <2>2
<1> QED
  BY <1>2, <1>3, <1>4 DEF HB!Next

LEMMA HInvAtFirst ==
    HB!Init => HInv
<1> SUFFICES ASSUME HB!Init
             PROVE  HInv
  OBVIOUS
<1>1. HB!Up = {} /\ age \in [Peer -> Nat] /\ work = 0
  BY DEF HB!Init, HB!Up
<1> QED
  BY <1>1, TimeAssumption DEF HInv, HB!TypeOK, Tame, Recent, HeldUp

LEMMA HInvUnchanged ==
    HInv /\ UNCHANGED HB!vars => HInv'
BY DEF HInv, HB!TypeOK, Tame, Recent, HeldUp, AtRest, Over, HB!Up, HB!vars

LEMMA HInvIsBound ==
    HInv => HB!IdleIsClosed
<1> SUFFICES ASSUME HInv, NEW p \in HB!Up
             PROVE  age[p] =< HB!To + HB!HoldUp * (1 + work)
  BY DEF HB!IdleIsClosed
<1>1. age[p] \in Nat /\ work \in Nat
  BY DEF HInv, HB!TypeOK
<1>2. age[p] - Before(work) =< HB!HoldUp
  BY DEF HInv, HeldUp, Over
<1> QED
  BY <1>1, <1>2, BoundIsNat

(* What Heartbeat promises: a peer that neither sends nor is sent anything *)
(* is closed within 10 * timeout and, for each task sent and once more,    *)
(* three timeouts of hold-up, however many peers are ahead of it in        *)
(* activelist and although active_send renews hbtime where they stand.     *)
THEOREM SilentPeersAreClosed ==
    HB!Spec => []HB!IdleIsClosed
<1>1. HInv /\ [HB!Next]_(HB!vars) => HInv'
  BY HInvKept, HInvUnchanged
<1> QED
  BY <1>1, HInvAtFirst, HInvIsBound, PTL DEF HB!Spec

----------------------------------------------------------------------------
(* The loop, in Conn                                                       *)

(* A connection that is up, with its place on the ready list.              *)
Entry == [up : {TRUE}, inq : SUBSET Kind, fin : BOOLEAN, queued : BOOLEAN,
          stuck : BOOLEAN, out : BOOLEAN, ready : BOOLEAN, heard : BOOLEAN]

(* It has nothing to be told of that it is not on the ready list for.      *)
Awake(c) == Readable(c) \/ Writable(c) => c.ready

(* What has been read or set anew is awake.                                *)
LEMMA ModifiedIsAwake ==
    ASSUME NEW c \in Entry, NEW o \in BOOLEAN
    PROVE  Modified(c, o) \in Entry /\ Awake(Modified(c, o))
           /\ Modified(c, o).heard = c.heard
BY DEF Modified, Entry, Awake, Readable, Writable

(* do_send leaves the descriptor watched for what it left unsent.          *)
LEMMA SentIsAwake ==
    ASSUME NEW c \in Entry, NEW d \in Sent(c)
    PROVE  d = Gone \/ (d \in Entry /\ Awake(d))
<1> DEFINE c1 == [c EXCEPT !.queued = FALSE, !.heard = TRUE]
           c2 == [c EXCEPT !.stuck = TRUE]
<1>1. c1 \in Entry /\ c2 \in Entry
  BY DEF Entry
<1>2. d = Gone \/ d = Modified(c1, FALSE) \/ d = Modified(c2, TRUE)
  BY DEF Sent, Left
<1> HIDE DEF c1, c2
<1> QED
  BY <1>1, <1>2, ModifiedIsAwake

(* So does do_recv, but for a handler that returns RECV_SEND.              *)
LEMMA ReceivedIsAwake ==
    ASSUME ~AtOnce, NEW c \in Entry, NEW d \in Received(c)
    PROVE  d = Gone \/ (d \in Entry /\ Awake(d))
<1> DEFINE read == [c EXCEPT !.inq = {}, !.queued = @ \/ "ask" \in c.inq, !.heard = TRUE]
           ret == Returned(c.inq)
<1>1. read \in Entry
  BY DEF Entry, Kind
<1>2. ret = {"in"} \/ ret = {"in", "out"}
  BY DEF Returned
<1>3. PICK r \in {read, Modified(read, FALSE)} :
        d = Gone \/ d = Modified(r, FALSE) \/ d = Modified(r, TRUE)
  <2> HIDE DEF read
  <2> QED
    BY <1>2 DEF Received, read
<1>4. r \in Entry
  <2> HIDE DEF read
  <2> QED
    BY <1>1, ModifiedIsAwake
<1> QED
  BY <1>3, <1>4, ModifiedIsAwake

(* Whatever the loop is told of, it leaves the descriptor watched.         *)
LEMMA ProcessedIsAwake ==
    ASSUME ~AtOnce, NEW c \in Entry, c.ready = FALSE,
           NEW d \in Processed(c, Readable(c), Writable(c))
    PROVE  d = Gone \/ (d \in Entry /\ Awake(d))
<1>1. CASE Readable(c)
  <2>1. PICK g \in Received(c) : d = g \/ (g.up /\ d \in Sent(g))
    BY <1>1 DEF Processed
  <2>2. g = Gone \/ (g \in Entry /\ Awake(g))
    BY ReceivedIsAwake
  <2>3. g = Gone => ~g.up
    BY DEF Gone
  <2> QED
    BY <2>1, <2>2, <2>3, SentIsAwake
<1>2. CASE ~Readable(c)
  <2>1. (d = c /\ ~Writable(c)) \/ d \in Sent(c)
    BY <1>2 DEF Processed, Entry
  <2>2. ~Writable(c) => Awake(c)
    BY <1>2 DEF Awake
  <2> QED
    BY <2>1, <2>2, SentIsAwake
<1> QED
  BY <1>1, <1>2

(* With any handler, what is served stays an entry or is gone.             *)
LEMMA ProcessedIsEntry ==
    ASSUME NEW c \in Entry, NEW d \in Processed(c, Readable(c), Writable(c))
    PROVE  d = Gone \/ d \in Entry
<1> DEFINE read == [c EXCEPT !.inq = {}, !.queued = @ \/ "ask" \in c.inq, !.heard = TRUE]
<1>1. read \in Entry /\ Modified(read, FALSE) \in Entry
  <2>1. read \in Entry
    BY DEF Entry, Kind
  <2> HIDE DEF read
  <2> QED
    BY <2>1, ModifiedIsAwake
<1>2. ASSUME NEW g \in Received(c)
      PROVE  g = Gone \/ g \in Entry
  <2> HIDE DEF read
  <2>1. PICK r \in {read, Modified(read, FALSE)} :
          g = Gone \/ g = r \/ g = Modified(r, FALSE) \/ g = Modified(r, TRUE) \/ g \in Sent(r)
    BY <1>2 DEF Received, read
  <2> QED
    BY <1>1, <2>1, ModifiedIsAwake, SentIsAwake
<1>3. PICK g \in Received(c) \union {c} : d = g \/ (g.up /\ d \in Sent(g))
  BY DEF Processed
<1>4. Gone.up = FALSE
  BY DEF Gone
<1> QED
  BY <1>2, <1>3, <1>4, SentIsAwake

(* Between two events no one is marked as heard.                           *)
Still == {c \in Entry : c.heard = FALSE}
ConnsOK == conn \in [Peer -> {Gone} \union Still]
SameLinks == DOMAIN ahead = Up
CInv == ConnsOK /\ SameLinks /\ HInv

LEMMA EntriesAreUp ==
    /\ Gone.up = FALSE /\ Gone \notin Entry
    /\ \A c \in Entry : c.up = TRUE
    /\ ConnsOK => Up = {p \in Peer : conn[p] \in Still}
    /\ Fresh \in Still
<1>1. Gone.up = FALSE
  BY DEF Gone
<1>2. \A c \in Entry : c.up = TRUE
  BY DEF Entry
<1>3. Gone \notin Entry
  BY <1>1, <1>2
<1>4. ConnsOK => Up = {p \in Peer : conn[p] \in Still}
  BY <1>1, <1>2, <1>3 DEF ConnsOK, Up, Still
<1>5. Fresh \in Still
  BY DEF Fresh, Still, Entry
<1> QED
  BY <1>1, <1>2, <1>3, <1>4, <1>5

(* The operators of the pass are the same here and there.                  *)
LEMMA SamePass ==
    ASSUME SameLinks
    PROVE  /\ HB!Up = Up /\ HB!To = To
           /\ HB!AgeNow = AgeNow /\ HB!Scanned = Scanned
           /\ HB!Beaten = Beaten /\ HB!Closed = Closed
           /\ \A p : HB!MoveToTail(p) = MoveToTail(p) /\ HB!Without({p}) = Without({p})
           /\ \A new : HB!Passed(new) = Passed(new)
<1>1. HB!Up = Up /\ HB!To = To
  BY DEF SameLinks, HB!Up, HB!To, To
<1>2. HB!AgeNow = AgeNow
  BY <1>1 DEF HB!AgeNow, AgeNow
<1>3. HB!Scanned = Scanned
  BY <1>1, <1>2 DEF HB!Scanned, Scanned
<1>4. HB!Beaten = Beaten /\ HB!Closed = Closed
  BY <1>1, <1>2, <1>3 DEF HB!Beaten, HB!Closed, Beaten, Closed
<1>5. \A p : HB!MoveToTail(p) = MoveToTail(p) /\ HB!Without({p}) = Without({p})
  BY <1>1 DEF HB!MoveToTail, HB!Without, MoveToTail, Without
<1>6. \A new : HB!Passed(new) = Passed(new)
  BY <1>1, <1>4 DEF HB!Passed, Passed
<1> QED
  BY <1>1, <1>2, <1>3, <1>4, <1>5, <1>6

(* An event is Heard, Lost or nothing to Heartbeat.                        *)
LEMMA EventMaps ==
    ASSUME CInv, NEW p \in Peer, Event(p)
    PROVE  /\ HB!Heard(p) \/ HB!Lost(p) \/ UNCHANGED HB!vars
           /\ ConnsOK' /\ SameLinks'
<1>1. /\ p \in Up /\ conn[p] \in Still /\ conn \in [Peer -> {Gone} \union Still]
      /\ DOMAIN ahead = Up /\ Up \subseteq Peer
  BY EntriesAreUp DEF CInv, ConnsOK, SameLinks, Event
<1> DEFINE told == [conn[p] EXCEPT !.ready = FALSE]
<1>2. told \in Entry
  BY <1>1 DEF Entry, Still
<1>3. Readable(conn[p]) = Readable(told) /\ Writable(conn[p]) = Writable(told)
  BY <1>1 DEF Readable, Writable, Entry, Still
<1>4. PICK d \in Processed(told, Readable(conn[p]), Writable(conn[p])) :
        /\ conn' = [conn EXCEPT ![p] = IF d.up THEN [d EXCEPT !.heard = FALSE] ELSE d]
        /\ ahead' = IF ~d.up THEN Without({p}) ELSE IF d.heard THEN MoveToTail(p) ELSE ahead
        /\ age' = IF d.up /\ d.heard THEN [age EXCEPT ![p] = 0] ELSE age
        /\ work' = work
  BY DEF Event
<1>5. d = Gone \/ d \in Entry
  <2> HIDE DEF told
  <2> QED
    BY <1>2, <1>3, <1>4, ProcessedIsEntry
<1> HIDE DEF told
<1>6. p \in HB!Up /\ HB!MoveToTail(p) = MoveToTail(p) /\ HB!Without({p}) = Without({p})
  BY <1>1, SamePass DEF CInv
<1>7. CASE d = Gone
  <2>1. d.up = FALSE
    BY <1>7, EntriesAreUp
  <2>2. conn' = [conn EXCEPT ![p] = Gone] /\ ahead' = Without({p}) /\ age' = age
    BY <1>4, <1>7, <2>1
  <2>3. ConnsOK' /\ Up' = Up \ {p}
    BY <1>1, <2>2, EntriesAreUp DEF ConnsOK, Up
  <2>4. DOMAIN ahead' = Up \ {p}
    BY <2>2 DEF Without
  <2> QED
    BY <1>4, <1>6, <2>2, <2>3, <2>4 DEF HB!Lost, SameLinks
<1>8. CASE d \in Entry
  <2> DEFINE e == [d EXCEPT !.heard = FALSE]
  <2>1. d.up = TRUE /\ d.heard \in BOOLEAN /\ e \in Still
    BY <1>8 DEF Entry, Still
  <2> HIDE DEF e
  <2>2. conn' = [conn EXCEPT ![p] = e]
    BY <1>4, <2>1 DEF e
  <2>3. ConnsOK' /\ Up' = Up
    BY <1>1, <2>1, <2>2, EntriesAreUp DEF ConnsOK, Up, Still
  <2>4. CASE d.heard = TRUE
    <3>1. ahead' = MoveToTail(p) /\ age' = [age EXCEPT ![p] = 0]
      BY <1>4, <2>1, <2>4
    <3>2. DOMAIN ahead' = Up
      BY <1>1, <3>1 DEF MoveToTail
    <3> QED
      BY <1>4, <1>6, <2>3, <3>1, <3>2 DEF HB!Heard, SameLinks
  <2>5. CASE d.heard = FALSE
    <3>1. ahead' = ahead /\ age' = age /\ work' = work
      BY <1>4, <2>1, <2>5
    <3> QED
      BY <1>1, <2>3, <3>1 DEF HB!vars, SameLinks
  <2> QED
    BY <2>1, <2>4, <2>5
<1> QED
  BY <1>5, <1>7, <1>8

(* active_send queues data and asks for EPOLLOUT.                          *)
LEMMA QueuedIsAwake ==
    ASSUME NEW c \in Still
    PROVE  Queued(c) \in Still /\ Awake(Queued(c))
<1> DEFINE q == [c EXCEPT !.queued = TRUE]
<1>1. q \in Entry /\ q.heard = FALSE
  BY DEF Still, Entry
<1> HIDE DEF q
<1>2. Modified(q, TRUE) \in Entry /\ Awake(Modified(q, TRUE)) /\ Modified(q, TRUE).heard = FALSE
  BY <1>1, ModifiedIsAwake
<1> QED
  BY <1>2 DEF Queued, Still, q

(* What svc_timeout does to a connection.                                  *)
AfterPass(p, new, busy) ==
    IF p \in new THEN Queued(Fresh)
    ELSE IF p \in Closed THEN Gone
    ELSE IF p \in Beaten \union busy THEN Queued(conn[p])
    ELSE conn[p]

LEMMA PassOnConns ==
    ASSUME CInv, NEW new \in SUBSET Peer, NEW busy \in SUBSET Peer, SvcTimeout(new, busy),
           NEW p \in Peer
    PROVE  /\ conn'[p] = AfterPass(p, new, busy)
           /\ p \in (Up \ Closed) \union new =>
                /\ conn'[p] \in Still
                /\ conn'[p] = conn[p] \/ Awake(conn'[p])
           /\ p \notin (Up \ Closed) \union new => conn'[p] = Gone
<1>1. /\ conn \in [Peer -> {Gone} \union Still]
      /\ Up = {q \in Peer : conn[q] \in Still}
      /\ Fresh \in Still
  BY EntriesAreUp DEF CInv, ConnsOK
<1>2. /\ conn' = [q \in Peer |-> AfterPass(q, new, busy)]
      /\ busy \subseteq (Up \ Closed) \union new
  BY DEF SvcTimeout, AfterPass
<1>3. Closed \subseteq Up /\ Beaten \subseteq Up
  BY DEF Closed, Beaten, Scanned
<1>4. Closed \intersect Beaten = {}
  <2>1. ASSUME NEW q \in Closed, q \in Beaten
        PROVE  FALSE
    <3>1. q \in Up /\ AgeNow[q] \in Int /\ To \in Int
      <4>1. age \in [Peer -> Nat] /\ To \in Nat
        BY SamePass, BoundIsNat DEF CInv, HInv, HB!TypeOK
      <4> QED
        BY <1>3, <2>1, <4>1, <1>1 DEF AgeNow
    <3> QED
      BY <2>1, <3>1 DEF Closed, Beaten
  <2> QED
    BY <2>1
<1>5. CASE p \in new
  BY <1>1, <1>2, <1>5, QueuedIsAwake DEF AfterPass
<1>6. CASE p \notin new /\ p \in Up \ Closed
  BY <1>1, <1>2, <1>6, QueuedIsAwake DEF AfterPass
<1>7. CASE p \notin new /\ p \notin Up \ Closed
  <2>1. conn'[p] = Gone
    BY <1>1, <1>2, <1>3, <1>4, <1>7 DEF AfterPass
  <2> QED
    BY <1>2, <1>7, <2>1
<1> QED
  BY <1>5, <1>6, <1>7

(* The pass is the pass.                                                   *)
LEMMA PassMaps ==
    ASSUME CInv, NEW new \in SUBSET Peer, NEW busy \in SUBSET Peer, SvcTimeout(new, busy)
    PROVE  HB!SvcTimeout(new, busy) /\ ConnsOK' /\ SameLinks'
<1>1. /\ HB!Up = Up /\ HB!AgeNow = AgeNow /\ HB!Beaten = Beaten /\ HB!Closed = Closed
      /\ HB!Passed(new) = Passed(new)
  BY SamePass DEF CInv
<1>2. HB!SvcTimeout(new, busy)
  BY <1>1, SameCardinality DEF SvcTimeout, HB!SvcTimeout
<1>3. DOMAIN conn' = Peer /\ conn' = [p \in Peer |-> conn'[p]]
  BY DEF SvcTimeout
<1>4. ConnsOK'
  BY <1>3, PassOnConns DEF ConnsOK
<1>5. Up' = (Up \ Closed) \union new
  <2>1. Up \subseteq Peer
    BY DEF Up
  <2>2. Up' = {p \in Peer : conn'[p] \in Still}
    BY <1>4, EntriesAreUp DEF ConnsOK, Up, Still
  <2>3. Gone \notin Still
    BY EntriesAreUp DEF Still
  <2> QED
    BY <2>1, <2>2, <2>3, PassOnConns
<1>6. DOMAIN ahead' = (Up \ Closed) \union new
  BY DEF SvcTimeout, Passed
<1> QED
  BY <1>2, <1>4, <1>5, <1>6 DEF SameLinks

(* The kernel changes one entry, which stays up.                           *)
LEMMA KernelMaps ==
    ASSUME CInv, NEW p \in Up, NEW c \in Still,
           conn' = [conn EXCEPT ![p] = c], UNCHANGED <<ahead, age, work>>
    PROVE  UNCHANGED HB!vars /\ ConnsOK' /\ SameLinks'
<1>1. conn \in [Peer -> {Gone} \union Still] /\ conn[p] \in Still /\ p \in Peer
  BY EntriesAreUp DEF CInv, ConnsOK, Up
<1>2. ConnsOK'
  BY <1>1 DEF ConnsOK
<1>3. Up' = Up
  BY <1>1, EntriesAreUp DEF Up, Still
<1> QED
  BY <1>2, <1>3 DEF SameLinks, CInv, HB!vars

(* Every step of the loop is one of Heartbeat or none.                     *)
LEMMA StepMaps ==
    CInv /\ [Next]_vars => [HB!Next]_(HB!vars) /\ ConnsOK' /\ SameLinks'
<1> SUFFICES ASSUME CInv, [Next]_vars
             PROVE  [HB!Next]_(HB!vars) /\ ConnsOK' /\ SameLinks'
  OBVIOUS
<1>1. /\ conn \in [Peer -> {Gone} \union Still] /\ Up \subseteq Peer
      /\ \A p \in Up : conn[p] \in Still
      /\ DOMAIN ahead = Up
  BY EntriesAreUp DEF CInv, ConnsOK, SameLinks, Up
<1>2. ASSUME NEW p \in Peer, Accept(p)
      PROVE  HB!Connect(p) /\ ConnsOK' /\ SameLinks'
  <2>1. HB!Connect(p)
    BY <1>2, SamePass DEF Accept, HB!Connect, CInv
  <2>2. ConnsOK' /\ Up' = Up \union {p}
    BY <1>1, <1>2, EntriesAreUp DEF ConnsOK, Up, Accept, Still
  <2>3. DOMAIN ahead' = Up \union {p}
    BY <1>2 DEF Accept, MoveToTail
  <2> QED
    BY <2>1, <2>2, <2>3 DEF SameLinks
<1>3. ASSUME NEW p \in Peer, PeerCloses(p)
      PROVE  UNCHANGED HB!vars /\ ConnsOK' /\ SameLinks'
  <2>1. p \in Up /\ [conn[p] EXCEPT !.fin = TRUE, !.ready = TRUE] \in Still
    BY <1>1, <1>3 DEF PeerCloses, Still, Entry
  <2>2. /\ conn' = [conn EXCEPT ![p] = [conn[p] EXCEPT !.fin = TRUE, !.ready = TRUE]]
        /\ UNCHANGED <<ahead, age, work>>
    BY <1>1, <1>3, <2>1 DEF PeerCloses, Still, Entry
  <2> QED
    BY <2>1, <2>2, KernelMaps
<1>4. ASSUME NEW p \in Peer, Drain(p)
      PROVE  UNCHANGED HB!vars /\ ConnsOK' /\ SameLinks'
  <2>1. p \in Up /\ [conn[p] EXCEPT !.stuck = FALSE, !.ready = @ \/ conn[p].out] \in Still
    BY <1>1, <1>4 DEF Drain, Still, Entry
  <2>2. /\ conn' = [conn EXCEPT ![p] = [conn[p] EXCEPT !.stuck = FALSE, !.ready = @ \/ conn[p].out]]
        /\ UNCHANGED <<ahead, age, work>>
    BY <1>1, <1>4, <2>1 DEF Drain, Still, Entry
  <2> QED
    BY <2>1, <2>2, KernelMaps
<1>5. ASSUME NEW p \in Peer, NEW k \in Kind, Arrive(p, k)
      PROVE  UNCHANGED HB!vars /\ ConnsOK' /\ SameLinks'
  <2>1. p \in Up /\ [conn[p] EXCEPT !.inq = @ \union {k}, !.ready = TRUE] \in Still
    BY <1>1, <1>5 DEF Arrive, Still, Entry
  <2>2. /\ conn' = [conn EXCEPT ![p] = [conn[p] EXCEPT !.inq = @ \union {k}, !.ready = TRUE]]
        /\ UNCHANGED <<ahead, age, work>>
    BY <1>1, <1>5, <2>1 DEF Arrive, Still, Entry
  <2> QED
    BY <2>1, <2>2, KernelMaps
<1>6. CASE UNCHANGED vars
  BY <1>1, <1>6 DEF vars, HB!vars, CInv, ConnsOK, SameLinks, Up
<1>7. CASE Next
  BY <1>2, <1>3, <1>4, <1>5, <1>7, EventMaps, PassMaps DEF Next, HB!Next
<1> QED
  BY <1>6, <1>7

LEMMA CInvAtFirst ==
    Init => HB!Init /\ CInv
<1> SUFFICES ASSUME Init
             PROVE  HB!Init /\ CInv
  OBVIOUS
<1>1. HB!Init /\ ConnsOK /\ SameLinks
  BY EntriesAreUp DEF Init, HB!Init, ConnsOK, SameLinks, Up, Gone
<1> QED
  BY <1>1, HInvAtFirst DEF CInv

LEMMA CInvKept ==
    CInv /\ [Next]_vars => CInv' /\ [HB!Next]_(HB!vars)
<1> SUFFICES ASSUME CInv, [Next]_vars
             PROVE  CInv' /\ [HB!Next]_(HB!vars)
  OBVIOUS
<1>1. [HB!Next]_(HB!vars) /\ ConnsOK' /\ SameLinks'
  BY StepMaps
<1> QED
  BY <1>1, HInvKept, HInvUnchanged DEF CInv

(* Seen from activelist and the ages alone, the loop does what Heartbeat   *)
(* does: whatever is read, sent or closed in an event is a peer heard of,  *)
(* a peer lost, or nothing to the pass of svc_timeout.                     *)
THEOREM LoopImplementsPass ==
    Spec => PassSpec
<1>1. CInv /\ [Next]_vars => CInv' /\ [HB!Next]_(HB!vars)
  BY CInvKept
<1>2. Init => HB!Init /\ CInv
  BY CInvAtFirst
<1> QED
  BY <1>1, <1>2, PTL DEF Spec, PassSpec, HB!Spec

(* No wake-up is lost in a step.                                           *)
LEMMA WakeUpsKept ==
    ASSUME ~AtOnce, CInv, CInv', NoLostWakeUp, [Next]_vars
    PROVE  NoLostWakeUp'
<1>1. /\ conn \in [Peer -> {Gone} \union Still] /\ Up \subseteq Peer
      /\ \A p \in Up : conn[p] \in Still /\ Awake(conn[p])
  BY EntriesAreUp DEF CInv, ConnsOK, SameLinks, Up, NoLostWakeUp, Awake
<1>2. Gone.up = FALSE /\ Fresh.up = TRUE /\ Awake(Fresh)
  BY DEF Gone, Fresh, Awake, Readable, Writable
<1>3. ASSUME NEW p \in Peer, NEW c, c = Gone \/ Awake(c), conn' = [conn EXCEPT ![p] = c]
      PROVE  NoLostWakeUp'
  <2>1. \A q \in Peer : conn'[q].up => Awake(conn'[q])
    BY <1>1, <1>2, <1>3 DEF Up
  <2> QED
    BY <2>1 DEF NoLostWakeUp, Up, Awake
<1>4. ASSUME NEW p \in Peer, Accept(p)
      PROVE  NoLostWakeUp'
  BY <1>2, <1>3, <1>4 DEF Accept
<1>5. ASSUME NEW p \in Peer, PeerCloses(p)
      PROVE  NoLostWakeUp'
  <2>1. conn[p] \in Still
    BY <1>1, <1>5 DEF PeerCloses
  <2>2. [conn[p] EXCEPT !.fin = TRUE, !.ready = TRUE].ready
    BY <2>1 DEF Still, Entry
  <2>3. conn' = [conn EXCEPT ![p] = [conn[p] EXCEPT !.fin = TRUE, !.ready = TRUE]]
    BY <1>1, <1>5, <2>1 DEF PeerCloses, Still, Entry
  <2> QED
    BY <1>3, <2>2, <2>3 DEF Awake
<1>6. ASSUME NEW p \in Peer, Drain(p)
      PROVE  NoLostWakeUp'
  <2> DEFINE c == [conn[p] EXCEPT !.stuck = FALSE, !.ready = @ \/ conn[p].out]
  <2>1. conn[p] \in Still /\ Awake(conn[p])
    BY <1>1, <1>6 DEF Drain
  <2>2. Awake(c)
    BY <2>1 DEF Still, Entry, Awake, Readable, Writable
  <2>3. conn' = [conn EXCEPT ![p] = c]
    BY <1>1, <1>6, <2>1 DEF Drain, Still, Entry
  <2> HIDE DEF c
  <2> QED
    BY <1>3, <2>2, <2>3
<1>7. ASSUME NEW p \in Peer, NEW k \in Kind, Arrive(p, k)
      PROVE  NoLostWakeUp'
  <2>1. conn[p] \in Still
    BY <1>1, <1>7 DEF Arrive
  <2>2. [conn[p] EXCEPT !.inq = @ \union {k}, !.ready = TRUE].ready
    BY <2>1 DEF Still, Entry
  <2>3. conn' = [conn EXCEPT ![p] = [conn[p] EXCEPT !.inq = @ \union {k}, !.ready = TRUE]]
    BY <1>1, <1>7, <2>1 DEF Arrive, Still, Entry
  <2> QED
    BY <1>3, <2>2, <2>3 DEF Awake
<1>8. ASSUME NEW p \in Peer, Event(p)
      PROVE  NoLostWakeUp'
  <2> DEFINE told == [conn[p] EXCEPT !.ready = FALSE]
  <2>1. conn[p] \in Still
    BY <1>1, <1>8 DEF Event
  <2>2. told \in Entry /\ told.ready = FALSE
    BY <2>1 DEF Entry, Still
  <2>3. Readable(conn[p]) = Readable(told) /\ Writable(conn[p]) = Writable(told)
    BY <2>1 DEF Readable, Writable, Entry, Still
  <2>4. PICK d \in Processed(told, Readable(conn[p]), Writable(conn[p])) :
          conn' = [conn EXCEPT ![p] = IF d.up THEN [d EXCEPT !.heard = FALSE] ELSE d]
    BY <1>8 DEF Event
  <2> HIDE DEF told
  <2>5. d = Gone \/ (d \in Entry /\ Awake(d))
    BY <2>2, <2>3, <2>4, ProcessedIsAwake
  <2>6. CASE d = Gone
    BY <1>2, <1>3, <2>4, <2>6
  <2>7. CASE d \in Entry /\ Awake(d)
    <3>1. d.up = TRUE
      BY <2>7, EntriesAreUp
    <3>2. Awake([d EXCEPT !.heard = FALSE])
      BY <2>7 DEF Entry, Awake, Readable, Writable
    <3> QED
      BY <1>3, <2>4, <3>1, <3>2
  <2> QED
    BY <2>5, <2>6, <2>7
<1>9. ASSUME NEW new \in SUBSET Peer, NEW busy \in SUBSET Peer, SvcTimeout(new, busy)
      PROVE  NoLostWakeUp'
  <2>1. ASSUME NEW p \in Peer, conn'[p].up
        PROVE  Awake(conn'[p])
    <3>1. p \in (Up \ Closed) \union new
      BY <1>2, <1>9, <2>1, PassOnConns
    <3>2. conn'[p] = conn[p] \/ Awake(conn'[p])
      BY <1>9, <3>1, PassOnConns
    <3>3. conn'[p] = conn[p] => p \in Up
      BY <2>1 DEF Up
    <3> QED
      BY <1>1, <3>2, <3>3
  <2> QED
    BY <2>1 DEF NoLostWakeUp, Up, Awake
<1>10. CASE UNCHANGED vars
  BY <1>10 DEF vars, NoLostWakeUp, Up
<1>11. CASE Next
  BY <1>4, <1>5, <1>6, <1>7, <1>8, <1>9, <1>11 DEF Next
<1> QED
  BY <1>10, <1>11

LEMMA CInvIsSound ==
    CInv => TypeOK /\ IdleIsClosed
<1> SUFFICES ASSUME CInv
             PROVE  TypeOK /\ IdleIsClosed
  OBVIOUS
<1>1. IdleIsClosed
  BY HInvIsBound DEF CInv, IdleIsClosed
<1>2. \A p \in Up : conn[p] \in [up : {TRUE}, inq : SUBSET Kind, fin : BOOLEAN,
                                 queued : BOOLEAN, stuck : BOOLEAN, out : BOOLEAN,
                                 ready : BOOLEAN, heard : {FALSE}]
  BY EntriesAreUp DEF CInv, Still, Entry
<1>3. DOMAIN ahead = Up /\ HB!TypeOK
  BY DEF CInv, SameLinks, HInv
<1> QED
  BY <1>1, <1>2, <1>3 DEF TypeOK

(* Of any process: the list is in order and links who is connected, and a  *)
(* silent peer is closed in time.                                          *)
THEOREM SilenceEnds ==
    Spec => [](TypeOK /\ IdleIsClosed)
<1>1. CInv /\ [Next]_vars => CInv'
  BY CInvKept
<1>2. Init => CInv
  BY CInvAtFirst
<1> QED
  BY <1>1, <1>2, CInvIsSound, PTL DEF Spec

(* Of a tracker or a CS, whose handlers do not return RECV_SEND: besides,  *)
(* no connection waits with something to read, or with room for what it    *)
(* asked EPOLLOUT for, unannounced.                                        *)
THEOREM LoopIsSound ==
    ASSUME ~AtOnce
    PROVE  Spec => []LoopSound
<1> DEFINE I == CInv /\ NoLostWakeUp
<1>1. Init => I
  <2>1. Init => NoLostWakeUp
    BY DEF Init, NoLostWakeUp, Up, Gone
  <2> QED
    BY <2>1, CInvAtFirst
<1>2. I /\ [Next]_vars => I'
  BY CInvKept, WakeUpsKept
<1>3. I => LoopSound
  BY CInvIsSound DEF LoopSound
<1> HIDE DEF I
<1> QED
  BY <1>1, <1>2, <1>3, PTL DEF Spec

----------------------------------------------------------------------------
(* Reports                                                                 *)

(* Where the master stands in the stream: need units of a body are still   *)
(* to come, and the units of q follow.                                     *)
IsHead(u) == u.t = "head"
InBody(q, need, i) ==
    i =< need \/ \E j \in 1 .. i - 1 : IsHead(q[j]) /\ i =< j + q[j].n
InStep(q, need) == \A i \in 1 .. Len(q) : q[i].t = "line" <=> InBody(q, need, i)
Whole(q, need) ==
    need =< Len(q) /\ \A j \in 1 .. Len(q) : IsHead(q[j]) => j + q[j].n =< Len(q)

(* A file of tmpdir has a line for each of some tasks, and none of R.      *)
LinesBut(s, R) ==
    /\ s # << >>
    /\ \A k \in 1 .. Len(s) : \E r \in Rep \ R : s[k] = Line(r)
    /\ \A k, m \in 1 .. Len(s) : s[k] = s[m] => k = m
TmpInv ==
    /\ running \subseteq Rep /\ clean \subseteq Rep /\ running \intersect clean = {}
    /\ lost \subseteq Rep
    /\ tmp \in Seq(Seq(Unit)) /\ Len(tmp) =< MaxFile
    /\ \A i \in 1 .. Len(tmp) : LinesBut(tmp[i], running \union clean)
    /\ fresh \in BOOLEAN /\ (fresh => tmp # << >>)

AgentInv ==
    /\ at \in Conn \union {NoConn}
    /\ index = IF at = NoConn THEN 0 ELSE Len(tmp)
    /\ buff \in Seq(Unit) /\ file \in Seq(Unit)
    /\ file # << >> => index > 0

NetInv ==
    /\ net \in [Conn -> [wire : Seq(Unit), cmd : Nat, st : {"up", "gone", "half"}]]
    /\ peer \in [Conn -> [on : BOOLEAN, need : Nat, log : [Rep -> Nat]]]
    /\ out \in [Rep -> Nat]
    /\ \A c \in Conn : ~peer[c].on => peer[c].need = 0

(* What the master has still to read on a connection: what is under way,   *)
(* and if the connection is up, what the agent has still to send.          *)
Feeds(c) == c = at /\ net[c].st = "up"
Ahead(c) == IF Feeds(c) THEN net[c].wire \o (buff \o file) ELSE net[c].wire
Framing(c) ==
    /\ InStep(Ahead(c), peer[c].need)
    /\ Feeds(c) => Whole(Ahead(c), peer[c].need)
Agreed == ~junk /\ \A c \in Conn : Framing(c)
StepInv == ~mixed => Agreed

RepInv == TmpInv /\ AgentInv /\ NetInv /\ StepInv

(* Units                                                                   *)
LEMMA RepSize == IsFiniteSet(Rep) /\ Cardinality(Rep) \in Nat
  BY ReportAssumption, FS_CardinalityType

LEMMA WordIsUnit ==
  ASSUME NEW t \in {"auth", "beat", "answer"}
  PROVE  Word(t) \in Unit /\ Word(t).t = t
  BY DEF Word, Unit

LEMMA LineIsUnit ==
  ASSUME NEW r \in Rep
  PROVE  Line(r) \in Unit /\ Line(r).t = "line"
  BY DEF Line, Unit

LEMMA BeginIsUnit ==
  ASSUME NEW n \in 1 .. Cardinality(Rep)
  PROVE  Begin(n) \in Unit /\ Begin(n).t = "head" /\ Begin(n).n = n
  BY DEF Begin, Unit

LEMMA HeadsCount ==
  ASSUME NEW u \in Unit, IsHead(u)
  PROVE  u.n \in Nat
  BY RepSize DEF Unit, Begin, Line, Word, IsHead

LEMMA LinesAreReps ==
  ASSUME NEW u \in Unit, u.t = "line"
  PROVE  u.r \in Rep
  BY DEF Unit, Begin, Line, Word

(* Sequences of units                                                      *)
LEMMA PrefixInStep ==
  ASSUME NEW p \in Seq(Unit), NEW q \in Seq(Unit), NEW need \in Nat,
         Len(p) =< Len(q), \A i \in 1 .. Len(p) : p[i] = q[i], InStep(q, need)
  PROVE  InStep(p, need)
  <1> SUFFICES ASSUME NEW i \in 1 .. Len(p) PROVE p[i].t = "line" <=> InBody(p, need, i)
    BY DEF InStep
  <1>1. i \in 1 .. Len(q) /\ 1 .. i - 1 \subseteq 1 .. Len(p) /\ p[i] = q[i]
    OBVIOUS
  <1>2. InBody(p, need, i) <=> InBody(q, need, i)
    BY <1>1 DEF InBody
  <1> QED BY <1>1, <1>2 DEF InStep

LEMMA EmptyInStep == ASSUME NEW need PROVE InStep(<< >>, need)
  BY DEF InStep

LEMMA HeadInStep ==
  ASSUME NEW q \in Seq(Unit), q # << >>, NEW need \in Nat, InStep(q, need)
  PROVE  Head(q) \in Unit /\ (Head(q).t = "line" <=> need > 0)
  <1>1. 1 \in 1 .. Len(q) /\ Head(q) = q[1]
    OBVIOUS
  <1>2. InBody(q, need, 1) <=> need > 0
    BY DEF InBody
  <1> QED BY <1>1, <1>2 DEF InStep

LEMMA TakenHead ==
  ASSUME NEW q \in Seq(Unit), q # << >>, Head(q).t # "line",
         InStep(q, 0), NEW need, need = IF Head(q).t = "head" THEN Head(q).n ELSE 0
  PROVE  need \in Nat /\ InStep(Tail(q), need) /\ (Whole(q, 0) => Whole(Tail(q), need))
  <1> DEFINE p == Tail(q)
  <1>1. /\ p \in Seq(Unit) /\ Len(q) = Len(p) + 1 /\ Len(p) \in Nat
        /\ \A i \in 1 .. Len(p) : p[i] = q[i + 1]
        /\ Head(q) = q[1] /\ q[1] \in Unit
    BY HeadTailProperties, LenProperties
  <1>2. need \in Nat
    BY <1>1, HeadsCount DEF IsHead
  <1> HIDE DEF p
  <1>3. ASSUME NEW i \in 1 .. Len(p) PROVE InBody(p, need, i) <=> InBody(q, 0, i + 1)
    <2>1. ASSUME InBody(p, need, i) PROVE InBody(q, 0, i + 1)
      <3>1. CASE i =< need
        BY <3>1, <1>1, <1>2 DEF InBody, IsHead
      <3>2. CASE \E j \in 1 .. i - 1 : IsHead(p[j]) /\ i =< j + p[j].n
        <4>1. PICK j \in 1 .. i - 1 : IsHead(p[j]) /\ i =< j + p[j].n
          BY <3>2
        <4>2. j + 1 \in 1 .. (i + 1) - 1 /\ q[j + 1] = p[j] /\ p[j] \in Unit
          BY <1>1
        <4>3. p[j].n \in Nat
          BY <4>1, <4>2, HeadsCount
        <4> QED BY <4>1, <4>2, <4>3 DEF InBody
      <3> QED BY <2>1, <3>1, <3>2 DEF InBody
    <2>2. ASSUME InBody(q, 0, i + 1) PROVE InBody(p, need, i)
      <3>1. PICK j \in 1 .. i : IsHead(q[j]) /\ i + 1 =< j + q[j].n
        BY <2>2 DEF InBody
      <3>2. CASE j = 1
        <4>1. need = q[1].n /\ i + 1 =< 1 + q[1].n
          BY <3>1, <3>2, <1>1 DEF IsHead
        <4> QED BY <4>1, <1>1, <1>2 DEF InBody
      <3>3. CASE j # 1
        <4>1. j - 1 \in 1 .. i - 1 /\ q[j] = p[j - 1] /\ p[j - 1] \in Unit
          BY <3>3, <1>1
        <4>2. q[j].n \in Nat
          BY <3>1, <4>1, HeadsCount
        <4> QED BY <3>1, <4>1, <4>2 DEF InBody
      <3> QED BY <3>2, <3>3
    <2> QED BY <2>1, <2>2
  <1>4. InStep(p, need)
    <2> SUFFICES ASSUME NEW i \in 1 .. Len(p) PROVE p[i].t = "line" <=> InBody(p, need, i)
      BY DEF InStep
    <2>1. i + 1 \in 1 .. Len(q) /\ p[i] = q[i + 1]
      BY <1>1
    <2> QED BY <1>3, <2>1 DEF InStep
  <1>5. ASSUME Whole(q, 0) PROVE Whole(p, need)
    <2>1. need =< Len(p)
      BY <1>1, <1>2, <1>5 DEF Whole, IsHead
    <2>2. ASSUME NEW j \in 1 .. Len(p), IsHead(p[j]) PROVE j + p[j].n =< Len(p)
      <3>1. j + 1 \in 1 .. Len(q) /\ p[j] = q[j + 1] /\ p[j] \in Unit
        BY <1>1
      <3>2. p[j].n \in Nat /\ (j + 1) + p[j].n =< Len(q)
        BY <1>5, <2>2, <3>1, HeadsCount DEF Whole
      <3> QED BY <1>1, <3>2
    <2> QED BY <2>1, <2>2 DEF Whole
  <1> QED BY <1>2, <1>4, <1>5 DEF p

LEMMA TakenLine ==
  ASSUME NEW q \in Seq(Unit), q # << >>, NEW need \in Nat \ {0},
         InStep(q, need)
  PROVE  InStep(Tail(q), need - 1) /\ (Whole(q, need) => Whole(Tail(q), need - 1))
  <1> DEFINE p == Tail(q)
  <1>1. /\ p \in Seq(Unit) /\ Len(q) = Len(p) + 1 /\ Len(p) \in Nat
        /\ \A i \in 1 .. Len(p) : p[i] = q[i + 1]
        /\ Head(q) = q[1] /\ q[1] \in Unit
    BY HeadTailProperties, LenProperties
  <1>2. q[1].t = "line"
    BY <1>1, HeadInStep
  <1> HIDE DEF p
  <1>3. ASSUME NEW i \in 1 .. Len(p) PROVE InBody(p, need - 1, i) <=> InBody(q, need, i + 1)
    <2>1. ASSUME NEW j \in 1 .. i - 1, IsHead(p[j]), i =< j + p[j].n
          PROVE  InBody(q, need, i + 1)
      <3>1. j + 1 \in 1 .. (i + 1) - 1 /\ q[j + 1] = p[j] /\ p[j] \in Unit
        BY <1>1
      <3>2. p[j].n \in Nat
        BY <2>1, <3>1, HeadsCount
      <3>3. i + 1 =< (j + 1) + q[j + 1].n /\ IsHead(q[j + 1])
        BY <2>1, <3>1, <3>2
      <3> QED BY <3>1, <3>3 DEF InBody
    <2>2. ASSUME NEW j \in 1 .. (i + 1) - 1, IsHead(q[j]), i + 1 =< j + q[j].n
          PROVE  InBody(p, need - 1, i)
      <3>1. j # 1
        BY <1>2, <2>2 DEF IsHead
      <3>2. j - 1 \in 1 .. i - 1 /\ q[j] = p[j - 1] /\ p[j - 1] \in Unit
        BY <3>1, <1>1
      <3>3. q[j].n \in Nat
        BY <2>2, <3>2, HeadsCount
      <3> QED BY <2>2, <3>2, <3>3 DEF InBody
    <2>3. i =< need - 1 <=> i + 1 =< need
      OBVIOUS
    <2> QED BY <2>1, <2>2, <2>3 DEF InBody
  <1>4. InStep(p, need - 1)
    <2> SUFFICES ASSUME NEW i \in 1 .. Len(p) PROVE p[i].t = "line" <=> InBody(p, need - 1, i)
      BY DEF InStep
    <2>1. i + 1 \in 1 .. Len(q) /\ p[i] = q[i + 1]
      BY <1>1
    <2> QED BY <1>3, <2>1 DEF InStep
  <1>5. ASSUME Whole(q, need) PROVE Whole(p, need - 1)
    <2>1. need - 1 =< Len(p)
      BY <1>1, <1>5 DEF Whole
    <2>2. ASSUME NEW j \in 1 .. Len(p), IsHead(p[j]) PROVE j + p[j].n =< Len(p)
      <3>1. j + 1 \in 1 .. Len(q) /\ p[j] = q[j + 1] /\ p[j] \in Unit
        BY <1>1
      <3>2. p[j].n \in Nat /\ (j + 1) + p[j].n =< Len(q)
        BY <1>5, <2>2, <3>1, HeadsCount DEF Whole
      <3> QED BY <1>1, <3>2
    <2> QED BY <2>1, <2>2 DEF Whole
  <1> QED BY <1>4, <1>5 DEF p

(* What the agent puts behind a stream in which its messages are whole: a  *)
(* unit that is no line and announces none, or a head and its lines.       *)
LEMMA WordPut ==
  ASSUME NEW q \in Seq(Unit), NEW need \in Nat,
         NEW t \in {"auth", "beat", "answer"}, InStep(q, need), Whole(q, need)
  PROVE  LET p == q \o <<Word(t)>> IN InStep(p, need) /\ Whole(p, need)
  <1> DEFINE w == Word(t)
             p == q \o <<w>>
  <1>1. w \in Unit /\ w.t = t
    BY WordIsUnit
  <1> HIDE DEF w
  <1>2. /\ Len(q) \in Nat /\ Len(p) = Len(q) + 1
        /\ \A i \in 1 .. Len(q) : p[i] = q[i]
        /\ p[Len(q) + 1] = w
    BY <1>1
  <1> HIDE DEF p
  <1>3. ASSUME NEW i \in 1 .. Len(q) PROVE p[i].t = "line" <=> InBody(p, need, i)
    <2>1. InBody(p, need, i) <=> InBody(q, need, i)
      BY <1>2 DEF InBody
    <2> QED BY <1>2, <2>1 DEF InStep
  <1>4. ~InBody(p, need, Len(q) + 1)
    <2>1. ASSUME NEW j \in 1 .. Len(q), IsHead(p[j]), Len(q) + 1 =< j + p[j].n PROVE FALSE
      <3>1. p[j] = q[j] /\ q[j] \in Unit
        BY <1>2
      <3>2. q[j].n \in Nat
        BY <2>1, <3>1, HeadsCount
      <3> QED BY <2>1, <3>1, <3>2, <1>2 DEF Whole
    <2>2. (Len(q) + 1) - 1 = Len(q)
      BY <1>2
    <2> QED BY <1>2, <2>1, <2>2 DEF InBody, Whole
  <1>5. InStep(p, need)
    BY <1>1, <1>2, <1>3, <1>4 DEF InStep
  <1>6. Whole(p, need)
    <2>1. ASSUME NEW j \in 1 .. Len(p), IsHead(p[j]) PROVE j + p[j].n =< Len(p)
      <3>1. j \in 1 .. Len(q) /\ p[j] = q[j] /\ q[j] \in Unit
        BY <1>1, <1>2, <2>1 DEF IsHead
      <3>2. q[j].n \in Nat
        BY <2>1, <3>1, HeadsCount
      <3> QED BY <2>1, <3>1, <3>2, <1>2 DEF Whole
    <2> QED BY <1>2, <2>1 DEF Whole
  <1> QED BY <1>5, <1>6 DEF p, w

IsBody(s) == s \in Seq(Unit) /\ \A k \in 1 .. Len(s) : s[k].t = "line"
LEMMA BodyPut ==
  ASSUME NEW q \in Seq(Unit), NEW need \in Nat,
         NEW s, IsBody(s), Len(s) \in 1 .. Cardinality(Rep),
         InStep(q, need), Whole(q, need)
  PROVE  LET p == q \o (<<Begin(Len(s))>> \o s) IN InStep(p, need) /\ Whole(p, need)
  <1> DEFINE b == Begin(Len(s))
             m == <<b>> \o s
             p == q \o m
             n == Len(q) + 1
  <1>1. b \in Unit /\ b.t = "head" /\ b.n = Len(s)
    BY BeginIsUnit
  <1>2. s \in Seq(Unit) /\ Len(s) \in Nat
    BY DEF IsBody
  <1> HIDE DEF b
  <1>3. /\ m \in Seq(Unit) /\ Len(m) = Len(s) + 1 /\ m[1] = b
        /\ \A i \in 1 .. Len(s) : m[i + 1] = s[i]
    BY <1>1, <1>2
  <1> HIDE DEF m
  <1>4a. n = Len(q) + 1 /\ Len(q) \in Nat /\ n \in Nat
    OBVIOUS
  <1> HIDE DEF n
  <1>4b. /\ Len(p) = Len(q) + Len(m)
         /\ \A i \in 1 .. Len(q) + Len(m) : p[i] = IF i =< Len(q) THEN q[i] ELSE m[i - Len(q)]
    BY <1>3, ConcatProperties
  <1> HIDE DEF p
  <1>4. /\ Len(q) \in Nat /\ n \in Nat /\ Len(p) = n + Len(s)
        /\ \A i \in 1 .. Len(q) : p[i] = q[i]
        /\ p[n] = b
        /\ \A i \in 1 .. Len(s) : p[n + i] = s[i]
    <2>1. Len(p) = n + Len(s)
      BY <1>2, <1>3, <1>4a, <1>4b
    <2>2. \A i \in 1 .. Len(q) : p[i] = q[i]
      BY <1>2, <1>3, <1>4a, <1>4b
    <2>3. p[n] = b
      BY <1>2, <1>3, <1>4a, <1>4b
    <2>4. ASSUME NEW i \in 1 .. Len(s) PROVE p[n + i] = s[i]
      <3>1. n + i \in 1 .. Len(q) + Len(m) /\ (n + i) - Len(q) = i + 1 /\ ~(n + i =< Len(q))
        BY <1>2, <1>3, <1>4a
      <3> QED BY <1>3, <1>4b, <3>1
    <2> QED BY <1>4a, <2>1, <2>2, <2>3, <2>4
  <1>5. ASSUME NEW i \in 1 .. Len(q) PROVE p[i].t = "line" <=> InBody(p, need, i)
    <2>1. 1 .. i - 1 \subseteq 1 .. Len(q)
      BY <1>4a
    <2>2. \A j \in 1 .. i - 1 : p[j] = q[j]
      BY <1>4, <2>1
    <2>3. InBody(p, need, i) <=> InBody(q, need, i)
      BY <2>2 DEF InBody
    <2> QED BY <1>4, <2>3 DEF InStep
  <1>6. ASSUME NEW j \in 1 .. Len(q), IsHead(p[j])
        PROVE  p[j].n \in Nat /\ j + p[j].n =< Len(q)
    <2>1. p[j] = q[j] /\ q[j] \in Unit
      BY <1>4
    <2>2. q[j].n \in Nat
      BY <1>6, <2>1, HeadsCount
    <2> QED BY <1>6, <2>1, <2>2 DEF Whole
  <1>7. ~InBody(p, need, n)
    <2>1. n - 1 = Len(q)
      BY <1>4, <1>4a
    <2> QED BY <1>4, <1>4a, <1>6, <2>1 DEF InBody, Whole
  <1>8. ASSUME NEW k \in 1 .. Len(s) PROVE p[n + k].t = "line" /\ InBody(p, need, n + k)
    <2>1. n \in 1 .. (n + k) - 1 /\ n + k =< n + p[n].n /\ IsHead(p[n])
      BY <1>1, <1>2, <1>4, <1>4a DEF IsHead
    <2> QED BY <1>4, <2>1 DEF InBody, IsBody
  <1>9. InStep(p, need)
    <2> SUFFICES ASSUME NEW i \in 1 .. Len(p) PROVE p[i].t = "line" <=> InBody(p, need, i)
      BY DEF InStep
    <2>1. CASE i \in 1 .. Len(q)
      BY <1>5, <2>1
    <2>2. CASE i = n
      BY <1>1, <1>4, <1>7, <2>2
    <2>3. CASE i \in n + 1 .. n + Len(s)
      <3>1. i - n \in 1 .. Len(s) /\ n + (i - n) = i
        BY <1>2, <1>4, <2>3
      <3> QED BY <1>8, <3>1
    <2> QED BY <1>2, <1>4, <1>4a, <2>1, <2>2, <2>3
  <1>10. Whole(p, need)
    <2>1. ASSUME NEW j \in 1 .. Len(p), IsHead(p[j]) PROVE j + p[j].n =< Len(p)
      <3>1. CASE j \in 1 .. Len(q)
        BY <1>2, <1>4, <1>4a, <1>6, <2>1, <3>1
      <3>2. CASE j = n
        BY <1>1, <1>2, <1>4, <3>2
      <3>3. CASE j \in n + 1 .. n + Len(s)
        <4>1. j - n \in 1 .. Len(s) /\ n + (j - n) = j
          BY <1>2, <1>4, <3>3
        <4> QED BY <1>8, <2>1, <4>1 DEF IsHead
      <3> QED BY <1>2, <1>4, <1>4a, <3>1, <3>2, <3>3
    <2> QED BY <1>2, <1>4, <1>4a, <2>1 DEF Whole
  <1> QED BY <1>9, <1>10 DEF p, m, b

(* The lines of some tasks, and files of tmpdir                            *)
LEMMA LinesAreBody ==
  ASSUME NEW s \in Seq(Unit), NEW R, LinesBut(s, R)
  PROVE  IsBody(s) /\ Len(s) \in 1 .. Cardinality(Rep)
  <1>1. IsBody(s) /\ Len(s) \in Nat \ {0}
    <2>1. Len(s) \in Nat \ {0}
      BY EmptySeq DEF LinesBut
    <2>2. ASSUME NEW k \in 1 .. Len(s) PROVE s[k].t = "line"
      <3>1. PICK r \in Rep : s[k] = Line(r)
        BY DEF LinesBut
      <3> QED BY <3>1 DEF Line
    <2> QED BY <2>1, <2>2 DEF IsBody
  <1> DEFINE rep == [k \in 1 .. Len(s) |-> s[k].r]
  <1>2. \A k \in 1 .. Len(s) : s[k].r \in Rep /\ s[k] = Line(s[k].r)
    <2> TAKE k \in 1 .. Len(s)
    <2>1. PICK r \in Rep : s[k] = Line(r)
      BY DEF LinesBut
    <2> QED BY <2>1 DEF Line
  <1>3. rep \in Injection(1 .. Len(s), Rep)
    <2>1. rep \in [1 .. Len(s) -> Rep]
      BY <1>2
    <2>2. ASSUME NEW k \in 1 .. Len(s), NEW m \in 1 .. Len(s), rep[k] = rep[m] PROVE k = m
      <3>1. s[k] = s[m]
        BY <1>2, <2>2
      <3> QED BY <3>1 DEF LinesBut
    <2> HIDE DEF rep
    <2> QED BY <2>1, <2>2 DEF Injection, IsInjective
  <1>4. Cardinality(1 .. Len(s)) =< Cardinality(Rep)
    BY <1>3, RepSize, FS_Injection
  <1>5. Cardinality(1 .. Len(s)) = Len(s)
    <2>1. 1 \in Int /\ Len(s) \in Int /\ ~(1 > Len(s))
      BY <1>1
    <2>2. Cardinality(1 .. Len(s)) = Len(s) - 1 + 1
      BY <2>1, FS_Interval
    <2> QED BY <1>1, <2>2
  <1> QED BY <1>1, <1>4, <1>5, RepSize

LEMMA FewerBut ==
  ASSUME NEW s, NEW R, NEW Q, Q \subseteq R, LinesBut(s, R)
  PROVE  LinesBut(s, Q)
  BY DEF LinesBut

LEMMA AsLinesIs ==
  ASSUME NEW S \in SUBSET Rep, S # {}, NEW R, S \intersect R = {}
  PROVE  /\ AsLines(S) \in Seq(Unit) /\ Len(AsLines(S)) = Cardinality(S)
         /\ LinesBut(AsLines(S), R)
         /\ \A k \in 1 .. Len(AsLines(S)) : \E r \in S : AsLines(S)[k] = Line(r)
  <1> DEFINE T == {Line(r) : r \in S}
             line == [r \in S |-> Line(r)]
             n == Cardinality(S)
             f == SetToSeq(T)
  <1>1. IsFiniteSet(S) /\ n \in Nat \ {0}
    BY RepSize, FS_Subset, FS_CardinalityType, FS_EmptySet
  <1>2. line \in Bijection(S, T)
    BY DEF Bijection, Injection, Surjection, IsInjective, Line
  <1>3. IsFiniteSet(T) /\ Cardinality(T) = n
    BY <1>1, <1>2, FS_Bijection DEF ExistsBijection
  <1>4. ExistsBijection(1 .. n, T)
    BY <1>3, FS_CardinalityType
  <1>5. PICK g \in [1 .. n -> T] : IsInjective(g)
    BY <1>4, Zenon DEF ExistsBijection, Bijection, Injection
  <1>6. f \in [1 .. n -> T] /\ IsInjective(f)
    BY <1>3, <1>5, Zenon DEF SetToSeq
  <1>7. T \subseteq Unit
    BY LineIsUnit
  <1> HIDE DEF f, n
  <1>8. f \in Seq(Unit) /\ Len(f) = n
    <2>1. f \in [1 .. n -> Unit]
      BY <1>6, <1>7
    <2> QED BY <1>1, <2>1
  <1>9. \A k \in 1 .. Len(f) : \E r \in S : f[k] = Line(r)
    BY <1>6, <1>8
  <1>10. LinesBut(f, R)
    <2>1. f # << >>
      BY <1>1, <1>8
    <2>2. \A k, m \in 1 .. Len(f) : f[k] = f[m] => k = m
      BY <1>6, <1>8 DEF IsInjective
    <2> QED BY <1>9, <2>1, <2>2 DEF LinesBut
  <1> QED BY <1>8, <1>9, <1>10 DEF AsLines, f, n

LEMMA MoreLines ==
  ASSUME NEW S \in SUBSET Rep, S # {}, NEW s \in Seq(Unit), NEW R, NEW Q,
         LinesBut(s, R \union S), Q \subseteq R, S \intersect Q = {}
  PROVE  s \o AsLines(S) \in Seq(Unit) /\ LinesBut(s \o AsLines(S), Q)
  <1> DEFINE a == AsLines(S)
             p == s \o a
  <1>1. /\ a \in Seq(Unit) /\ LinesBut(a, Q)
        /\ \A k \in 1 .. Len(a) : \E r \in S : a[k] = Line(r)
    BY AsLinesIs
  <1> HIDE DEF a
  <1>2. /\ p \in Seq(Unit) /\ Len(p) = Len(s) + Len(a) /\ Len(s) \in Nat /\ Len(a) \in Nat
        /\ \A i \in 1 .. Len(s) + Len(a) :
              p[i] = IF i =< Len(s) THEN s[i] ELSE a[i - Len(s)]
    BY <1>1, ConcatProperties
  <1>3. Len(s) # 0
    BY EmptySeq DEF LinesBut
  <1> HIDE DEF p
  <1>4. ASSUME NEW k \in 1 .. Len(p)
        PROVE  IF k =< Len(s) THEN k \in 1 .. Len(s) /\ p[k] = s[k]
               ELSE k - Len(s) \in 1 .. Len(a) /\ p[k] = a[k - Len(s)]
    BY <1>2
  <1>5. ASSUME NEW k \in 1 .. Len(p), k =< Len(s)
        PROVE  \E r \in Rep \ (R \union S) : p[k] = Line(r)
    BY <1>4, <1>5 DEF LinesBut
  <1>6. ASSUME NEW k \in 1 .. Len(p), ~(k =< Len(s))
        PROVE  \E r \in S : p[k] = Line(r)
    BY <1>1, <1>4, <1>6
  <1>7. ASSUME NEW k \in 1 .. Len(p), NEW m \in 1 .. Len(p), k =< Len(s), ~(m =< Len(s))
        PROVE  p[k] # p[m]
    <2>1. PICK r \in Rep \ (R \union S) : p[k] = Line(r)
      BY <1>5, <1>7
    <2>2. PICK q \in S : p[m] = Line(q)
      BY <1>6, <1>7
    <2>3. Line(r).r = r /\ Line(q).r = q /\ r # q
      BY DEF Line
    <2> QED BY <2>1, <2>2, <2>3
  <1>8. ASSUME NEW k \in 1 .. Len(p), NEW m \in 1 .. Len(p), p[k] = p[m] PROVE k = m
    <2>1. CASE k =< Len(s) /\ m =< Len(s)
      BY <1>4, <1>8, <2>1 DEF LinesBut
    <2>2. CASE ~(k =< Len(s)) /\ ~(m =< Len(s))
      <3>1. k - Len(s) = m - Len(s)
        BY <1>1, <1>4, <1>8, <2>2 DEF LinesBut
      <3> QED BY <1>2, <3>1
    <2> QED BY <1>7, <1>8, <2>1, <2>2
  <1>9. p # << >>
    BY <1>2, <1>3
  <1>10. \A k \in 1 .. Len(p) : \E r \in Rep \ Q : p[k] = Line(r)
    BY <1>5, <1>6
  <1>11. LinesBut(p, Q)
    BY <1>8, <1>9, <1>10 DEF LinesBut
  <1> QED BY <1>2, <1>11 DEF p, a

(* tmpdir                                                                  *)
LEMMA QuietTmp ==
  ASSUME TmpInv, tmp' = tmp, running' \union clean' \subseteq running \union clean,
         running' \intersect clean' = {}, fresh' \in BOOLEAN, fresh' => fresh, lost' \subseteq Rep
  PROVE  TmpInv'
  <1>1. \A i \in 1 .. Len(tmp) : LinesBut(tmp[i], running' \union clean')
    BY FewerBut DEF TmpInv
  <1> QED BY <1>1 DEF TmpInv

LEMMA DumpKeepsTmp ==
  ASSUME TmpInv, Dump PROVE TmpInv'
  <1>1. /\ clean # {} /\ clean' = {} /\ running' = running /\ clean \in SUBSET Rep
        /\ running \subseteq Rep /\ running \intersect clean = {}
    BY DEF Dump, TmpInv
  <1>2. CASE lost' = lost \union clean /\ UNCHANGED <<tmp, fresh>>
    BY <1>1, <1>2, QuietTmp DEF TmpInv
  <1>3. CASE /\ fresh /\ tmp' = [tmp EXCEPT ![1] = @ \o AsLines(clean)]
             /\ UNCHANGED <<fresh, lost>>
    <2>1. tmp \in Seq(Seq(Unit)) /\ tmp # << >> /\ 1 \in 1 .. Len(tmp)
      BY <1>3, EmptySeq DEF TmpInv
    <2>2. tmp[1] \in Seq(Unit) /\ LinesBut(tmp[1], running \union clean)
      <3>1. tmp[1] \in Seq(Unit)
        BY <2>1, ElementOfSeq
      <3>2. \A i \in 1 .. Len(tmp) : LinesBut(tmp[i], running \union clean)
        BY DEF TmpInv
      <3> QED BY <2>1, <3>1, <3>2
    <2>3. /\ tmp[1] \o AsLines(clean) \in Seq(Unit)
          /\ LinesBut(tmp[1] \o AsLines(clean), running)
      BY <1>1, <2>2, MoreLines
    <2> DEFINE new == tmp[1] \o AsLines(clean)
    <2> HIDE DEF new
    <2>4. tmp' = [tmp EXCEPT ![1] = new] /\ new \in Seq(Unit) /\ LinesBut(new, running)
      BY <1>3, <2>3 DEF new
    <2>5. /\ tmp' \in Seq(Seq(Unit)) /\ Len(tmp') = Len(tmp)
          /\ \A i \in 1 .. Len(tmp) : tmp'[i] = IF i = 1 THEN new ELSE tmp[i]
      BY <2>1, <2>4, ExceptSeq
    <2>6. \A i \in 1 .. Len(tmp) : LinesBut(tmp[i], running)
      BY FewerBut DEF TmpInv
    <2>7. running' \union clean' = running
      BY <1>1
    <2>8. \A i \in 1 .. Len(tmp') : LinesBut(tmp'[i], running' \union clean')
      BY <2>4, <2>5, <2>6, <2>7
    <2>9. tmp' # << >> /\ Len(tmp') =< MaxFile
      BY <2>1, <2>5, EmptySeq DEF TmpInv
    <2> QED BY <1>1, <1>3, <2>5, <2>8, <2>9 DEF TmpInv
  <1>4. CASE /\ ~fresh /\ Len(tmp) < MaxFile /\ tmp' = <<AsLines(clean)>> \o tmp
             /\ fresh' = TRUE /\ UNCHANGED lost
    <2> DEFINE new == AsLines(clean)
    <2>1. new \in Seq(Unit) /\ LinesBut(new, running)
      BY <1>1, AsLinesIs
    <2> HIDE DEF new
    <2>2. tmp' = <<new>> \o tmp
      BY <1>4 DEF new
    <2>3. tmp \in Seq(Seq(Unit)) /\ Len(tmp) \in Nat /\ MaxFile \in Nat
      BY ReportAssumption DEF TmpInv
    <2>4. /\ <<new>> \in Seq(Seq(Unit)) /\ Len(<<new>>) = 1 /\ <<new>>[1] = new
      BY <2>1
    <2>5. /\ tmp' \in Seq(Seq(Unit)) /\ Len(tmp') = 1 + Len(tmp)
          /\ \A i \in 1 .. 1 + Len(tmp) : tmp'[i] = IF i =< 1 THEN <<new>>[i] ELSE tmp[i - 1]
      BY <2>2, <2>3, <2>4, ConcatProperties
    <2>6. \A i \in 1 .. Len(tmp) : LinesBut(tmp[i], running)
      BY FewerBut DEF TmpInv
    <2>7. running' \union clean' = running
      BY <1>1
    <2>8. ASSUME NEW i \in 1 .. Len(tmp') PROVE LinesBut(tmp'[i], running)
      <3>1. CASE i = 1
        BY <2>1, <2>3, <2>4, <2>5, <3>1
      <3>2. CASE i # 1
        <4>1. i - 1 \in 1 .. Len(tmp) /\ ~(i =< 1) /\ i \in 1 .. 1 + Len(tmp)
          BY <2>3, <2>5, <3>2
        <4> QED BY <2>5, <2>6, <4>1
      <3> QED BY <3>1, <3>2
    <2>9. tmp' # << >> /\ Len(tmp') =< MaxFile
      BY <1>4, <2>3, <2>5
    <2> QED BY <1>1, <1>4, <2>5, <2>7, <2>8, <2>9 DEF TmpInv
  <1> QED BY <1>2, <1>3, <1>4 DEF Dump

(* The file that was sent is the oldest, and goes.                         *)
LEMMA RemovedIs ==
  ASSUME NEW S, NEW s \in Seq(S), s # << >>
  PROVE  /\ RemoveAt(s, Len(s)) \in Seq(S) /\ Len(RemoveAt(s, Len(s))) = Len(s) - 1
         /\ \A i \in 1 .. Len(s) - 1 : RemoveAt(s, Len(s))[i] = s[i]
  <1> DEFINE n == Len(s)
             a == SubSeq(s, 1, n - 1)
             b == SubSeq(s, n + 1, n)
  <1>1. n \in Nat \ {0} /\ n - 1 \in Nat
    BY EmptySeq
  <1>2. \A i \in 1 .. n - 1 : s[i] \in S
    BY <1>1, ElementOfSeq
  <1> HIDE DEF n
  <1>3. /\ a \in Seq(S) /\ Len(a) = n - 1 /\ \A i \in 1 .. n - 1 : a[i] = s[i]
    <2>1. 1 \in Int /\ n - 1 \in Int
      BY <1>1
    <2>2. /\ a \in Seq(S) /\ Len(a) = IF 1 <= n - 1 THEN (n - 1) - 1 + 1 ELSE 0
          /\ \A i \in 1 .. (n - 1) - 1 + 1 : a[i] = s[1 + i - 1]
      BY <1>2, <2>1, SubSeqProperties
    <2> HIDE DEF a
    <2>3. (n - 1) - 1 + 1 = n - 1 /\ \A i \in 1 .. n - 1 : 1 + i - 1 = i
      BY <1>1
    <2> QED BY <1>1, <2>2, <2>3
  <1>4. b = << >>
    BY <1>1, SubSeqEmpty
  <1>5. a \o b = a
    BY <1>3, <1>4, ConcatEmptySeq
  <1> QED BY <1>3, <1>5 DEF RemoveAt, n

LEMMA SendKeepsTmp ==
  ASSUME TmpInv, AgentInv, NEW n, Send(n) PROVE TmpInv'
  <1>1. running' = running /\ clean' = clean /\ lost' = lost /\ at # NoConn
    BY DEF Send, history
  <1>2. CASE file # << >> /\ SentAll(n)
    <2>1. tmp' = RemoveAt(tmp, index) /\ fresh' = (fresh /\ tmp' # << >>)
      BY <1>2 DEF Send
    <2>2. tmp \in Seq(Seq(Unit)) /\ index = Len(tmp) /\ tmp # << >>
      BY <1>1, <1>2, EmptySeq DEF TmpInv, AgentInv
    <2>3. /\ tmp' \in Seq(Seq(Unit)) /\ Len(tmp') = Len(tmp) - 1
          /\ \A i \in 1 .. Len(tmp) - 1 : tmp'[i] = tmp[i]
      BY <2>1, <2>2, RemovedIs
    <2>4. Len(tmp) \in Nat /\ Len(tmp) =< MaxFile /\ MaxFile \in Nat
      BY ReportAssumption DEF TmpInv
    <2>5. Len(tmp') =< MaxFile /\ 1 .. Len(tmp') \subseteq 1 .. Len(tmp)
      BY <2>3, <2>4
    <2>6. \A i \in 1 .. Len(tmp') : LinesBut(tmp'[i], running \union clean)
      BY <2>3, <2>5 DEF TmpInv
    <2>7. fresh' \in BOOLEAN /\ (fresh' => tmp' # << >>)
      BY <2>1, Zenon DEF TmpInv
    <2> QED BY <1>1, <2>3, <2>5, <2>6, <2>7 DEF TmpInv
  <1>3. CASE ~(file # << >> /\ SentAll(n))
    <2>1. UNCHANGED <<tmp, index, fresh>>
      BY <1>3 DEF Send
    <2> QED BY <1>1, <2>1, QuietTmp DEF TmpInv
  <1> QED BY <1>2, <1>3

LEMMA RepsAreReps == \A s : Reps(s) \subseteq Rep
  BY DEF Reps

LEMMA TmpStep ==
  ASSUME TmpInv, AgentInv, ReportNext PROVE TmpInv'
  <1>1. CASE \E r \in Rep : Finish(r)
    <2>1. PICK r \in Rep : Finish(r)
      BY <1>1
    <2>2. /\ r \in running /\ running' = running \ {r} /\ clean' = clean \union {r}
          /\ UNCHANGED <<tmp, fresh, lost>>
      BY <2>1 DEF Finish, history
    <2>3. running' \union clean' \subseteq running \union clean /\ running' \intersect clean' = {}
      BY <2>2 DEF TmpInv
    <2> QED BY <2>2, <2>3, QuietTmp DEF TmpInv
  <1>2. CASE TurnOfHour
    BY <1>2, QuietTmp DEF TurnOfHour, TmpInv, history
  <1>3. CASE Dump
    BY <1>3, DumpKeepsTmp
  <1>4. CASE Scan \/ AgentDies
    <2>1. /\ clean' = {} /\ UNCHANGED <<running, tmp, fresh>>
          /\ lost' \subseteq lost \union clean \union Reps(buff)
      BY <1>4 DEF Scan, AgentDies, history
    <2>2. lost' \subseteq Rep
      BY <2>1, RepsAreReps DEF TmpInv
    <2> QED BY <2>1, <2>2, QuietTmp DEF TmpInv
  <1>5. CASE \E n \in 1 .. Len(buff \o file) : Send(n)
    BY <1>5, SendKeepsTmp
  <1>6. CASE \/ NextFile \/ Heartbeat \/ Answer \/ PartOfCommand
             \/ \E c \in Conn : \/ Connect(c) \/ FiniConn(c) \/ Interval(c)
                                \/ RecvHead(c) \/ RecvBody(c) \/ Command(c)
    <2>1. UNCHANGED <<running, clean, tmp, fresh, lost>>
      BY <1>6 DEF NextFile, Heartbeat, Answer, PartOfCommand, Connect, FiniConn, Interval,
         RecvHead, RecvBody, Command, history, agent
    <2> QED BY <2>1, QuietTmp DEF TmpInv
  <1>7. CASE Close \/ (\E c \in Conn : Break(c) \/ RecvBad(c)) \/ MasterDies
    <2>1. UNCHANGED <<running, clean, tmp, fresh>>
      BY <1>7 DEF Close, Break, RecvBad, MasterDies, agent
    <2>2. lost' \subseteq Rep
      <3>1. lost \subseteq Rep
        BY DEF TmpInv
      <3>2. \A s : Dropped(s) \subseteq Rep
        BY RepsAreReps DEF Dropped
      <3>3. CASE Close \/ \E c \in Conn : Break(c) \/ RecvBad(c)
        BY <3>1, <3>2, <3>3, RepsAreReps DEF Close, Break, RecvBad
      <3>4. CASE MasterDies
        BY <3>1, <3>2, <3>4 DEF MasterDies
      <3> QED BY <1>7, <3>3, <3>4
    <2> QED BY <2>1, <2>2, QuietTmp DEF TmpInv
  <1> QED BY <1>1, <1>2, <1>3, <1>4, <1>5, <1>6, <1>7 DEF ReportNext

(* The agent                                                               *)
LEMMA UnitsAssociate ==
  \A s, t, u \in Seq(Unit) : (s \o t) \o u = s \o (t \o u)
  BY ConcatAssociative

Remain(b, f, n, b2, f2) ==
    /\ b2 = SubSeq(b, n + 1, Len(b))
    /\ f2 = IF n =< Len(b) THEN f ELSE SubSeq(b \o f, n + 1, Len(b \o f))
Resumed(b, f, n, b2, f2) ==
    /\ b2 \in Seq(Unit) /\ f2 \in Seq(Unit) /\ SubSeq(b \o f, 1, n) \in Seq(Unit)
    /\ SubSeq(b \o f, 1, n) \o (b2 \o f2) = b \o f
    /\ f2 # << >> => f # << >> /\ n # Len(b \o f)
LEMMA SentIs ==
  ASSUME NEW b \in Seq(Unit), NEW f \in Seq(Unit), NEW n \in 1 .. Len(b \o f),
         NEW b2, NEW f2, Remain(b, f, n, b2, f2)
  PROVE  Resumed(b, f, n, b2, f2)
  <1> DEFINE all == b \o f
             gone == SubSeq(all, 1, n)
  <1>1. all \in Seq(Unit) /\ Len(all) = Len(b) + Len(f) /\ Len(b) \in Nat /\ Len(f) \in Nat
    BY ConcatProperties
  <1> HIDE DEF all
  <1>2. n \in 1 .. Len(all) /\ n \in Nat /\ n + 1 \in Int /\ Len(all) \in Int
    BY <1>1 DEF all
  <1>3. gone \in Seq(Unit)
    BY <1>1, <1>2
  <1>4. b2 \in Seq(Unit)
    <2>1. \A i \in n + 1 .. Len(b) : b[i] \in Unit
      BY <1>1, <1>2, ElementOfSeq
    <2> QED BY <1>1, <1>2, <2>1, SubSeqProperties DEF Remain
  <1>5. CASE n =< Len(b)
    <2>1. f2 = f
      BY <1>5 DEF Remain
    <2>2. n \in 1 .. Len(b) /\ 1 \in 1 .. Len(b)
      BY <1>1, <1>2, <1>5
    <2>3. gone = SubSeq(b, 1, n) /\ b2 = SubSeq(b, n + 1, Len(b))
      BY <2>2, SubSeqOfConcat1 DEF all, Remain
    <2>4. /\ 1 \in 1 .. Len(b) + 1 /\ n \in 1 - 1 .. Len(b) /\ Len(b) \in n .. Len(b)
      BY <1>1, <2>2
    <2>5. gone \o b2 = SubSeq(b, 1, Len(b))
      BY <2>3, <2>4, ConcatAdjacentSubSeq
    <2>6. gone \o b2 = b
      BY <2>5, SubSeqFull
    <2>7. (gone \o b2) \o f2 = gone \o (b2 \o f2)
      <3>1. gone \in Seq(Unit) /\ b2 \in Seq(Unit) /\ f2 \in Seq(Unit)
        BY <1>3, <1>4, <2>1
      <3> QED BY <3>1, UnitsAssociate
    <2>8. f2 # << >> => n # Len(all)
      BY <1>1, <1>2, <1>5, <2>1, EmptySeq
    <2> QED BY <1>3, <1>4, <2>1, <2>6, <2>7, <2>8 DEF all, Resumed
  <1>6. CASE ~(n =< Len(b))
    <2>1. f2 = SubSeq(all, n + 1, Len(all))
      BY <1>6 DEF all, Remain
    <2>2. b2 = << >>
      BY <1>1, <1>2, <1>6, SubSeqEmpty DEF Remain
    <2>3. f2 \in Seq(Unit)
      <3>1. \A i \in n + 1 .. Len(all) : all[i] \in Unit
        BY <1>1, <1>2, ElementOfSeq
      <3> QED BY <1>1, <1>2, <2>1, <3>1, SubSeqProperties
    <2>4. 1 \in 1 .. Len(all) + 1 /\ n \in 1 - 1 .. Len(all) /\ Len(all) \in n .. Len(all)
      BY <1>1, <1>2
    <2>5. gone \o f2 = SubSeq(all, 1, Len(all))
      BY <1>1, <2>1, <2>4, ConcatAdjacentSubSeq
    <2>6. gone \o f2 = all
      BY <1>1, <2>5, SubSeqFull
    <2>7. b2 \o f2 = f2
      BY <2>2, <2>3, ConcatEmptySeq
    <2>8. n = Len(all) => f2 = << >>
      BY <1>1, <1>2, <2>1, SubSeqEmpty
    <2>9. f # << >>
      BY <1>1, <1>2, <1>6
    <2> QED BY <1>3, <1>4, <2>3, <2>6, <2>7, <2>8, <2>9 DEF all, Resumed
  <1> QED BY <1>5, <1>6

LEMMA OldestFile ==
  ASSUME TmpInv, AgentInv, NextFile
  PROVE  /\ tmp[index] \in Seq(Unit) /\ LinesBut(tmp[index], running \union clean)
         /\ IsBody(tmp[index]) /\ Len(tmp[index]) \in 1 .. Cardinality(Rep)
         /\ Begin(Len(tmp[index])) \in Unit
  <1>1. tmp \in Seq(Seq(Unit)) /\ index \in 1 .. Len(tmp)
    BY DEF NextFile, TmpInv, AgentInv
  <1>2. tmp[index] \in Seq(Unit)
    BY <1>1, ElementOfSeq
  <1>3. LinesBut(tmp[index], running \union clean)
    BY <1>1 DEF TmpInv
  <1> QED BY <1>2, <1>3, LinesAreBody, BeginIsUnit

LEMMA ScannedLines ==
  ASSUME TmpInv, Scan
  PROVE  /\ AsLines(clean) \in Seq(Unit) /\ IsBody(AsLines(clean))
         /\ Len(AsLines(clean)) = Cardinality(clean)
         /\ Len(AsLines(clean)) \in 1 .. Cardinality(Rep)
         /\ Begin(Cardinality(clean)) \in Unit
  <1>1. clean \in SUBSET Rep /\ clean # {} /\ clean \intersect {} = {}
    BY DEF Scan, TmpInv
  <1>2. /\ AsLines(clean) \in Seq(Unit) /\ Len(AsLines(clean)) = Cardinality(clean)
        /\ LinesBut(AsLines(clean), {})
    BY <1>1, AsLinesIs
  <1> QED BY <1>2, LinesAreBody, BeginIsUnit

LEMMA AgentStep ==
  ASSUME TmpInv, AgentInv, ReportNext PROVE AgentInv'
  <1>1. /\ at \in Conn \union {NoConn} /\ buff \in Seq(Unit) /\ file \in Seq(Unit)
        /\ index = (IF at = NoConn THEN 0 ELSE Len(tmp)) /\ (file # << >> => index > 0)
        /\ tmp \in Seq(Seq(Unit)) /\ Len(tmp) \in Nat
    BY DEF AgentInv, TmpInv
  <1>2. CASE \/ TurnOfHour \/ PartOfCommand \/ MasterDies \/ \E r \in Rep : Finish(r)
             \/ \E c \in Conn : \/ Break(c) \/ FiniConn(c) \/ Interval(c)
                                \/ RecvHead(c) \/ RecvBody(c) \/ RecvBad(c) \/ Command(c)
    <2>1. UNCHANGED <<at, index, buff, file, tmp>>
      BY <1>2 DEF TurnOfHour, PartOfCommand, MasterDies, Finish, Break, FiniConn, Interval,
         RecvHead, RecvBody, RecvBad, Command, agent
    <2> QED BY <2>1 DEF AgentInv
  <1>3. CASE Dump
    <2>1. at = NoConn /\ UNCHANGED <<at, index, buff, file>>
      BY <1>3 DEF Dump
    <2> QED BY <1>1, <2>1 DEF AgentInv
  <1>4. CASE \E c \in Conn : Connect(c)
    <2>1. PICK c \in Conn : Connect(c)
      BY <1>4
    <2>2. /\ at' = c /\ buff' = <<Word("auth")>> /\ file' = << >> /\ index' = Len(tmp)
          /\ tmp' = tmp
      BY <2>1 DEF Connect, Found
    <2>3. Word("auth") \in Unit /\ c # NoConn
      BY WordIsUnit, ReportAssumption
    <2>4. buff' \in Seq(Unit)
      BY <2>2, <2>3
    <2> QED BY <2>2, <2>3, <2>4 DEF AgentInv
  <1>5. CASE NextFile
    <2>1. /\ UNCHANGED <<at, index, tmp>> /\ index > 0
          /\ buff' = Append(buff, Begin(Len(tmp[index]))) /\ file' = tmp[index]
      BY <1>5 DEF NextFile
    <2>2. buff' \in Seq(Unit) /\ file' \in Seq(Unit)
      BY <1>1, <1>5, <2>1, OldestFile
    <2> QED BY <1>1, <2>1, <2>2 DEF AgentInv
  <1>6. CASE Scan
    <2>1. /\ UNCHANGED <<at, index, tmp, file>>
          /\ buff' = buff \o <<Begin(Cardinality(clean))>> \o AsLines(clean)
      BY <1>6 DEF Scan
    <2>2. <<Begin(Cardinality(clean))>> \in Seq(Unit) /\ AsLines(clean) \in Seq(Unit)
      BY <1>6, ScannedLines
    <2>3. buff' \in Seq(Unit)
      BY <1>1, <2>1, <2>2, ConcatProperties
    <2> QED BY <1>1, <2>1, <2>3 DEF AgentInv
  <1>7. CASE Heartbeat \/ Answer
    <2>1. PICK t \in {"beat", "answer"} :
             UNCHANGED <<at, index, tmp, file>> /\ buff' = Append(buff, Word(t))
      BY <1>7 DEF Heartbeat, Answer
    <2>2. Word(t) \in Unit
      BY WordIsUnit
    <2>3. buff' \in Seq(Unit)
      BY <1>1, <2>1, <2>2
    <2> QED BY <1>1, <2>1, <2>3 DEF AgentInv
  <1>8. CASE Close \/ AgentDies
    <2>1. at' = NoConn /\ index' = 0 /\ buff' = << >> /\ file' = << >> /\ tmp' = tmp
      BY <1>8 DEF Close, AgentDies
    <2> QED BY <2>1 DEF AgentInv
  <1>9. CASE \E n \in 1 .. Len(buff \o file) : Send(n)
    <2>1. PICK n \in 1 .. Len(buff \o file) : Send(n)
      BY <1>9
    <2>2. /\ at # NoConn /\ at' = at
          /\ buff' = SubSeq(buff, n + 1, Len(buff))
          /\ file' = IF n =< Len(buff) THEN file
                     ELSE SubSeq(buff \o file, n + 1, Len(buff \o file))
      BY <2>1 DEF Send
    <2>3. /\ buff' \in Seq(Unit) /\ file' \in Seq(Unit)
          /\ file' # << >> => file # << >> /\ n # Len(buff \o file)
      <3>1. Remain(buff, file, n, buff', file')
        BY <2>2 DEF Remain
      <3>2. Resumed(buff, file, n, buff', file')
        BY <1>1, <3>1, SentIs
      <3> QED BY <3>2 DEF Resumed
    <2>4. CASE file # << >> /\ SentAll(n)
      <3>1. tmp' = RemoveAt(tmp, index) /\ index' = index - 1
        BY <2>1, <2>4 DEF Send, NextIndex
      <3>2. index = Len(tmp) /\ tmp # << >>
        BY <1>1, <2>2, <2>4
      <3>3. Len(tmp') = Len(tmp) - 1
        BY <1>1, <3>1, <3>2, RemovedIs
      <3>4. file' = << >>
        BY <2>3, <2>4 DEF SentAll
      <3> QED BY <1>1, <2>2, <2>3, <3>1, <3>2, <3>3, <3>4 DEF AgentInv
    <2>5. CASE ~(file # << >> /\ SentAll(n))
      <3>1. UNCHANGED <<tmp, index>>
        BY <2>1, <2>5 DEF Send
      <3> QED BY <1>1, <2>2, <2>3, <3>1 DEF AgentInv
    <2> QED BY <2>4, <2>5
  <1> QED BY <1>2, <1>3, <1>4, <1>5, <1>6, <1>7, <1>8, <1>9 DEF ReportNext

(* Connections and the master                                              *)
Wire == [wire : Seq(Unit), cmd : Nat, st : {"up", "gone", "half"}]
Side == [on : BOOLEAN, need : Nat, log : [Rep -> Nat]]

LEMMA QuietNet ==
  ASSUME NetInv, UNCHANGED <<net, peer, out>> PROVE NetInv'
  BY DEF NetInv

LEMMA WiresOnly ==
  ASSUME NetInv, net' \in [Conn -> Wire], UNCHANGED <<peer, out>> PROVE NetInv'
  BY DEF NetInv, Wire

LEMMA NetStep ==
  ASSUME AgentInv, NetInv, ReportNext PROVE NetInv'
  <1>1. /\ net \in [Conn -> Wire] /\ peer \in [Conn -> Side] /\ out \in [Rep -> Nat]
        /\ \A c \in Conn : ~peer[c].on => peer[c].need = 0
    BY DEF NetInv, Wire, Side
  <1>2. NoNet \in Wire /\ NoPeer \in Side /\ NoLog \in [Rep -> Nat]
    BY DEF NoNet, NoPeer, NoLog, Wire, Side
  <1>3. CASE \/ TurnOfHour \/ Dump \/ NextFile \/ Scan \/ Heartbeat \/ PartOfCommand \/ Close
             \/ \E r \in Rep : Finish(r)
    <2>1. UNCHANGED <<net, peer, out>>
      BY <1>3 DEF TurnOfHour, Dump, NextFile, Scan, Heartbeat, PartOfCommand, Close, Finish, master
    <2> QED BY <2>1, QuietNet
  <1>4. CASE \E c \in Conn : Connect(c)
    <2>1. PICK c \in Conn : Connect(c)
      BY <1>4
    <2>2. /\ net' = [net EXCEPT ![c] = [NoNet EXCEPT !.st = "up"]]
          /\ peer' = [peer EXCEPT ![c].on = TRUE] /\ out' = out
      BY <2>1 DEF Connect
    <2>3. [NoNet EXCEPT !.st = "up"] \in Wire
      <3>1. [NoNet EXCEPT !.st = "up"] = [wire |-> << >>, cmd |-> 0, st |-> "up"]
        BY DEF NoNet
      <3>2. << >> \in Seq(Unit)
        BY EmptySeq
      <3>3. [wire |-> << >>, cmd |-> 0, st |-> "up"] \in Wire
        BY <3>2 DEF Wire
      <3> QED BY <3>1, <3>3
    <2>4. net' \in [Conn -> Wire]
      BY <1>1, <2>2, <2>3
    <2>5. peer' \in [Conn -> Side] /\ \A e \in Conn : ~peer'[e].on => peer'[e].need = 0
      BY <1>1, <2>2 DEF Side
    <2> QED BY <1>1, <2>2, <2>4, <2>5 DEF NetInv, Wire, Side
  <1>5. CASE \E n \in 1 .. Len(buff \o file) : Send(n)
    <2>1. PICK n \in 1 .. Len(buff \o file) : Send(n)
      BY <1>5
    <2>2. /\ at \in Conn /\ UNCHANGED <<peer, out>>
          /\ net' = [net EXCEPT ![at].wire = @ \o SubSeq(buff \o file, 1, n)]
      BY <2>1 DEF Send, AgentInv, master
    <2>3. SubSeq(buff \o file, 1, n) \in Seq(Unit)
      <3>1. PICK b2, f2 : Remain(buff, file, n, b2, f2)
        BY DEF Remain
      <3>2. Resumed(buff, file, n, b2, f2)
        BY <3>1, SentIs DEF AgentInv
      <3> QED BY <3>2 DEF Resumed
    <2>4. net[at] \in Wire /\ net[at].wire \in Seq(Unit)
      BY <1>1, <2>2 DEF Wire
    <2>5. net[at].wire \o SubSeq(buff \o file, 1, n) \in Seq(Unit)
      BY <2>3, <2>4, ConcatProperties
    <2>6. net' \in [Conn -> Wire]
      BY <1>1, <2>2, <2>4, <2>5 DEF Wire
    <2> QED BY <2>2, <2>6, WiresOnly
  <1>6. CASE Answer
    <2>1. /\ at \in Conn /\ net[at].cmd > 0 /\ UNCHANGED <<peer, out>>
          /\ net' = [net EXCEPT ![at].cmd = @ - 1]
      BY <1>6 DEF Answer, AgentInv, master
    <2>2. net[at] \in Wire /\ net[at].cmd - 1 \in Nat
      BY <1>1, <2>1 DEF Wire
    <2>3. [net[at] EXCEPT !.cmd = net[at].cmd - 1] \in Wire
      BY <2>2 DEF Wire
    <2>4. net' = [net EXCEPT ![at] = [net[at] EXCEPT !.cmd = net[at].cmd - 1]]
      BY <2>1
    <2>5. net' \in [Conn -> Wire]
      BY <1>1, <2>1, <2>3, <2>4
    <2> QED BY <2>1, <2>5, WiresOnly
  <1>7. CASE AgentDies \/ MasterDies \/ \E c \in Conn : Break(c) \/ RecvBad(c) \/ Command(c)
    <2>1. CASE AgentDies
      <3>1. /\ net' = [c \in Conn |-> IF c = at /\ net[c].st = "up"
                                      THEN [net[c] EXCEPT !.st = "half"] ELSE net[c]]
            /\ UNCHANGED <<peer, out>>
        BY <2>1 DEF AgentDies, master
      <3>2. net' \in [Conn -> Wire]
        BY <1>1, <3>1 DEF Wire
      <3> QED BY <3>1, <3>2, WiresOnly
    <2>2. CASE MasterDies
      <3>1. net' = [c \in Conn |-> NoNet] /\ peer' = [c \in Conn |-> NoPeer] /\ out' = out
        BY <2>2 DEF MasterDies
      <3>2. net' \in [Conn -> Wire] /\ peer' \in [Conn -> Side]
        BY <1>2, <3>1
      <3> QED BY <1>1, <3>1, <3>2 DEF NetInv, Wire, Side, NoPeer
    <2>3. CASE \E c \in Conn : Break(c) \/ RecvBad(c)
      <3>1. PICK c \in Conn : net' = [net EXCEPT ![c] = NoNet] /\ UNCHANGED <<peer, out>>
        BY <2>3 DEF Break, RecvBad, master
      <3>2. net' \in [Conn -> Wire]
        BY <1>1, <1>2, <3>1
      <3> QED BY <3>1, <3>2, WiresOnly
    <2>4. CASE \E c \in Conn : Command(c)
      <3>1. PICK c \in Conn : net' = [net EXCEPT ![c].cmd = @ + 1] /\ UNCHANGED <<peer, out>>
        BY <2>4 DEF Command, master
      <3>2. net[c] \in Wire /\ net[c].cmd + 1 \in Nat
        BY <1>1 DEF Wire
      <3>3. [net[c] EXCEPT !.cmd = net[c].cmd + 1] \in Wire
        BY <3>2 DEF Wire
      <3>4. net' = [net EXCEPT ![c] = [net[c] EXCEPT !.cmd = net[c].cmd + 1]]
        BY <3>1
      <3>5. net' \in [Conn -> Wire]
        BY <1>1, <3>3, <3>4
      <3> QED BY <3>1, <3>5, WiresOnly
    <2> QED BY <1>7, <2>1, <2>2, <2>3, <2>4
  <1>8. CASE \E c \in Conn : FiniConn(c) \/ Interval(c)
    <2>1. PICK c \in Conn : FiniConn(c) \/ Interval(c)
      BY <1>8
    <2>2. /\ out' = [r \in Rep |-> out[r] + peer[c].log[r]] /\ net' = net
          /\ peer' = [peer EXCEPT ![c] = NoPeer] \/ peer' = [peer EXCEPT ![c].log = NoLog]
      BY <2>1 DEF FiniConn, Interval, Moved
    <2>3. peer[c].log \in [Rep -> Nat]
      BY <1>1 DEF Side
    <2>4. out' \in [Rep -> Nat]
      BY <1>1, <2>2, <2>3
    <2>5. CASE peer' = [peer EXCEPT ![c] = NoPeer]
      <3>1. peer' \in [Conn -> Side] /\ \A e \in Conn : ~peer'[e].on => peer'[e].need = 0
        BY <1>1, <1>2, <2>5 DEF NoPeer
      <3> QED BY <1>1, <2>2, <2>4, <3>1 DEF NetInv, Wire, Side
    <2>6. CASE peer' = [peer EXCEPT ![c].log = NoLog]
      <3>1. peer' \in [Conn -> Side] /\ \A e \in Conn : ~peer'[e].on => peer'[e].need = 0
        BY <1>1, <1>2, <2>6 DEF Side
      <3> QED BY <1>1, <2>2, <2>4, <3>1 DEF NetInv, Wire, Side
    <2> QED BY <2>2, <2>5, <2>6
  <1>9. ASSUME NEW c \in Conn, RecvHead(c) \/ RecvBody(c) PROVE NetInv'
    <2> DEFINE u == Head(net[c].wire)
    <2>1. /\ net[c] \in Wire /\ net[c].wire \in Seq(Unit) /\ net[c].wire # << >>
          /\ peer[c] \in Side /\ peer[c].on
      BY <1>1, <1>9 DEF RecvHead, RecvBody, Wire
    <2>2. u \in Unit /\ Tail(net[c].wire) \in Seq(Unit)
      BY <2>1, HeadTailProperties
    <2>3. net' = [net EXCEPT ![c].wire = Tail(@)] /\ out' = out
      BY <1>9 DEF RecvHead, RecvBody
    <2>4. net' \in [Conn -> Wire]
      BY <1>1, <2>1, <2>2, <2>3 DEF Wire
    <2>5. CASE RecvHead(c)
      <3> DEFINE m == IF u.t = "head" THEN u.n ELSE 0
      <3>1. peer' = [peer EXCEPT ![c].need = m]
        BY <2>5 DEF RecvHead
      <3>2. m \in Nat
        BY <2>2, HeadsCount DEF IsHead
      <3> HIDE DEF m
      <3>3. peer' \in [Conn -> Side] /\ \A e \in Conn : ~peer'[e].on => peer'[e].need = 0
        BY <1>1, <2>1, <3>1, <3>2 DEF Side
      <3> QED BY <1>1, <2>3, <2>4, <3>3 DEF NetInv, Wire, Side
    <2>6. CASE RecvBody(c)
      <3> DEFINE g == IF u.t = "line" THEN Logged(peer[c].log, u.r) ELSE peer[c].log
      <3>1. /\ peer' = [peer EXCEPT ![c].need = peer[c].need - 1, ![c].log = g]
            /\ peer[c].need > 0
        BY <2>1, <2>6 DEF RecvBody, ToCome
      <3>2. g \in [Rep -> Nat]
        <4>1. peer[c].log \in [Rep -> Nat]
          BY <2>1 DEF Side
        <4>2. CASE u.t = "line"
          <5>1. u.r \in Rep
            BY <2>2, <4>2, LinesAreReps
          <5> QED BY <4>1, <4>2, <5>1 DEF Logged
        <4> QED BY <4>1, <4>2
      <3> HIDE DEF g
      <3>3. peer[c].need - 1 \in Nat
        BY <2>1, <3>1 DEF Side
      <3>4. peer' \in [Conn -> Side] /\ \A e \in Conn : ~peer'[e].on => peer'[e].need = 0
        BY <1>1, <2>1, <3>1, <3>2, <3>3 DEF Side
      <3> QED BY <1>1, <2>3, <2>4, <3>4 DEF NetInv, Wire, Side
    <2> QED BY <1>9, <2>5, <2>6
  <1> QED BY <1>3, <1>4, <1>5, <1>6, <1>7, <1>8, <1>9 DEF ReportNext

(* The stream of a connection                                              *)
LEMMA InitRep == ReportInit => RepInv
  <1> SUFFICES ASSUME ReportInit PROVE RepInv
    OBVIOUS
  <1>1. << >> \in Seq(Unit) /\ << >> \in Seq(Seq(Unit)) /\ Len(<< >>) = 0 /\ MaxFile \in Nat
    BY EmptySeq, ReportAssumption
  <1>2. TmpInv
    <2>1. running = Rep /\ clean = {} /\ lost = {} /\ tmp = << >> /\ fresh = FALSE
      BY DEF ReportInit
    <2>2. \A i \in 1 .. Len(tmp) : LinesBut(tmp[i], running \union clean)
      BY <1>1, <2>1
    <2>3. tmp \in Seq(Seq(Unit)) /\ Len(tmp) =< MaxFile
      BY <1>1, <2>1
    <2> QED BY <2>1, <2>2, <2>3 DEF TmpInv
  <1>3. AgentInv
    BY <1>1 DEF ReportInit, AgentInv
  <1>4. NoNet \in Wire /\ NoPeer \in Side /\ NoLog \in [Rep -> Nat]
    BY <1>1 DEF NoNet, NoPeer, NoLog, Wire, Side
  <1>5. NetInv
    BY <1>4 DEF ReportInit, NetInv, NoPeer, Wire, Side
  <1>6. StepInv
    <2>1. ~junk
      BY DEF ReportInit
    <2>2. ASSUME NEW c \in Conn PROVE Framing(c)
      <3>1. ~Feeds(c) /\ net[c].wire = << >>
        BY DEF ReportInit, Feeds, NoNet
      <3> QED BY <3>1, EmptyInStep DEF Framing, Ahead
    <2> QED BY <2>1, <2>2 DEF StepInv, Agreed
  <1> QED BY <1>2, <1>3, <1>5, <1>6 DEF RepInv

LEMMA StreamIs ==
  ASSUME AgentInv, NetInv, NEW c \in Conn
  PROVE  /\ net[c].wire \in Seq(Unit) /\ buff \in Seq(Unit) /\ file \in Seq(Unit)
         /\ buff \o file \in Seq(Unit) /\ Ahead(c) \in Seq(Unit) /\ peer[c].need \in Nat
  <1>1. net[c].wire \in Seq(Unit) /\ peer[c].need \in Nat
    BY DEF NetInv
  <1>2. buff \in Seq(Unit) /\ file \in Seq(Unit)
    BY DEF AgentInv
  <1>3. buff \o file \in Seq(Unit)
    BY <1>2, ConcatProperties
  <1>4. net[c].wire \o (buff \o file) \in Seq(Unit)
    BY <1>1, <1>3, ConcatProperties
  <1> QED BY <1>1, <1>2, <1>3, <1>4 DEF Ahead

LEMMA FirstOfBoth ==
  ASSUME NEW s \in Seq(Unit), NEW t \in Seq(Unit)
  PROVE  Len(s) =< Len(s \o t) /\ \A i \in 1 .. Len(s) : s[i] = (s \o t)[i]
  OBVIOUS

LEMMA KeptFraming ==
  ASSUME AgentInv, NetInv, NEW c \in Conn, Framing(c),
         net'[c].wire = net[c].wire, peer'[c].need = peer[c].need,
         Feeds(c)' => Feeds(c) /\ buff' \o file' = buff \o file
  PROVE  Framing(c)'
  <1>1. /\ net[c].wire \in Seq(Unit) /\ buff \o file \in Seq(Unit)
        /\ Ahead(c) \in Seq(Unit) /\ peer[c].need \in Nat
    BY StreamIs
  <1>2. CASE Feeds(c)'
    <2>1. Ahead(c)' = Ahead(c)
      BY <1>2 DEF Ahead
    <2> QED BY <1>2, <2>1 DEF Framing
  <1>3. CASE ~Feeds(c)'
    <2>1. Ahead(c)' = net[c].wire
      BY <1>3 DEF Ahead
    <2>2. /\ Len(net[c].wire) =< Len(Ahead(c))
          /\ \A i \in 1 .. Len(net[c].wire) : net[c].wire[i] = Ahead(c)[i]
      <3>1. CASE Feeds(c)
        <4>1. Ahead(c) = net[c].wire \o (buff \o file)
          BY <3>1 DEF Ahead
        <4> QED BY <1>1, <4>1, FirstOfBoth
      <3>2. CASE ~Feeds(c)
        <4>1. Ahead(c) = net[c].wire
          BY <3>2 DEF Ahead
        <4> QED BY <1>1, <4>1, LenProperties
      <3> QED BY <3>1, <3>2
    <2>3. InStep(net[c].wire, peer[c].need)
      BY <1>1, <2>2, PrefixInStep DEF Framing
    <2> QED BY <1>3, <2>1, <2>3 DEF Framing
  <1> QED BY <1>2, <1>3

LEMMA NothingAhead ==
  ASSUME NEW c \in Conn, net'[c].wire = << >>, ~Feeds(c)'
  PROVE  Framing(c)'
  <1>1. Ahead(c)' = << >>
    BY DEF Ahead
  <1> QED BY <1>1, EmptyInStep DEF Framing

IsMessage(m) ==
    \/ \E t \in {"auth", "beat", "answer"} : m = <<Word(t)>>
    \/ \E s : IsBody(s) /\ Len(s) \in 1 .. Cardinality(Rep) /\ m = <<Begin(Len(s))>> \o s

LEMMA MessageIs ==
  ASSUME NEW m, IsMessage(m) PROVE m \in Seq(Unit)
  <1>1. CASE \E t \in {"auth", "beat", "answer"} : m = <<Word(t)>>
    BY <1>1, WordIsUnit
  <1>2. CASE \E s : IsBody(s) /\ Len(s) \in 1 .. Cardinality(Rep) /\ m = <<Begin(Len(s))>> \o s
    <2>1. PICK s : IsBody(s) /\ Len(s) \in 1 .. Cardinality(Rep) /\ m = <<Begin(Len(s))>> \o s
      BY <1>2
    <2>2. s \in Seq(Unit) /\ Begin(Len(s)) \in Unit
      BY <2>1, BeginIsUnit DEF IsBody
    <2>3. <<Begin(Len(s))>> \in Seq(Unit)
      BY <2>2
    <2> QED BY <2>1, <2>2, <2>3, ConcatProperties
  <1> QED BY <1>1, <1>2 DEF IsMessage

LEMMA MessagePut ==
  ASSUME NEW q \in Seq(Unit), NEW need \in Nat, NEW m, IsMessage(m),
         InStep(q, need), Whole(q, need)
  PROVE  InStep(q \o m, need) /\ Whole(q \o m, need)
  BY WordPut, BodyPut DEF IsMessage

LEMMA PutFraming ==
  ASSUME AgentInv, NetInv, NEW c \in Conn, Framing(c), file = << >>,
         net'[c].wire = net[c].wire, peer'[c].need = peer[c].need,
         Feeds(c)' => Feeds(c), NEW m, IsMessage(m), buff' \o file' = buff \o m
  PROVE  Framing(c)'
  <1>1. CASE ~Feeds(c)'
    BY <1>1, KeptFraming
  <1>2. CASE Feeds(c)'
    <2>1. /\ net[c].wire \in Seq(Unit) /\ buff \in Seq(Unit)
          /\ Ahead(c) \in Seq(Unit) /\ peer[c].need \in Nat /\ m \in Seq(Unit)
      BY StreamIs, MessageIs
    <2>2. Ahead(c) = net[c].wire \o buff
      <3>1. buff \o file = buff
        BY <2>1, ConcatEmptySeq
      <3> QED BY <1>2, <3>1 DEF Ahead
    <2>3. Ahead(c)' = net[c].wire \o (buff \o m)
      BY <1>2 DEF Ahead
    <2>4. Ahead(c)' = Ahead(c) \o m
      <3> DEFINE w == net[c].wire
      <3>1. w \in Seq(Unit) /\ Ahead(c) = w \o buff /\ Ahead(c)' = w \o (buff \o m)
        BY <2>1, <2>2, <2>3
      <3> HIDE DEF w
      <3>2. (w \o buff) \o m = w \o (buff \o m)
        BY <2>1, <3>1, UnitsAssociate
      <3> QED BY <3>1, <3>2
    <2>5. InStep(Ahead(c) \o m, peer[c].need) /\ Whole(Ahead(c) \o m, peer[c].need)
      BY <1>2, <2>1, MessagePut DEF Framing
    <2> QED BY <2>4, <2>5 DEF Framing
  <1> QED BY <1>1, <1>2

LEMMA TakenFrom ==
  ASSUME AgentInv, NetInv, NEW c \in Conn, net[c].wire # << >>,
         net' = [net EXCEPT ![c].wire = Tail(@)], UNCHANGED <<at, buff, file>>
  PROVE  /\ Ahead(c) \in Seq(Unit) /\ Ahead(c) # << >> /\ Head(Ahead(c)) = Head(net[c].wire)
         /\ Ahead(c)' = Tail(Ahead(c))
         /\ \A d \in Conn : Feeds(d)' <=> Feeds(d)
         /\ \A d \in Conn \ {c} : net'[d].wire = net[d].wire
  <1> DEFINE w == net[c].wire
             x == buff \o file
  <1>1. w \in Seq(Unit) /\ x \in Seq(Unit) /\ Ahead(c) \in Seq(Unit) /\ w # << >>
    BY StreamIs
  <1>2. /\ net'[c].wire = Tail(w)
        /\ \A d \in Conn \ {c} : net'[d].wire = net[d].wire
        /\ \A d \in Conn : net'[d].st = net[d].st
    BY DEF NetInv
  <1>3. \A d \in Conn : Feeds(d)' <=> Feeds(d)
    BY <1>2 DEF Feeds
  <1> HIDE DEF w, x
  <1>4. /\ w \o x # << >> /\ Head(w \o x) = Head(w) /\ Tail(w \o x) = Tail(w) \o x
    BY <1>1
  <1>5. CASE Feeds(c)
    <2>1. Ahead(c) = w \o x /\ Ahead(c)' = Tail(w) \o x
      BY <1>2, <1>3, <1>5 DEF Ahead, w, x
    <2> QED BY <1>1, <1>2, <1>3, <1>4, <2>1 DEF w
  <1>6. CASE ~Feeds(c)
    <2>1. Ahead(c) = w /\ Ahead(c)' = Tail(w)
      BY <1>2, <1>3, <1>6 DEF Ahead, w
    <2> QED BY <1>1, <1>2, <1>3, <2>1 DEF w
  <1> QED BY <1>5, <1>6

LEMMA QuietAgreed ==
  ASSUME AgentInv, NetInv, Agreed, junk' = junk,
         \A c \in Conn : /\ net'[c].wire = net[c].wire /\ peer'[c].need = peer[c].need
                         /\ Feeds(c)' => Feeds(c) /\ buff' \o file' = buff \o file
  PROVE  Agreed'
  BY KeptFraming DEF Agreed

LEMMA OutsideAgreed ==
  ASSUME AgentInv, NetInv, Agreed, NEW c \in Conn,
         net' = net \/ net' = [net EXCEPT ![c].cmd = @ + 1],
         peer' = peer \/ peer' = [peer EXCEPT ![c].log = NoLog],
         UNCHANGED <<at, buff, file, junk>>
  PROVE  Agreed'
  <1>0. net \in [Conn -> Wire] /\ peer \in [Conn -> Side]
    BY DEF NetInv, Wire, Side
  <1>1. \A d \in Conn : net'[d].wire = net[d].wire /\ net'[d].st = net[d].st
    <2>1. CASE net' = net
      BY <2>1
    <2>2. CASE net' = [net EXCEPT ![c].cmd = @ + 1]
      BY <1>0, <2>2 DEF Wire
    <2> QED BY <2>1, <2>2
  <1>2. \A d \in Conn : peer'[d].need = peer[d].need
    <2>1. CASE peer' = peer
      BY <2>1
    <2>2. CASE peer' = [peer EXCEPT ![c].log = NoLog]
      BY <1>0, <2>2 DEF Side
    <2> QED BY <2>1, <2>2
  <1>3. \A d \in Conn : Feeds(d)' => Feeds(d)
    BY <1>1 DEF Feeds
  <1> QED BY <1>1, <1>2, <1>3, QuietAgreed

LEMMA NobodyFeeds ==
  ASSUME AgentInv, NetInv, Agreed, at' = NoConn, junk' = junk, peer' = peer,
         \A c \in Conn : net'[c].wire = net[c].wire
  PROVE  Agreed'
  <1>1. \A c \in Conn : ~Feeds(c)'
    BY ReportAssumption DEF Feeds
  <1> QED BY <1>1, QuietAgreed

LEMMA GoneAgreed ==
  ASSUME AgentInv, NetInv, Agreed, NEW c \in Conn, net'[c].wire = << >>, net'[c].st # "up",
         \A d \in Conn \ {c} : net'[d] = net[d] /\ peer'[d].need = peer[d].need,
         UNCHANGED <<at, buff, file, junk>>
  PROVE  Agreed'
  <1>1. Framing(c)'
    BY NothingAhead DEF Feeds
  <1>2. ASSUME NEW d \in Conn \ {c} PROVE Framing(d)'
    <2>1. Feeds(d)' => Feeds(d)
      BY DEF Feeds
    <2> QED BY <2>1, KeptFraming DEF Agreed
  <1> QED BY <1>1, <1>2 DEF Agreed

LEMMA PutAgreed ==
  ASSUME AgentInv, NetInv, Agreed, file = << >>, NEW m, IsMessage(m), buff' \o file' = buff \o m,
         UNCHANGED <<at, junk, peer>>,
         \A d \in Conn : net'[d].wire = net[d].wire /\ net'[d].st = net[d].st
  PROVE  Agreed'
  <1>1. \A d \in Conn : Feeds(d)' => Feeds(d)
    BY DEF Feeds
  <1> QED BY <1>1, PutFraming DEF Agreed

LEMMA ConnectAgreed ==
  ASSUME AgentInv, NetInv, Agreed, NEW c \in Conn, Connect(c) PROVE Agreed'
  <1>1. /\ at = NoConn /\ at' = c /\ ~peer[c].on /\ junk' = junk
        /\ net' = [net EXCEPT ![c] = [NoNet EXCEPT !.st = "up"]]
        /\ peer' = [peer EXCEPT ![c].on = TRUE]
        /\ buff' = <<Word("auth")>> /\ file' = << >>
    BY DEF Connect
  <1>2. /\ net'[c].wire = << >> /\ peer'[c].need = 0
        /\ \A d \in Conn \ {c} : net'[d] = net[d] /\ peer'[d] = peer[d]
    BY <1>1 DEF NetInv, NoNet
  <1>3. Framing(c)'
    <2> DEFINE m == <<Word("auth")>>
    <2>1. IsMessage(m) /\ m \in Seq(Unit)
      BY MessageIs DEF IsMessage
    <2>2. InStep(<< >>, 0) /\ Whole(<< >>, 0) /\ << >> \in Seq(Unit)
      BY EmptyInStep, EmptySeq DEF Whole
    <2>3. InStep(<< >> \o m, 0) /\ Whole(<< >> \o m, 0)
      BY <2>1, <2>2, MessagePut
    <2>4. << >> \o m = m /\ << >> \o (m \o << >>) = m
      BY <2>1, ConcatEmptySeq
    <2> HIDE DEF m
    <2>5. Ahead(c)' = m
      <3>1. buff' = m /\ file' = << >>
        BY <1>1 DEF m
      <3>2. Feeds(c)'
        BY <1>1 DEF Feeds, NetInv
      <3>3. Ahead(c)' = << >> \o (m \o << >>)
        BY <1>2, <3>1, <3>2 DEF Ahead
      <3> QED BY <2>4, <3>3
    <2> QED BY <1>2, <2>3, <2>4, <2>5 DEF Framing
  <1>4. ASSUME NEW d \in Conn \ {c} PROVE Framing(d)'
    <2>1. ~Feeds(d)'
      BY <1>1 DEF Feeds
    <2> QED BY <1>2, <2>1, KeptFraming DEF Agreed
  <1> QED BY <1>1, <1>3, <1>4 DEF Agreed

LEMMA SendAgreed ==
  ASSUME AgentInv, NetInv, Agreed, NEW n \in 1 .. Len(buff \o file), Send(n) PROVE Agreed'
  <1> DEFINE w == net[at].wire
             gone == SubSeq(buff \o file, 1, n)
  <1>1. /\ at \in Conn /\ at' = at /\ UNCHANGED <<peer, junk>> /\ net[at].st = "up"
        /\ net' = [net EXCEPT ![at].wire = w \o gone]
        /\ Remain(buff, file, n, buff', file')
    BY DEF Send, AgentInv, master, Remain
  <1>2. /\ net'[at].wire = w \o gone /\ net'[at].st = "up"
        /\ \A d \in Conn \ {at} : net'[d] = net[d]
    BY <1>1 DEF NetInv
  <1>3. /\ w \in Seq(Unit) /\ buff \in Seq(Unit) /\ file \in Seq(Unit)
    BY <1>1, StreamIs
  <1>4. /\ buff' \in Seq(Unit) /\ file' \in Seq(Unit) /\ gone \in Seq(Unit)
        /\ gone \o (buff' \o file') = buff \o file
    <2>1. Remain(buff, file, n, buff', file')
      BY <1>1
    <2>2. Resumed(buff, file, n, buff', file')
      BY <1>3, <2>1, SentIs
    <2> QED BY <2>2 DEF Resumed
  <1>5. buff' \o file' \in Seq(Unit)
    BY <1>4, ConcatProperties
  <1> HIDE DEF w, gone
  <1>6. (w \o gone) \o (buff' \o file') = w \o (buff \o file)
    <2> DEFINE x == buff' \o file'
    <2>1. x \in Seq(Unit) /\ gone \in Seq(Unit) /\ gone \o x = buff \o file
      BY <1>4, <1>5
    <2> HIDE DEF x
    <2>2. (w \o gone) \o x = w \o (gone \o x)
      BY <1>3, <2>1, UnitsAssociate
    <2> QED BY <2>1, <2>2 DEF x
  <1>7. Framing(at)'
    <2>1. Feeds(at) /\ Feeds(at)'
      BY <1>1, <1>2 DEF Feeds
    <2>2. Ahead(at)' = Ahead(at)
      BY <1>1, <1>2, <1>6, <2>1 DEF Ahead, w
    <2> QED BY <1>1, <2>1, <2>2 DEF Framing, Agreed
  <1>8. ASSUME NEW d \in Conn \ {at} PROVE Framing(d)'
    <2>1. ~Feeds(d)'
      BY <1>1 DEF Feeds
    <2> QED BY <1>1, <1>2, <2>1, KeptFraming DEF Agreed
  <1> QED BY <1>1, <1>7, <1>8 DEF Agreed

LEMMA RecvAgreed ==
  ASSUME AgentInv, NetInv, Agreed, NEW c \in Conn, RecvHead(c) \/ RecvBody(c) PROVE Agreed'
  <1> DEFINE u == Head(net[c].wire)
  <1>1. /\ net[c].wire # << >> /\ net' = [net EXCEPT ![c].wire = Tail(@)]
        /\ UNCHANGED <<at, buff, file>>
    BY DEF RecvHead, RecvBody, agent
  <1>2. /\ Ahead(c) \in Seq(Unit) /\ Ahead(c) # << >> /\ Head(Ahead(c)) = u
        /\ Ahead(c)' = Tail(Ahead(c))
        /\ \A d \in Conn : Feeds(d)' <=> Feeds(d)
        /\ \A d \in Conn \ {c} : net'[d].wire = net[d].wire
    BY <1>1, TakenFrom
  <1>3. /\ InStep(Ahead(c), peer[c].need) /\ (Feeds(c) => Whole(Ahead(c), peer[c].need))
        /\ peer[c].need \in Nat
    BY DEF Agreed, Framing, NetInv
  <1> HIDE DEF u
  <1>4. \A d \in Conn \ {c} : peer'[d] = peer[d]
    BY DEF RecvHead, RecvBody, NetInv
  <1>5. ASSUME NEW d \in Conn \ {c} PROVE Framing(d)'
    BY <1>1, <1>2, <1>4, KeptFraming DEF Agreed
  <1>6. CASE RecvHead(c)
    <2>1. /\ peer[c].need = 0 /\ u.t # "line" /\ junk' = junk
          /\ peer'[c].need = IF u.t = "head" THEN u.n ELSE 0
      BY <1>6 DEF RecvHead, u, NetInv
    <2>2. /\ InStep(Ahead(c)', peer'[c].need)
          /\ Feeds(c) => Whole(Ahead(c)', peer'[c].need)
      BY <1>2, <1>3, <2>1, TakenHead
    <2>3. Framing(c)'
      BY <1>2, <2>2 DEF Framing
    <2> QED BY <1>5, <2>1, <2>3 DEF Agreed
  <1>7. CASE RecvBody(c)
    <2>1. /\ peer[c].need > 0 /\ (junk' <=> junk \/ u.t # "line")
          /\ peer'[c].need = peer[c].need - 1
      BY <1>7 DEF RecvBody, ToCome, u, NetInv
    <2>2. u.t = "line"
      BY <1>2, <1>3, <2>1, HeadInStep
    <2>3. peer[c].need \in Nat \ {0}
      BY <1>3, <2>1
    <2>4. /\ InStep(Ahead(c)', peer'[c].need)
          /\ Feeds(c) => Whole(Ahead(c)', peer'[c].need)
      BY <1>2, <1>3, <2>1, <2>3, TakenLine
    <2>5. Framing(c)'
      BY <1>2, <2>4 DEF Framing
    <2> QED BY <1>5, <2>1, <2>2, <2>5 DEF Agreed
  <1> QED BY <1>6, <1>7

LEMMA NoNetIs == NoNet.wire = << >> /\ NoNet.st # "up"
  BY DEF NoNet

LEMMA LossAgreed ==
  ASSUME AgentInv, NetInv, Agreed, NEW c \in Conn, Break(c) \/ RecvBad(c) \/ FiniConn(c)
  PROVE  Agreed'
  <1>1. UNCHANGED <<at, buff, file, junk>>
    BY DEF Break, RecvBad, FiniConn, agent, master
  <1>2. /\ net'[c].wire = << >> /\ net'[c].st # "up"
        /\ \A d \in Conn \ {c} : net'[d] = net[d] /\ peer'[d].need = peer[d].need
    <2>1. CASE Break(c) \/ RecvBad(c)
      <3>1. net' = [net EXCEPT ![c] = NoNet] /\ peer' = peer
        BY <2>1 DEF Break, RecvBad, master
      <3> QED BY <3>1, NoNetIs DEF NetInv
    <2>2. CASE FiniConn(c)
      <3>1. /\ net' = net /\ net[c].wire = << >> /\ net[c].st \in {"gone", "half"}
            /\ peer' = [peer EXCEPT ![c] = NoPeer]
        BY <2>2 DEF FiniConn
      <3> QED BY <3>1 DEF NetInv
    <2> QED BY <2>1, <2>2
  <1> QED BY <1>1, <1>2, GoneAgreed

LEMMA PutsAgreed ==
  ASSUME TmpInv, AgentInv, NetInv, Agreed, ~mixed', NextFile \/ Scan \/ Heartbeat \/ Answer
  PROVE  Agreed'
  <1>1. /\ buff \in Seq(Unit) /\ file \in Seq(Unit) /\ buff \o << >> = buff
        /\ file # << >> => index > 0
    BY ConcatEmptySeq DEF AgentInv
  <1>2. CASE NextFile
    <2> DEFINE s == tmp[index]
               m == <<Begin(Len(s))>> \o s
    <2>1. /\ file = << >> /\ UNCHANGED <<at, junk, peer, net>>
          /\ buff' = Append(buff, Begin(Len(s))) /\ file' = s
      BY <1>2 DEF NextFile, master
    <2>2. /\ s \in Seq(Unit) /\ IsBody(s) /\ Len(s) \in 1 .. Cardinality(Rep)
          /\ Begin(Len(s)) \in Unit
      BY <1>2, OldestFile
    <2> HIDE DEF s
    <2>3. IsMessage(m)
      BY <2>2 DEF IsMessage
    <2>4. buff' = buff \o <<Begin(Len(s))>> /\ <<Begin(Len(s))>> \in Seq(Unit)
      BY <1>1, <2>1, <2>2, AppendIsConcat
    <2>5. buff' \o file' = buff \o m
      BY <1>1, <2>1, <2>2, <2>4, UnitsAssociate
    <2> QED BY <2>1, <2>3, <2>5, PutAgreed
  <1>3. CASE Scan
    <2> DEFINE s == AsLines(clean)
               b == Begin(Cardinality(clean))
               m == <<b>> \o s
    <2>1. /\ index = 0 /\ UNCHANGED <<at, junk, peer, net, file>>
          /\ buff' = (buff \o <<b>>) \o s
      BY <1>3 DEF Scan, master
    <2>2. /\ s \in Seq(Unit) /\ IsBody(s) /\ Len(s) \in 1 .. Cardinality(Rep)
          /\ b = Begin(Len(s)) /\ b \in Unit
      BY <1>3, ScannedLines
    <2> HIDE DEF s, b
    <2>3. IsMessage(m)
      BY <2>2 DEF IsMessage
    <2>4. <<b>> \in Seq(Unit) /\ m \in Seq(Unit)
      BY <2>2, <2>3, MessageIs
    <2>5. buff' = buff \o m
      BY <1>1, <2>1, <2>2, <2>4, UnitsAssociate
    <2>6. buff \o m \in Seq(Unit)
      BY <1>1, <2>4, ConcatProperties
    <2> HIDE DEF m
    <2>7. file = << >> /\ file' = << >> /\ buff' \o << >> = buff'
      BY <1>1, <2>1, <2>5, <2>6, ConcatEmptySeq
    <2>8. buff' \o file' = buff \o m
      BY <2>5, <2>7
    <2> QED BY <2>1, <2>3, <2>7, <2>8, PutAgreed
  <1>4. CASE Heartbeat \/ Answer
    <2>1. PICK t \in {"beat", "answer"} : buff' = Append(buff, Word(t))
      BY <1>4 DEF Heartbeat, Answer
    <2> DEFINE m == <<Word(t)>>
    <2>2. UNCHANGED <<at, junk, peer, file>>
      BY <1>4 DEF Heartbeat, Answer, master
    <2>3. file = << >>
      <3>1. CASE Heartbeat
        BY <1>1, <3>1 DEF Heartbeat
      <3>2. CASE Answer
        BY <3>2, Zenon DEF Answer
      <3> QED BY <1>4, <3>1, <3>2
    <2>4. \A d \in Conn : net'[d].wire = net[d].wire /\ net'[d].st = net[d].st
      <3>1. CASE Heartbeat
        BY <3>1 DEF Heartbeat
      <3>2. CASE Answer
        <4>1. net \in [Conn -> Wire] /\ net' = [net EXCEPT ![at].cmd = net[at].cmd - 1]
          BY <3>2 DEF Answer, NetInv, Wire
        <4> QED BY <4>1 DEF Wire
      <3> QED BY <1>4, <3>1, <3>2
    <2>5. IsMessage(m) /\ m \in Seq(Unit) /\ Word(t) \in Unit
      BY WordIsUnit, MessageIs DEF IsMessage
    <2>6. buff' = buff \o m
      BY <1>1, <2>1, <2>5, AppendIsConcat
    <2>7. buff \o m \in Seq(Unit)
      BY <1>1, <2>5, ConcatProperties
    <2> HIDE DEF m
    <2>8. buff' \o file' = buff \o m
      BY <2>2, <2>3, <2>6, <2>7, ConcatEmptySeq
    <2> QED BY <2>2, <2>3, <2>4, <2>5, <2>8, PutAgreed
  <1> QED BY <1>2, <1>3, <1>4

LEMMA StreamStep ==
  ASSUME TmpInv, AgentInv, NetInv, StepInv, ReportNext PROVE StepInv'
  <1> SUFFICES ASSUME ~mixed' PROVE Agreed'
    BY DEF StepInv
  <1>1. ~mixed
    BY DEF ReportNext, Finish, TurnOfHour, Dump, NextFile, Scan, Heartbeat, Send, Answer,
       PartOfCommand, Close, AgentDies, Connect, Break, FiniConn, Interval, RecvHead, RecvBody,
       RecvBad, Command, MasterDies, history
  <1>2. Agreed
    BY <1>1 DEF StepInv
  <1>3. CASE TurnOfHour \/ Dump \/ PartOfCommand \/ \E r \in Rep : Finish(r)
    <2>1. UNCHANGED <<at, buff, file, junk, net, peer>>
      BY <1>3 DEF TurnOfHour, Dump, PartOfCommand, Finish, master
    <2>2. \A d \in Conn : Feeds(d)' => Feeds(d)
      BY <2>1 DEF Feeds
    <2> QED BY <1>2, <2>1, <2>2, QuietAgreed
  <1>4. CASE NextFile \/ Scan \/ Heartbeat \/ Answer
    BY <1>2, <1>4, PutsAgreed
  <1>5. CASE \E n \in 1 .. Len(buff \o file) : Send(n)
    BY <1>2, <1>5, SendAgreed
  <1>6. CASE Close \/ AgentDies
    <2>1. at' = NoConn /\ UNCHANGED <<junk, peer>>
      BY <1>6 DEF Close, AgentDies, master
    <2>2. \A c \in Conn : net'[c].wire = net[c].wire
      <3>1. CASE Close
        BY <3>1 DEF Close
      <3>2. CASE AgentDies
        <4>1. net' = [c \in Conn |-> IF c = at /\ net[c].st = "up"
                                     THEN [net[c] EXCEPT !.st = "half"] ELSE net[c]]
          BY <3>2 DEF AgentDies
        <4>2. \A c \in Conn : net[c] \in Wire
          BY DEF NetInv, Wire
        <4> QED BY <4>1, <4>2 DEF Wire
      <3> QED BY <1>6, <3>1, <3>2
    <2> QED BY <1>2, <2>1, <2>2, NobodyFeeds
  <1>7. CASE \E c \in Conn : Connect(c)
    BY <1>2, <1>7, ConnectAgreed
  <1>8. CASE \E c \in Conn : Break(c) \/ FiniConn(c) \/ RecvBad(c)
    BY <1>2, <1>8, LossAgreed
  <1>9. CASE \E c \in Conn : Interval(c) \/ Command(c)
    <2>1. PICK c \in Conn : Interval(c) \/ Command(c)
      BY <1>9
    <2>2. /\ net' = net \/ net' = [net EXCEPT ![c].cmd = @ + 1]
          /\ peer' = peer \/ peer' = [peer EXCEPT ![c].log = NoLog]
          /\ UNCHANGED <<at, buff, file, junk>>
      BY <2>1 DEF Interval, Command, agent, master
    <2> QED BY <1>2, <2>2, OutsideAgreed
  <1>10. CASE \E c \in Conn : RecvHead(c) \/ RecvBody(c)
    BY <1>2, <1>10, RecvAgreed
  <1>11. CASE MasterDies
    <2>1. net' = [c \in Conn |-> NoNet] /\ UNCHANGED <<at, junk>>
      BY <1>11 DEF MasterDies, agent
    <2>2. ASSUME NEW c \in Conn PROVE Framing(c)'
      <3>1. net'[c].wire = << >> /\ net'[c].st # "up"
        BY <2>1, NoNetIs
      <3>2. ~Feeds(c)'
        BY <3>1 DEF Feeds
      <3> QED BY <3>1, <3>2, NothingAhead
    <2> QED BY <1>2, <2>1, <2>2 DEF Agreed
  <1> QED BY <1>3, <1>4, <1>5, <1>6, <1>7, <1>8, <1>9, <1>10, <1>11 DEF ReportNext

LEMMA RepInvImplies == RepInv => StreamSound
  <1> SUFFICES ASSUME RepInv PROVE StreamSound
    OBVIOUS
  <1>1. TmpInv /\ AgentInv /\ NetInv /\ StepInv
    BY DEF RepInv
  <1>2. \A s \in Seq(Unit) : Range(s) \subseteq Unit
    BY ElementOfSeq DEF Range
  <1>3. ReportTypeOK
    <2>1. running \union clean \union lost \subseteq Rep /\ tmp \in Seq(Seq(Unit))
          /\ Len(tmp) =< MaxFile /\ Len(tmp) \in Nat
      BY <1>1 DEF TmpInv
    <2>2. at \in Conn \union {NoConn} /\ index \in 0 .. Len(tmp)
      BY <1>1, <2>1 DEF AgentInv
    <2>3. Range(buff) \union Range(file) \subseteq Unit
      BY <1>1, <1>2 DEF AgentInv
    <2>4. \A c \in Conn : Range(net[c].wire) \subseteq Unit /\ peer[c].need \in Nat
      BY <1>1, <1>2, StreamIs
    <2>5. out \in [Rep -> Nat]
      BY <1>1 DEF NetInv
    <2> QED BY <2>1, <2>2, <2>3, <2>4, <2>5 DEF ReportTypeOK
  <1>4. ASSUME ~mixed, NEW c \in Conn, net[c].wire # << >>
        PROVE  (Head(net[c].wire).t = "line") = (peer[c].need > 0)
    <2>1. /\ net[c].wire \in Seq(Unit) /\ buff \o file \in Seq(Unit)
          /\ Ahead(c) \in Seq(Unit) /\ peer[c].need \in Nat
      BY <1>1, StreamIs
    <2>2. Ahead(c) # << >> /\ Head(Ahead(c)) = Head(net[c].wire)
      <3> DEFINE w == net[c].wire
                 x == buff \o file
      <3>1. w \in Seq(Unit) /\ x \in Seq(Unit) /\ w # << >> /\ (Ahead(c) = w \/ Ahead(c) = w \o x)
        BY <1>4, <2>1 DEF Ahead
      <3> HIDE DEF w, x
      <3>2. w \o x # << >> /\ Head(w \o x) = Head(w)
        BY <3>1
      <3> QED BY <3>1, <3>2 DEF w
    <2>3. InStep(Ahead(c), peer[c].need)
      BY <1>1, <1>4 DEF StepInv, Agreed, Framing
    <2>4. Head(Ahead(c)).t = "line" <=> peer[c].need > 0
      BY <2>1, <2>2, <2>3, HeadInStep
    <2> QED BY <2>2, <2>4
  <1>5. ~mixed => ~junk
    BY <1>1 DEF StepInv, Agreed
  <1> QED BY <1>3, <1>4, <1>5 DEF StreamSound, Framed

(* Agent and master stay in step (sub_recv, check_req; do_send, do_run):   *)
(* whatever breaks or dies, and however the stream is cut, the master      *)
(* reads a head where the agent began a message and writes nothing but     *)
(* lines to a log, unless a command was answered in the middle of a file.  *)
LEMMA ReportInvariance == ReportSpec => []RepInv
  <1>1. RepInv /\ [ReportNext]_reportVars => RepInv'
    <2> SUFFICES ASSUME RepInv, [ReportNext]_reportVars PROVE RepInv'
      OBVIOUS
    <2>1. CASE ReportNext
      BY <2>1, TmpStep, AgentStep, NetStep, StreamStep DEF RepInv
    <2>2. CASE UNCHANGED reportVars
      BY <2>2 DEF RepInv, TmpInv, AgentInv, NetInv, StepInv, Agreed, Framing, Feeds, Ahead,
         reportVars, agent
    <2> QED BY <2>1, <2>2
  <1> QED BY <1>1, InitRep, PTL DEF ReportSpec

THEOREM StreamIsSound == ReportSpec => []StreamSound
  BY ReportInvariance, RepInvImplies, PTL

----------------------------------------------------------------------------
(* Reports: where the copies of a line are                                 *)

(* Sums                                                                    *)
PairsOf(f, S) == UNION {{x} \X (1 .. f[x]) : x \in S}

LEMMA PairIn ==
  ASSUME NEW f, NEW S, NEW p
  PROVE  p \in PairsOf(f, S) <=> \E x \in S : \E k \in 1 .. f[x] : p = <<x, k>>
  BY DEF PairsOf

LEMMA FewPairs ==
  ASSUME NEW S, IsFiniteSet(S), NEW f \in [S -> Nat]
  PROVE  IsFiniteSet(PairsOf(f, S))
  <1> DEFINE row(x) == {x} \X (1 .. f[x])
             T == {row(x) : x \in S}
             g == [x \in S |-> row(x)]
  <1>1. g \in Surjection(S, T)
    BY DEF Surjection
  <1>2. IsFiniteSet(T)
    BY <1>1, FS_Surjection
  <1>3. ASSUME NEW t \in T PROVE IsFiniteSet(t)
    <2>1. PICK x \in S : t = {x} \X (1 .. f[x])
      OBVIOUS
    <2>2. IsFiniteSet({x}) /\ IsFiniteSet(1 .. f[x])
      <3>1. 1 \in Int /\ f[x] \in Int
        OBVIOUS
      <3> QED BY <3>1, FS_Singleton, FS_Interval
    <2> QED BY <2>1, <2>2, FS_Product
  <1>4. PairsOf(f, S) = UNION T
    BY DEF PairsOf
  <1> HIDE DEF T
  <1> QED BY <1>2, <1>3, <1>4, FS_UNION

LEMMA TotalIs ==
  ASSUME NEW S, IsFiniteSet(S), NEW f \in [S -> Nat]
  PROVE  Total(f) = Cardinality(PairsOf(f, S)) /\ Total(f) \in Nat
  <1>1. Total(f) = Cardinality(PairsOf(f, S))
    BY DEF Total, PairsOf
  <1> QED BY <1>1, FewPairs, FS_CardinalityType

LEMMA RowSize ==
  ASSUME NEW x, NEW n \in Nat
  PROVE  IsFiniteSet({x} \X (1 .. n)) /\ Cardinality({x} \X (1 .. n)) = n
  <1> DEFINE g == [k \in 1 .. n |-> <<x, k>>]
             T == {x} \X (1 .. n)
  <1>1. g \in Bijection(1 .. n, T)
    BY DEF Bijection, Injection, Surjection, IsInjective
  <1>2. IsFiniteSet(1 .. n) /\ Cardinality(1 .. n) = n
    <2>1. Cardinality(1 .. n) = IF 1 > n THEN 0 ELSE n - 1 + 1
      BY FS_Interval
    <2> QED BY <2>1, FS_Interval
  <1> QED BY <1>1, <1>2, FS_Bijection DEF ExistsBijection

LEMMA TotalSplit ==
  ASSUME NEW S, IsFiniteSet(S), NEW f \in [S -> Nat], NEW x \in S
  PROVE  Total(f) = f[x] + Total([y \in S \ {x} |-> f[y]])
  <1> DEFINE Q == S \ {x}
             g == [y \in Q |-> f[y]]
             A == PairsOf(f, S)
             B == PairsOf(g, Q)
             C == {x} \X (1 .. f[x])
  <1>1. IsFiniteSet(Q) /\ g \in [Q -> Nat]
    BY FS_RemoveElement
  <1>2. B = PairsOf(f, Q)
    BY DEF PairsOf
  <1>3. A = B \union C
    BY <1>2 DEF PairsOf
  <1>4. B \intersect C = {}
    BY <1>2 DEF PairsOf
  <1>5. IsFiniteSet(C) /\ Cardinality(C) = f[x]
    BY RowSize
  <1>6. IsFiniteSet(B) /\ Total(g) = Cardinality(B) /\ Total(f) = Cardinality(A) /\ Total(g) \in Nat
    BY <1>1, FewPairs, TotalIs
  <1> HIDE DEF A, B, C, g
  <1>7. Cardinality(B \union C) = Cardinality(B) + Cardinality(C) - Cardinality(B \intersect C)
    BY <1>5, <1>6, FS_Union
  <1>8. Cardinality(B \intersect C) = 0
    BY <1>4, FS_EmptySet
  <1> QED BY <1>3, <1>5, <1>6, <1>7, <1>8 DEF g

LEMMA TotalWithout ==
  ASSUME NEW S, IsFiniteSet(S), NEW f \in [S -> Nat], NEW x \in S,
         NEW g, g = [y \in S \ {x} |-> f[y]]
  PROVE  Total(f) = f[x] + Total(g)
  <1>1. Total(f) = f[x] + Total([y \in S \ {x} |-> f[y]])
    BY TotalSplit
  <1> QED BY <1>1

LEMMA TotalChanged ==
  ASSUME NEW S, IsFiniteSet(S), NEW f \in [S -> Nat], NEW g \in [S -> Nat], NEW x \in S,
         \A y \in S \ {x} : g[y] = f[y]
  PROVE  Total(g) + f[x] = Total(f) + g[x]
  <1> DEFINE h == [y \in S \ {x} |-> f[y]]
  <1>1. h = [y \in S \ {x} |-> g[y]]
    OBVIOUS
  <1>2. IsFiniteSet(S \ {x}) /\ h \in [S \ {x} -> Nat]
    BY FS_RemoveElement
  <1>3. Total(h) \in Nat
    BY <1>2, TotalIs
  <1>4. Total(f) = f[x] + Total(h)
    BY TotalSplit
  <1>5. Total(g) = g[x] + Total(h)
    BY <1>1, TotalSplit
  <1> HIDE DEF h
  <1> QED BY <1>3, <1>4, <1>5

LEMMA TotalAtLeast ==
  ASSUME NEW S, IsFiniteSet(S), NEW f \in [S -> Nat], NEW x \in S
  PROVE  Total(f) >= f[x]
  <1>1. Total([y \in S \ {x} |-> f[y]]) \in Nat
    <2>1. IsFiniteSet(S \ {x}) /\ [y \in S \ {x} |-> f[y]] \in [S \ {x} -> Nat]
      BY FS_RemoveElement
    <2> QED BY <2>1, TotalIs
  <1> QED BY <1>1, TotalSplit

LEMMA TotalNothing ==
  ASSUME NEW S, NEW f, \A x \in S : f[x] = 0, DOMAIN f = S
  PROVE  Total(f) = 0
  <1>1. UNION {{x} \X (1 .. f[x]) : x \in DOMAIN f} = {}
    OBVIOUS
  <1> QED BY <1>1, FS_EmptySet DEF Total

(* The same sum with its terms moved by one.                               *)
LEMMA TotalShift ==
  ASSUME NEW n \in Nat, NEW f \in [1 .. n -> Nat], NEW g \in [2 .. n + 1 -> Nat],
         \A i \in 1 .. n : g[i + 1] = f[i]
  PROVE  Total(g) = Total(f)
  <1> DEFINE A == PairsOf(f, 1 .. n)
             B == PairsOf(g, 2 .. n + 1)
             h == [p \in A |-> <<p[1] + 1, p[2]>>]
  <1>1. IsFiniteSet(1 .. n) /\ IsFiniteSet(2 .. n + 1)
    BY FS_Interval
  <1>2. \A p \in A : \E i \in 1 .. n : \E k \in 1 .. f[i] : p = <<i, k>>
    BY PairIn
  <1>3. \A i \in 1 .. n : \A k \in 1 .. f[i] : <<i, k>> \in A
    BY PairIn
  <1>4. \A p \in B : \E i \in 2 .. n + 1 : \E k \in 1 .. g[i] : p = <<i, k>>
    BY PairIn
  <1>5. \A i \in 2 .. n + 1 : \A k \in 1 .. g[i] : <<i, k>> \in B
    BY PairIn
  <1> HIDE DEF A, B
  <1>6. ASSUME NEW p \in A PROVE h[p] \in B
    <2>1. PICK i \in 1 .. n : \E k \in 1 .. f[i] : p = <<i, k>>
      BY <1>2
    <2>2. PICK k \in 1 .. f[i] : p = <<i, k>>
      BY <2>1
    <2>3. i + 1 \in 2 .. n + 1 /\ k \in 1 .. g[i + 1] /\ h[p] = <<i + 1, k>>
      BY <2>2
    <2> QED BY <1>5, <2>3
  <1>7. ASSUME NEW p \in A, NEW q \in A, h[p] = h[q] PROVE p = q
    <2>1. PICK i \in 1 .. n, j \in 1 .. n : (\E k \in 1 .. f[i] : p = <<i, k>>)
                                        /\ \E k \in 1 .. f[j] : q = <<j, k>>
      BY <1>2
    <2>2. PICK k \in 1 .. f[i], m \in 1 .. f[j] : p = <<i, k>> /\ q = <<j, m>>
      BY <2>1
    <2>3. i + 1 = j + 1 /\ k = m
      BY <1>7, <2>2
    <2> QED BY <2>2, <2>3
  <1>8. ASSUME NEW q \in B PROVE \E p \in A : h[p] = q
    <2>1. PICK i \in 2 .. n + 1 : \E k \in 1 .. g[i] : q = <<i, k>>
      BY <1>4
    <2>2. PICK k \in 1 .. g[i] : q = <<i, k>>
      BY <2>1
    <2>3. i - 1 \in 1 .. n /\ g[(i - 1) + 1] = f[i - 1] /\ (i - 1) + 1 = i
      OBVIOUS
    <2>4. <<i - 1, k>> \in A
      BY <1>3, <2>3
    <2> QED BY <2>2, <2>3, <2>4
  <1>9. h \in Bijection(A, B)
    <2>1. h \in [A -> B]
      BY <1>6
    <2> HIDE DEF h
    <2> QED BY <1>7, <1>8, <2>1 DEF Bijection, Injection, Surjection, IsInjective
  <1>10. IsFiniteSet(A) /\ Total(f) = Cardinality(A) /\ Total(g) = Cardinality(B)
    BY <1>1, FewPairs, TotalIs DEF A, B
  <1> QED BY <1>9, <1>10, FS_Bijection DEF ExistsBijection

(* How often a line is in a sequence                                       *)
At(r, s) == {i \in DOMAIN s : s[i] = Line(r)}

LEMMA CountIs ==
  ASSUME NEW r, NEW s \in Seq(Unit)
  PROVE  /\ At(r, s) \subseteq 1 .. Len(s) /\ IsFiniteSet(At(r, s))
         /\ Count(r, s) = Cardinality(At(r, s)) /\ Count(r, s) \in Nat
  <1>1. At(r, s) \subseteq 1 .. Len(s)
    BY DEF At
  <1>2. IsFiniteSet(1 .. Len(s))
    BY FS_Interval, LenProperties
  <1>3. IsFiniteSet(At(r, s))
    BY <1>1, <1>2, FS_Subset
  <1> QED BY <1>1, <1>3, FS_CardinalityType DEF Count, At

LEMMA CountNone ==
  ASSUME NEW r, NEW s \in Seq(Unit)
  PROVE  Count(r, s) = 0 <=> \A i \in 1 .. Len(s) : s[i] # Line(r)
  <1>1. Count(r, s) = 0 <=> At(r, s) = {}
    BY CountIs, FS_EmptySet
  <1> QED BY <1>1 DEF At

LEMMA CountOnce ==
  ASSUME NEW r, NEW s \in Seq(Unit), \A k, m \in 1 .. Len(s) : s[k] = s[m] => k = m
  PROVE  Count(r, s) =< 1
  <1>1. CASE At(r, s) = {}
    BY <1>1, CountIs, FS_EmptySet
  <1>2. CASE At(r, s) # {}
    <2>1. PICK i : i \in At(r, s)
      BY <1>2
    <2>2. At(r, s) = {i}
      BY <2>1 DEF At
    <2>3. Cardinality(At(r, s)) = 1
      BY <2>2, FS_Singleton
    <2> QED BY <2>3, CountIs
  <1> QED BY <1>1, <1>2

LEMMA CountConcat ==
  ASSUME NEW r, NEW s \in Seq(Unit), NEW t \in Seq(Unit)
  PROVE  Count(r, s \o t) = Count(r, s) + Count(r, t)
  <1> DEFINE p == s \o t
             n == Len(s)
             A == At(r, s)
             B == At(r, t)
             D == {i \in DOMAIN p : i > n /\ p[i] = Line(r)}
             h == [i \in B |-> n + i]
  <1>1. /\ p \in Seq(Unit) /\ Len(p) = n + Len(t) /\ n \in Nat /\ Len(t) \in Nat
        /\ \A i \in 1 .. n + Len(t) : p[i] = IF i =< n THEN s[i] ELSE t[i - n]
    BY ConcatProperties
  <1> HIDE DEF p, n
  <1>2. /\ DOMAIN p = 1 .. n + Len(t) /\ DOMAIN s = 1 .. n /\ DOMAIN t = 1 .. Len(t)
    BY <1>1, LenProperties DEF n
  <1>3. At(r, p) = A \union D /\ A \intersect D = {}
    <2>1. ASSUME NEW i \in 1 .. n + Len(t), i =< n PROVE i \in 1 .. n /\ p[i] = s[i]
      BY <1>1, <2>1
    <2>2. ASSUME NEW i \in 1 .. n PROVE i \in 1 .. n + Len(t) /\ p[i] = s[i] /\ ~(i > n)
      BY <1>1
    <2> QED BY <1>1, <1>2, <2>1, <2>2 DEF At
  <1>4. h \in Bijection(B, D)
    <2>1. ASSUME NEW i \in B PROVE n + i \in D
      <3>1. i \in 1 .. Len(t) /\ t[i] = Line(r)
        BY <1>2 DEF At
      <3>2. n + i \in 1 .. n + Len(t) /\ n + i > n /\ ~(n + i =< n) /\ (n + i) - n = i
        BY <1>1, <3>1
      <3>3. p[n + i] = t[i]
        BY <1>1, <3>2
      <3> QED BY <1>2, <3>1, <3>2, <3>3
    <2>2. ASSUME NEW j \in D PROVE j - n \in B /\ n + (j - n) = j
      <3>1. j \in 1 .. n + Len(t) /\ j > n /\ ~(j =< n) /\ p[j] = Line(r)
        BY <1>1, <1>2
      <3>2. j - n \in 1 .. Len(t) /\ t[j - n] = p[j] /\ n + (j - n) = j
        BY <1>1, <3>1
      <3> QED BY <1>2, <3>1, <3>2 DEF At
    <2>3. \A i \in B : i \in Nat
      BY <1>2 DEF At
    <2> HIDE DEF B, D
    <2>4. h \in [B -> D]
      BY <2>1
    <2>5. \A i, j \in B : h[i] = h[j] => i = j
      BY <1>1, <2>3
    <2>6. \A j \in D : \E i \in B : h[i] = j
      BY <2>2
    <2> HIDE DEF h
    <2> QED BY <2>4, <2>5, <2>6 DEF Bijection, Injection, Surjection, IsInjective
  <1>5. /\ IsFiniteSet(A) /\ Count(r, s) = Cardinality(A) /\ Count(r, s) \in Nat
        /\ IsFiniteSet(B) /\ Count(r, t) = Cardinality(B) /\ Count(r, t) \in Nat
        /\ Count(r, p) = Cardinality(At(r, p))
    BY <1>1, CountIs
  <1> HIDE DEF A, B, D, h
  <1>6. IsFiniteSet(D) /\ Cardinality(D) = Cardinality(B)
    BY <1>4, <1>5, FS_Bijection DEF ExistsBijection
  <1>7. Cardinality(A \intersect D) = 0
    BY <1>3, FS_EmptySet
  <1>8. Cardinality(A \union D) = Cardinality(A) + Cardinality(D) - Cardinality(A \intersect D)
    BY <1>5, <1>6, FS_Union
  <1> QED BY <1>3, <1>5, <1>6, <1>7, <1>8 DEF p

LEMMA CountUnit ==
  ASSUME NEW r, NEW u \in Unit
  PROVE  <<u>> \in Seq(Unit) /\ Count(r, <<u>>) = IF u = Line(r) THEN 1 ELSE 0
  <1>1. <<u>> \in Seq(Unit) /\ Len(<<u>>) = 1 /\ <<u>>[1] = u
    OBVIOUS
  <1>2. At(r, <<u>>) = IF u = Line(r) THEN {1} ELSE {}
    BY <1>1 DEF At
  <1>3. Count(r, <<u>>) = Cardinality(At(r, <<u>>))
    BY <1>1, CountIs
  <1>4. Cardinality({1}) = 1 /\ Cardinality({}) = 0
    BY FS_EmptySet, FS_Singleton
  <1> QED BY <1>1, <1>2, <1>3, <1>4

LEMMA CountEmpty == \A r : Count(r, << >>) = 0 /\ << >> \in Seq(Unit)
  <1>1. << >> \in Seq(Unit) /\ 1 .. Len(<< >>) = {}
    BY EmptySeq
  <1> QED BY <1>1, CountNone

(* Where the copies of a line are: in memory, on disk, and on their way or *)
(* in a log of the master that is open.                                    *)
Sending == file # << >> /\ net[at].st = "up"
KeptOf(r, t, s, f, n) == [i \in DOMAIN t |-> Count(r, IF s /\ i = n THEN f ELSE t[i])]
AwayOf(r, w, p) == [c \in Conn |-> Count(r, w[c].wire) + p[c].log[r]]
InMemory(r) == (IF r \in clean THEN 1 ELSE 0) + Count(r, buff)
OnDisk(r) == Total(KeptOf(r, tmp, Sending, file, index))
Away(r) == Total(AwayOf(r, net, peer))

(* What is to be sent next of the file is the end of it; a line of its     *)
(* that is gone from there has not been lost as long as the connection is. *)
EndOf(f, s) == \E p \in Seq(Unit) : s = p \o f
FileInv == file # << >> => EndOf(file, tmp[index])
StillThere(r) == Count(r, file) + Count(r, net[at].wire) + peer[at].log[r] + out[r]
SentInv == Sending => \A r \in Rep : Count(r, tmp[index]) > 0 => StillThere(r) > 0
LinkInv ==
    /\ at = NoConn => buff = << >> /\ file = << >>
    /\ \A c \in Conn : /\ ~peer[c].on => net[c].wire = << >>
                       /\ net[c].st = "up" => peer[c].on
(* No copy of the line of a task under way, and of a finished task's as    *)
(* many as CopiesBounded says.                                             *)
CopyOf(r) ==
    IF r \in running THEN Copies(r) = 0
    ELSE Copies(r) \in (IF r \in lost THEN 0 ELSE 1) .. (1 + breaks)
CopyInv == breaks \in Nat /\ \A r \in Rep : CopyOf(r)

LEMMA KeptType ==
  ASSUME NEW r, NEW t \in Seq(Seq(Unit)), NEW s, NEW f \in Seq(Unit), NEW n
  PROVE  /\ DOMAIN t = 1 .. Len(t) /\ IsFiniteSet(DOMAIN t) /\ Len(t) \in Nat
         /\ KeptOf(r, t, s, f, n) \in [DOMAIN t -> Nat]
  <1>1. DOMAIN t = 1 .. Len(t) /\ Len(t) \in Nat
    BY LenProperties
  <1>2. IsFiniteSet(1 .. Len(t))
    BY <1>1, FS_Interval
  <1>3. ASSUME NEW i \in DOMAIN t PROVE Count(r, IF s /\ i = n THEN f ELSE t[i]) \in Nat
    <2>1. t[i] \in Seq(Unit)
      BY <1>1, ElementOfSeq
    <2>2. CASE s /\ i = n
      BY <2>2, CountIs
    <2>3. CASE ~(s /\ i = n)
      BY <2>1, <2>3, CountIs
    <2> QED BY <2>2, <2>3
  <1> QED BY <1>1, <1>2, <1>3 DEF KeptOf

LEMMA KeptIs ==
  ASSUME NEW r, NEW t, NEW s, NEW f, NEW n, NEW i \in DOMAIN t
  PROVE  /\ s /\ i = n => KeptOf(r, t, s, f, n)[i] = Count(r, f)
         /\ ~(s /\ i = n) => KeptOf(r, t, s, f, n)[i] = Count(r, t[i])
  BY DEF KeptOf

LEMMA AwayType ==
  ASSUME NEW r \in Rep, NEW w \in [Conn -> Wire], NEW p \in [Conn -> Side]
  PROVE  /\ AwayOf(r, w, p) \in [Conn -> Nat]
         /\ \A c \in Conn : Count(r, w[c].wire) \in Nat /\ p[c].log[r] \in Nat
  <1>1. \A c \in Conn : w[c].wire \in Seq(Unit) /\ p[c].log[r] \in Nat
    BY DEF Wire, Side
  <1>2. \A c \in Conn : Count(r, w[c].wire) \in Nat
    BY <1>1, CountIs
  <1> QED BY <1>1, <1>2 DEF AwayOf

LEMMA NetTyped == NetInv <=> /\ net \in [Conn -> Wire] /\ peer \in [Conn -> Side]
                             /\ out \in [Rep -> Nat]
                             /\ \A c \in Conn : ~peer[c].on => peer[c].need = 0
  BY DEF NetInv, Wire, Side

LEMMA CopiesAre ==
  ASSUME TmpInv, AgentInv, NetInv, NEW r \in Rep
  PROVE  /\ InMemory(r) \in Nat /\ out[r] \in Nat /\ OnDisk(r) \in Nat /\ Away(r) \in Nat
         /\ Copies(r) = InMemory(r) + out[r] + OnDisk(r) + Away(r)
  <1>1. tmp \in Seq(Seq(Unit)) /\ file \in Seq(Unit) /\ buff \in Seq(Unit)
    BY DEF TmpInv, AgentInv
  <1>2. net \in [Conn -> Wire] /\ peer \in [Conn -> Side] /\ out[r] \in Nat
    BY NetTyped
  <1>3. InMemory(r) \in Nat
    BY <1>1, CountIs DEF InMemory
  <1>4. OnDisk(r) \in Nat
    BY <1>1, KeptType, TotalIs DEF OnDisk
  <1>5. Away(r) \in Nat
    <2>1. AwayOf(r, net, peer) \in [Conn -> Nat] /\ IsFiniteSet(Conn)
      BY <1>2, AwayType, ReportAssumption
    <2> QED BY <2>1, TotalIs DEF Away
  <1>6. Copies(r) = InMemory(r) + out[r] + OnDisk(r) + Away(r)
    BY DEF Copies, InMemory, OnDisk, Away, KeptOf, AwayOf, Rest, Sending
  <1> QED BY <1>2, <1>3, <1>4, <1>5, <1>6

LEMMA CopiesNext ==
  ASSUME TmpInv', AgentInv', NetInv', NEW r \in Rep
  PROVE  /\ InMemory(r)' \in Nat /\ out'[r] \in Nat /\ OnDisk(r)' \in Nat /\ Away(r)' \in Nat
         /\ Copies(r)' = InMemory(r)' + out'[r] + OnDisk(r)' + Away(r)'
  <1>1. tmp' \in Seq(Seq(Unit)) /\ file' \in Seq(Unit) /\ buff' \in Seq(Unit)
    BY DEF TmpInv, AgentInv
  <1>2. net' \in [Conn -> Wire] /\ peer' \in [Conn -> Side] /\ out'[r] \in Nat
    BY DEF NetInv, Wire, Side
  <1>3. InMemory(r)' \in Nat
    BY <1>1, CountIs DEF InMemory
  <1>4. OnDisk(r)' \in Nat
    <2>1. KeptOf(r, tmp', Sending', file', index') \in [DOMAIN tmp' -> Nat] /\ IsFiniteSet(DOMAIN tmp')
      BY <1>1, KeptType
    <2> QED BY <2>1, TotalIs DEF OnDisk
  <1>5. Away(r)' \in Nat
    <2>1. AwayOf(r, net', peer') \in [Conn -> Nat] /\ IsFiniteSet(Conn)
      BY <1>2, AwayType, ReportAssumption
    <2> QED BY <2>1, TotalIs DEF Away
  <1>6. Copies(r)' = InMemory(r)' + out'[r] + OnDisk(r)' + Away(r)'
    BY DEF Copies, InMemory, OnDisk, Away, KeptOf, AwayOf, Rest, Sending
  <1> QED BY <1>2, <1>3, <1>4, <1>5, <1>6

(* What a step moves                                                       *)
LEMMA SuffixIs ==
  ASSUME NEW b \in Seq(Unit), NEW f \in Seq(Unit), NEW n \in 1 .. Len(b \o f),
         NEW b2, NEW f2, Remain(b, f, n, b2, f2)
  PROVE  EndOf(b2, b) /\ EndOf(f2, f)
  <1> DEFINE all == b \o f
  <1>1. all \in Seq(Unit) /\ Len(all) = Len(b) + Len(f) /\ Len(b) \in Nat /\ Len(f) \in Nat
    BY ConcatProperties
  <1>2. << >> \in Seq(Unit) /\ << >> \o b = b /\ << >> \o f = f /\ b \o << >> = b
    BY EmptySeq, ConcatEmptySeq
  <1>3. n \in 1 .. Len(all)
    OBVIOUS
  <1> HIDE DEF all
  <1>4. CASE n =< Len(b)
    <2> DEFINE p == SubSeq(b, 1, n)
    <2>1. f2 = f /\ b2 = SubSeq(b, n + 1, Len(b))
      BY <1>4 DEF Remain
    <2>2. 1 \in 1 .. Len(b) + 1 /\ n \in 1 - 1 .. Len(b) /\ Len(b) \in n .. Len(b)
      BY <1>1, <1>3, <1>4
    <2>3. p \o b2 = b
      BY <2>1, <2>2, ConcatAdjacentSubSeq, SubSeqFull
    <2>4. p \in Seq(Unit)
      BY <1>1, <2>2
    <2> HIDE DEF p
    <2> QED BY <1>2, <2>1, <2>3, <2>4 DEF EndOf
  <1>5. CASE ~(n =< Len(b))
    <2> DEFINE m == Len(b) + 1
               p == SubSeq(all, m, n)
    <2>1. f2 = SubSeq(all, n + 1, Len(all)) /\ b2 = SubSeq(b, n + 1, Len(b))
      BY <1>5 DEF Remain, all
    <2>2. b2 = << >>
      BY <1>1, <1>3, <1>5, <2>1, SubSeqEmpty
    <2>3. m \in 1 .. Len(all) + 1 /\ n \in m - 1 .. Len(all) /\ Len(all) \in n .. Len(all)
      BY <1>1, <1>3, <1>5
    <2>4. p \in Seq(Unit)
      <3>1. \A i \in m .. n : all[i] \in Unit
        BY <1>1, <1>3, <2>3, ElementOfSeq
      <3> QED BY <1>1, <2>3, <3>1, SubSeqProperties
    <2>5. p \o f2 = SubSeq(all, m, Len(all))
      BY <1>1, <2>1, <2>3, ConcatAdjacentSubSeq
    <2>6. SubSeq(all, m, Len(all)) = f
      BY <1>1 DEF all
    <2> HIDE DEF p
    <2> QED BY <1>2, <2>2, <2>4, <2>5, <2>6 DEF EndOf
  <1> QED BY <1>4, <1>5

LEMMA FileStep ==
  ASSUME TmpInv, AgentInv, LinkInv, FileInv, ReportNext PROVE FileInv'
  <1>1. CASE \/ TurnOfHour \/ Scan \/ Heartbeat \/ Answer \/ PartOfCommand \/ MasterDies
             \/ \E r \in Rep : Finish(r)
             \/ \E c \in Conn : \/ Break(c) \/ FiniConn(c) \/ Interval(c)
                                \/ RecvHead(c) \/ RecvBody(c) \/ RecvBad(c) \/ Command(c)
    <2>1. UNCHANGED <<file, tmp, index>>
      BY <1>1 DEF TurnOfHour, Scan, Heartbeat, Answer, PartOfCommand, MasterDies, Finish, Break,
         FiniConn, Interval, RecvHead, RecvBody, RecvBad, Command, agent
    <2> QED BY <2>1 DEF FileInv
  <1>2. CASE Dump \/ Close \/ AgentDies \/ \E c \in Conn : Connect(c)
    <2>1. file' = << >>
      BY <1>2 DEF Dump, Close, AgentDies, Connect, LinkInv
    <2> QED BY <2>1 DEF FileInv
  <1>3. CASE NextFile
    <2>1. file' = tmp[index] /\ tmp' = tmp /\ index' = index
      BY <1>3 DEF NextFile
    <2>2. tmp[index] \in Seq(Unit)
      BY <1>3, OldestFile
    <2>3. << >> \in Seq(Unit) /\ tmp[index] = << >> \o tmp[index]
      BY <2>2, EmptySeq, ConcatEmptySeq
    <2> QED BY <2>1, <2>3 DEF FileInv, EndOf
  <1>4. CASE \E n \in 1 .. Len(buff \o file) : Send(n)
    <2>1. PICK n \in 1 .. Len(buff \o file) : Send(n)
      BY <1>4
    <2> SUFFICES ASSUME file' # << >> PROVE EndOf(file, tmp[index])'
      BY DEF FileInv
    <2>2. Remain(buff, file, n, buff', file')
      BY <2>1 DEF Send, Remain
    <2>3. buff \in Seq(Unit) /\ file \in Seq(Unit)
      BY DEF AgentInv
    <2>4. Resumed(buff, file, n, buff', file')
      BY <2>2, <2>3, SentIs
    <2>5. file # << >> /\ n # Len(buff \o file) /\ file' \in Seq(Unit)
      BY <2>4 DEF Resumed
    <2>6. tmp' = tmp /\ index' = index
      BY <2>1, <2>5 DEF Send, SentAll
    <2>7. PICK p \in Seq(Unit) : tmp[index] = p \o file
      BY <2>5 DEF FileInv, EndOf
    <2>10. EndOf(file', file)
      BY <2>2, <2>3, SuffixIs
    <2>8. PICK q \in Seq(Unit) : file = q \o file'
      BY <2>10 DEF EndOf
    <2>9. p \o q \in Seq(Unit) /\ (p \o q) \o file' = p \o (q \o file')
      <3>1. p \in Seq(Unit) /\ q \in Seq(Unit) /\ file' \in Seq(Unit)
        BY <2>5
      <3> DEFINE f == file'
      <3> HIDE DEF f
      <3>2. f \in Seq(Unit)
        BY <3>1 DEF f
      <3>3. (p \o q) \o f = p \o (q \o f)
        BY <3>1, <3>2, UnitsAssociate
      <3>4. p \o q \in Seq(Unit)
        BY <3>1, ConcatProperties
      <3> QED BY <3>3, <3>4 DEF f
    <2> QED BY <2>6, <2>7, <2>8, <2>9 DEF EndOf
  <1> QED BY <1>1, <1>2, <1>3, <1>4 DEF ReportNext

LEMMA LinkStep ==
  ASSUME AgentInv, NetInv, LinkInv, ReportNext PROVE LinkInv'
  <1>1. net \in [Conn -> Wire] /\ peer \in [Conn -> Side]
    BY NetTyped
  <1>2. at' = NoConn => buff' = << >> /\ file' = << >>
    <2>1. CASE \/ TurnOfHour \/ Dump \/ PartOfCommand \/ MasterDies \/ \E r \in Rep : Finish(r)
               \/ \E c \in Conn : \/ Break(c) \/ FiniConn(c) \/ Interval(c)
                                  \/ RecvHead(c) \/ RecvBody(c) \/ RecvBad(c) \/ Command(c)
      <3>1. UNCHANGED <<at, buff, file>>
        BY <2>1 DEF TurnOfHour, Dump, PartOfCommand, MasterDies, Finish, Break, FiniConn,
           Interval, RecvHead, RecvBody, RecvBad, Command, agent
      <3> QED BY <3>1 DEF LinkInv
    <2>2. CASE Close \/ AgentDies
      BY <2>2 DEF Close, AgentDies
    <2>3. CASE NextFile \/ Scan \/ Heartbeat \/ Answer \/ \E n \in 1 .. Len(buff \o file) : Send(n)
      BY <2>3 DEF NextFile, Scan, Heartbeat, Answer, Send
    <2>4. CASE \E c \in Conn : Connect(c)
      BY <2>4, ReportAssumption DEF Connect
    <2> QED BY <2>1, <2>2, <2>3, <2>4 DEF ReportNext
  <1>3. \A c \in Conn : /\ ~peer[c].on => net[c].wire = << >>
                        /\ net[c].st = "up" => peer[c].on
    BY DEF LinkInv
  <1>4. ASSUME NEW c \in Conn
        PROVE  (~peer[c].on => net[c].wire = << >>)' /\ (net[c].st = "up" => peer[c].on)'
    <2>1. CASE /\ peer'[c].on = peer[c].on
               /\ net'[c].wire = net[c].wire \/ net'[c].wire = << >>
               /\ net'[c].st = net[c].st \/ net'[c].st # "up"
      BY <1>3, <2>1
    <2>2. CASE \/ TurnOfHour \/ Dump \/ NextFile \/ Scan \/ Heartbeat \/ PartOfCommand \/ Close
               \/ \E r \in Rep : Finish(r)
      <3>1. net' = net /\ peer' = peer
        BY <2>2 DEF TurnOfHour, Dump, NextFile, Scan, Heartbeat, PartOfCommand, Close, Finish, master
      <3> QED BY <1>3, <3>1
    <2>3. CASE \E n \in 1 .. Len(buff \o file) : Send(n)
      <3>1. PICK n : Send(n)
        BY <2>3
      <3>2. /\ at \in Conn /\ net[at].st = "up" /\ peer' = peer
            /\ net' = [net EXCEPT ![at].wire = net[at].wire \o SubSeq(buff \o file, 1, n)]
        BY <3>1 DEF Send, AgentInv, master
      <3>3. net'[c].st = net[c].st /\ (c # at => net'[c].wire = net[c].wire)
        BY <1>1, <3>2 DEF Wire
      <3> QED BY <1>3, <3>2, <3>3
    <2>4. CASE Answer
      <3>1. peer' = peer /\ net' = [net EXCEPT ![at].cmd = net[at].cmd - 1]
        BY <2>4 DEF Answer, master
      <3>2. net'[c].st = net[c].st /\ net'[c].wire = net[c].wire
        BY <1>1, <3>1 DEF Wire
      <3> QED BY <1>3, <3>1, <3>2
    <2>5. CASE AgentDies
      <3>1. /\ net'[c] = IF c = at /\ net[c].st = "up" THEN [net[c] EXCEPT !.st = "half"] ELSE net[c]
            /\ peer' = peer /\ net[c] \in Wire
        BY <1>1, <2>5 DEF AgentDies, master
      <3>2. net'[c].wire = net[c].wire /\ (net'[c].st = "up" => net[c].st = "up")
        BY <3>1 DEF Wire
      <3> QED BY <1>3, <3>1, <3>2
    <2>6. CASE MasterDies
      <3>1. net'[c] = NoNet
        BY <2>6 DEF MasterDies
      <3> QED BY <3>1, NoNetIs
    <2>7. CASE \E d \in Conn : Break(d) \/ RecvBad(d)
      <3>1. PICK d \in Conn : net' = [net EXCEPT ![d] = NoNet] /\ peer' = peer
        BY <2>7 DEF Break, RecvBad, master
      <3> QED BY <1>1, <1>3, <3>1, NoNetIs
    <2>8. CASE \E d \in Conn : Connect(d)
      <3>1. PICK d \in Conn : Connect(d)
        BY <2>8
      <3>2. /\ net' = [net EXCEPT ![d] = [NoNet EXCEPT !.st = "up"]]
            /\ peer' = [peer EXCEPT ![d].on = TRUE]
        BY <3>1 DEF Connect
      <3>3. CASE c = d
        <4>1. peer'[c].on
          BY <1>1, <3>2, <3>3 DEF Side
        <4> QED BY <4>1
      <3>4. CASE c # d
        BY <1>1, <1>3, <3>2, <3>4
      <3> QED BY <3>3, <3>4
    <2>9. CASE \E d \in Conn : FiniConn(d)
      <3>1. PICK d \in Conn : FiniConn(d)
        BY <2>9
      <3>2. /\ net' = net /\ net[d].wire = << >> /\ net[d].st # "up"
            /\ peer' = [peer EXCEPT ![d] = NoPeer]
        BY <3>1 DEF FiniConn
      <3>3. c # d => peer'[c] = peer[c]
        BY <1>1, <3>2
      <3> QED BY <1>3, <3>2, <3>3
    <2>10. CASE \E d \in Conn : Interval(d) \/ Command(d) \/ RecvHead(d) \/ RecvBody(d)
      <3>1. PICK d \in Conn : Interval(d) \/ Command(d) \/ RecvHead(d) \/ RecvBody(d)
        BY <2>10
      <3>2. \/ net' = net
            \/ net' = [net EXCEPT ![d].cmd = net[d].cmd + 1]
            \/ peer[d].on /\ net' = [net EXCEPT ![d].wire = Tail(net[d].wire)]
        BY <3>1 DEF Interval, Command, RecvHead, RecvBody
      <3>3. net'[c].st = net[c].st /\ (net'[c].wire = net[c].wire \/ peer[c].on)
        <4>1. CASE net' = net
          BY <4>1
        <4>2. CASE net' = [net EXCEPT ![d].cmd = net[d].cmd + 1]
          BY <1>1, <4>2 DEF Wire
        <4>3. CASE peer[d].on /\ net' = [net EXCEPT ![d].wire = Tail(net[d].wire)]
          <5>1. c # d => net'[c] = net[c]
            BY <1>1, <4>3
          <5>2. net'[c].st = net[c].st
            BY <1>1, <4>3 DEF Wire
          <5> QED BY <4>3, <5>1, <5>2
        <4> QED BY <3>2, <4>1, <4>2, <4>3
      <3>4. peer'[c].on = peer[c].on
        <4>1. CASE Interval(d)
          <5>1. peer' = [peer EXCEPT ![d].log = NoLog]
            BY <4>1 DEF Interval
          <5> QED BY <1>1, <5>1 DEF Side
        <4>2. CASE Command(d)
          BY <4>2 DEF Command, master
        <4>3. CASE RecvHead(d)
          <5>1. \E n : peer' = [peer EXCEPT ![d].need = n]
            BY <4>3 DEF RecvHead
          <5> QED BY <1>1, <5>1 DEF Side
        <4>4. CASE RecvBody(d)
          <5>1. \E n, g : peer' = [peer EXCEPT ![d].need = n, ![d].log = g]
            BY <4>4 DEF RecvBody
          <5> QED BY <1>1, <5>1 DEF Side
        <4> QED BY <3>1, <4>1, <4>2, <4>3, <4>4
      <3> QED BY <1>3, <3>3, <3>4
    <2> QED BY <2>2, <2>3, <2>4, <2>5, <2>6, <2>7, <2>8, <2>9, <2>10 DEF ReportNext
  <1> QED BY <1>2, <1>4 DEF LinkInv

LEMMA SendMoves ==
  ASSUME AgentInv, NetInv, NEW n \in 1 .. Len(buff \o file), Send(n), NEW r \in Rep
  PROVE  /\ at \in Conn /\ peer' = peer /\ out' = out
         /\ \A d \in Conn \ {at} : net'[d] = net[d]
         /\ Count(r, net'[at].wire) + Count(r, buff') + Count(r, file')
               = Count(r, net[at].wire) + Count(r, buff) + Count(r, file)
         /\ Count(r, buff') =< Count(r, buff)
         /\ Count(r, net'[at].wire) \in Nat /\ Count(r, buff') \in Nat /\ Count(r, file') \in Nat
         /\ Count(r, net[at].wire) \in Nat /\ Count(r, buff) \in Nat /\ Count(r, file) \in Nat
  <1> DEFINE w == net[at].wire
             gone == SubSeq(buff \o file, 1, n)
  <1>1. /\ at \in Conn /\ peer' = peer /\ out' = out
        /\ net' = [net EXCEPT ![at].wire = w \o gone]
        /\ Remain(buff, file, n, buff', file')
    BY DEF Send, AgentInv, master, Remain
  <1>2. net'[at].wire = w \o gone /\ \A d \in Conn \ {at} : net'[d] = net[d]
    BY <1>1 DEF NetInv
  <1>3. w \in Seq(Unit) /\ buff \in Seq(Unit) /\ file \in Seq(Unit)
    BY <1>1, StreamIs
  <1>4. Resumed(buff, file, n, buff', file') /\ EndOf(buff', buff)
    BY <1>1, <1>3, SentIs, SuffixIs
  <1>5. /\ buff' \in Seq(Unit) /\ file' \in Seq(Unit) /\ gone \in Seq(Unit)
        /\ gone \o (buff' \o file') = buff \o file
    BY <1>4 DEF Resumed
  <1> DEFINE b2 == buff'
             f2 == file'
  <1> HIDE DEF w, gone, b2, f2
  <1>6. /\ b2 \in Seq(Unit) /\ f2 \in Seq(Unit) /\ gone \in Seq(Unit)
        /\ gone \o (b2 \o f2) = buff \o file /\ EndOf(b2, buff)
    BY <1>4, <1>5 DEF b2, f2
  <1>7. b2 \o f2 \in Seq(Unit)
    BY <1>6, ConcatProperties
  <1>8. Count(r, gone \o (b2 \o f2)) = Count(r, gone) + (Count(r, b2) + Count(r, f2))
    BY <1>6, <1>7, CountConcat
  <1>9. Count(r, buff \o file) = Count(r, buff) + Count(r, file)
    BY <1>3, CountConcat
  <1>10. Count(r, w \o gone) = Count(r, w) + Count(r, gone)
    BY <1>3, <1>6, CountConcat
  <1>11. w \o gone \in Seq(Unit)
    BY <1>3, <1>6, ConcatProperties
  <1>12. /\ Count(r, w) \in Nat /\ Count(r, gone) \in Nat /\ Count(r, b2) \in Nat
         /\ Count(r, f2) \in Nat /\ Count(r, buff) \in Nat /\ Count(r, file) \in Nat
         /\ Count(r, w \o gone) \in Nat
    BY <1>3, <1>6, <1>11, CountIs
  <1>13. Count(r, b2) =< Count(r, buff)
    <2>1. PICK p \in Seq(Unit) : buff = p \o b2
      BY <1>6 DEF EndOf
    <2>2. Count(r, p \o b2) = Count(r, p) + Count(r, b2)
      BY <1>6, CountConcat
    <2>3. Count(r, p) \in Nat
      BY CountIs
    <2> QED BY <1>12, <2>1, <2>2, <2>3
  <1>14. Count(r, w \o gone) + Count(r, b2) + Count(r, f2)
            = Count(r, w) + Count(r, buff) + Count(r, file)
    <2>1. Count(r, gone \o (b2 \o f2)) = Count(r, buff \o file)
      BY <1>6
    <2>2. Count(r, gone) + (Count(r, b2) + Count(r, f2)) = Count(r, buff) + Count(r, file)
      BY <1>8, <1>9, <2>1
    <2> DEFINE a == Count(r, w)
               g == Count(r, gone)
               b == Count(r, b2)
               f == Count(r, f2)
               s == Count(r, buff)
               t == Count(r, file)
    <2>3. /\ Count(r, w \o gone) = a + g /\ g + (b + f) = s + t
          /\ a \in Nat /\ g \in Nat /\ b \in Nat /\ f \in Nat /\ s \in Nat /\ t \in Nat
      BY <1>10, <1>12, <2>2
    <2> HIDE DEF a, g, b, f, s, t
    <2>4. (a + g) + b + f = a + s + t
      BY <2>3
    <2> QED BY <2>3, <2>4 DEF a, b, f, s, t
  <1> QED BY <1>1, <1>2, <1>12, <1>13, <1>14 DEF w, b2, f2

LEMMA RecvMoves ==
  ASSUME AgentInv, NetInv, NEW c \in Conn, RecvHead(c) \/ RecvBody(c), NEW r \in Rep
  PROVE  /\ \A d \in Conn \ {c} : net'[d] = net[d] /\ peer'[d] = peer[d]
         /\ net'[c].st = net[c].st /\ out' = out
         /\ Count(r, net'[c].wire) + peer'[c].log[r] = Count(r, net[c].wire) + peer[c].log[r]
  <1> DEFINE w == net[c].wire
             u == Head(w)
             v == Tail(w)
  <1>1. net \in [Conn -> Wire] /\ peer \in [Conn -> Side]
    BY NetTyped
  <1>2. /\ w # << >> /\ out' = out /\ net' = [net EXCEPT ![c].wire = v]
    BY DEF RecvHead, RecvBody
  <1>3. /\ w \in Seq(Unit) /\ u \in Unit /\ v \in Seq(Unit) /\ w = <<u>> \o v
    <2>1. w \in Seq(Unit) /\ w # << >>
      BY <1>1, <1>2 DEF Wire
    <2> HIDE DEF w
    <2> QED BY <2>1
  <1>4. net'[c].wire = v /\ net'[c].st = net[c].st /\ \A d \in Conn \ {c} : net'[d] = net[d]
    BY <1>1, <1>2 DEF Wire
  <1>5. \A d \in Conn \ {c} : peer'[d] = peer[d]
    BY <1>1 DEF RecvHead, RecvBody
  <1> HIDE DEF v
  <1>6. Count(r, w) = (IF u = Line(r) THEN 1 ELSE 0) + Count(r, v)
    <2>1. <<u>> \in Seq(Unit) /\ Count(r, <<u>>) = IF u = Line(r) THEN 1 ELSE 0
      BY <1>3, CountUnit
    <2> HIDE DEF u, w
    <2>2. Count(r, <<u>> \o v) = Count(r, <<u>>) + Count(r, v)
      BY <1>3, <2>1, CountConcat
    <2> QED BY <1>3, <2>1, <2>2
  <1>7. Count(r, v) \in Nat /\ peer[c].log[r] \in Nat /\ peer[c].log \in [Rep -> Nat]
    BY <1>1, <1>3, CountIs DEF Side
  <1>8. peer'[c].log[r] = peer[c].log[r] + IF u = Line(r) THEN 1 ELSE 0
    <2> HIDE DEF u
    <2>1. CASE RecvHead(c)
      <3>1. u.t # "line" /\ peer' = [peer EXCEPT ![c].need = IF u.t = "head" THEN u.n ELSE 0]
        BY <2>1 DEF RecvHead, u
      <3>2. peer'[c].log = peer[c].log
        BY <1>1, <3>1 DEF Side
      <3>3. u # Line(r)
        BY <3>1 DEF Line
      <3> QED BY <1>7, <3>2, <3>3
    <2>2. CASE RecvBody(c)
      <3> DEFINE g == IF u.t = "line" THEN Logged(peer[c].log, u.r) ELSE peer[c].log
      <3>1. peer' = [peer EXCEPT ![c].need = peer[c].need - 1, ![c].log = g]
        BY <2>2 DEF RecvBody, ToCome, u
      <3> HIDE DEF g
      <3>2. peer'[c].log = g
        BY <1>1, <3>1 DEF Side
      <3>3. CASE u.t = "line"
        <4>1. u.r \in Rep /\ u = Line(u.r)
          BY <1>3, <3>3 DEF Unit, Begin, Line, Word
        <4>2. u = Line(r) <=> u.r = r
          BY <4>1 DEF Line
        <4>3. g[r] = IF u.r = r THEN peer[c].log[r] + 1 ELSE peer[c].log[r]
          BY <1>7, <3>3 DEF g, Logged
        <4> QED BY <1>7, <3>2, <4>2, <4>3
      <3>4. CASE u.t # "line"
        <4>1. u # Line(r) /\ g = peer[c].log
          BY <3>4 DEF Line, g
        <4> QED BY <1>7, <3>2, <4>1
      <3> QED BY <3>3, <3>4
    <2> QED BY <2>1, <2>2
  <1>9. Count(r, v) + peer'[c].log[r] = Count(r, w) + peer[c].log[r]
    <2> DEFINE k == IF u = Line(r) THEN 1 ELSE 0
    <2>1. k \in Nat
      OBVIOUS
    <2> HIDE DEF k
    <2>2. Count(r, w) = k + Count(r, v) /\ peer'[c].log[r] = peer[c].log[r] + k
      BY <1>6, <1>8 DEF k
    <2> QED BY <1>7, <2>1, <2>2
  <1> QED BY <1>2, <1>4, <1>5, <1>9 DEF w

LEMMA LogMoves ==
  ASSUME NetInv, NEW c \in Conn, FiniConn(c) \/ Interval(c), NEW r \in Rep
  PROVE  /\ net' = net /\ \A d \in Conn \ {c} : peer'[d] = peer[d]
         /\ out'[r] = out[r] + peer[c].log[r] /\ peer'[c].log[r] = 0
  <1>1. net \in [Conn -> Wire] /\ peer \in [Conn -> Side] /\ out \in [Rep -> Nat]
    BY NetTyped
  <1>2. net' = net /\ out' = [q \in Rep |-> out[q] + peer[c].log[q]]
    BY DEF FiniConn, Interval, Moved
  <1>3. peer' = [peer EXCEPT ![c] = NoPeer] \/ peer' = [peer EXCEPT ![c].log = NoLog]
    BY DEF FiniConn, Interval
  <1>4. peer'[c].log = NoLog /\ \A d \in Conn \ {c} : peer'[d] = peer[d]
    <2>1. CASE peer' = [peer EXCEPT ![c] = NoPeer]
      BY <1>1, <2>1 DEF NoPeer
    <2>2. CASE peer' = [peer EXCEPT ![c].log = NoLog]
      BY <1>1, <2>2 DEF Side
    <2> QED BY <1>3, <2>1, <2>2
  <1>5. NoLog[r] = 0
    BY DEF NoLog
  <1> QED BY <1>2, <1>4, <1>5

LEMMA SentStep ==
  ASSUME TmpInv, AgentInv, NetInv, LinkInv, SentInv, ReportNext, NetInv' PROVE SentInv'
  <1> SUFFICES ASSUME Sending', NEW r \in Rep, Count(r, tmp'[index']) > 0 PROVE StillThere(r)' > 0
    BY DEF SentInv
  <1>1. net \in [Conn -> Wire] /\ peer \in [Conn -> Side] /\ out \in [Rep -> Nat]
    BY NetTyped
  <1>2. Sending /\ Count(r, tmp[index]) > 0 => StillThere(r) > 0
    BY DEF SentInv
  <1>3. at \in Conn => /\ Count(r, net[at].wire) \in Nat /\ peer[at].log[r] \in Nat
                       /\ out[r] \in Nat /\ Count(r, file) \in Nat
    BY <1>1, AwayType, CountIs DEF AgentInv
  <1>4. Sending => at \in Conn
    BY DEF Sending, LinkInv, AgentInv
  <1>5. CASE UNCHANGED <<tmp, index, file, at, peer, out>>
             /\ (at \in Conn => /\ net'[at].wire = net[at].wire
                                /\ net'[at].st = "up" => net[at].st = "up")
    <2>1. Sending
      BY <1>5 DEF Sending, LinkInv, AgentInv
    <2> QED BY <1>2, <1>4, <1>5, <2>1 DEF StillThere
  <1>6. CASE \/ TurnOfHour \/ Heartbeat \/ PartOfCommand \/ Scan \/ \E q \in Rep : Finish(q)
    BY <1>5, <1>6 DEF TurnOfHour, Heartbeat, PartOfCommand, Scan, Finish, master
  <1>7. CASE Dump \/ Close \/ AgentDies \/ \E c \in Conn : Connect(c)
    BY <1>7 DEF Dump, Close, AgentDies, Connect, LinkInv, Sending
  <1>8. CASE Answer
    <2>1. /\ UNCHANGED <<tmp, index, file, at, peer, out>>
          /\ net' = [net EXCEPT ![at].cmd = net[at].cmd - 1]
      BY <1>8 DEF Answer, master
    <2>2. at \in Conn => net'[at].wire = net[at].wire /\ net'[at].st = net[at].st
      BY <1>1, <2>1 DEF Wire
    <2> QED BY <1>5, <2>1, <2>2
  <1>9. CASE \E c \in Conn : Command(c)
    <2>1. PICK c \in Conn : /\ UNCHANGED <<tmp, index, file, at, peer, out>>
                            /\ net' = [net EXCEPT ![c].cmd = net[c].cmd + 1]
      BY <1>9 DEF Command, master, agent
    <2>2. at \in Conn => net'[at].wire = net[at].wire /\ net'[at].st = net[at].st
      BY <1>1, <2>1 DEF Wire
    <2> QED BY <1>5, <2>1, <2>2
  <1>10. CASE MasterDies \/ \E c \in Conn : Break(c) \/ RecvBad(c)
    <2>1. UNCHANGED <<tmp, index, file, at>>
      BY <1>10 DEF MasterDies, Break, RecvBad, agent
    <2>2. at \in Conn
      BY <2>1 DEF Sending, LinkInv, AgentInv
    <2>3. CASE MasterDies
      <3>1. net'[at] = NoNet
        BY <2>2, <2>3 DEF MasterDies
      <3> QED BY <2>1, <3>1, NoNetIs DEF Sending
    <2>4. CASE \E c \in Conn : Break(c) \/ RecvBad(c)
      <3>1. PICK c \in Conn : net' = [net EXCEPT ![c] = NoNet] /\ UNCHANGED <<peer, out>>
        BY <2>4 DEF Break, RecvBad, master
      <3>2. CASE c = at
        BY <1>1, <2>1, <3>1, <3>2, NoNetIs DEF Sending
      <3>3. CASE c # at
        BY <1>1, <1>5, <2>1, <2>2, <3>1, <3>3
      <3> QED BY <3>2, <3>3
    <2> QED BY <1>10, <2>3, <2>4
  <1>11. CASE NextFile
    <2>1. file' = tmp[index] /\ UNCHANGED <<tmp, index, at, net, peer, out>>
      BY <1>11 DEF NextFile, master
    <2>2. at \in Conn
      BY <1>11 DEF NextFile, AgentInv
    <2>3. Count(r, file') > 0 /\ Count(r, file') \in Nat
      <3>1. tmp[index] \in Seq(Unit)
        BY <1>11, OldestFile
      <3> QED BY <2>1, <3>1, CountIs
    <2> QED BY <1>3, <2>1, <2>2, <2>3 DEF StillThere
  <1>12. CASE \E n \in 1 .. Len(buff \o file) : Send(n)
    <2>1. PICK n \in 1 .. Len(buff \o file) : Send(n)
      BY <1>12
    <2>2. Resumed(buff, file, n, buff', file')
      <3>1. Remain(buff, file, n, buff', file')
        BY <2>1 DEF Send, Remain
      <3> QED BY <3>1, SentIs DEF AgentInv
    <2>3. file # << >> /\ n # Len(buff \o file)
      BY <2>2 DEF Resumed, Sending
    <2>4. UNCHANGED <<tmp, index, at>> /\ net[at].st = "up"
      BY <2>1, <2>3 DEF Send, SentAll
    <2>5. StillThere(r) > 0
      BY <1>2, <2>3, <2>4 DEF Sending
    <2>6. /\ at \in Conn /\ peer' = peer /\ out' = out
          /\ Count(r, net'[at].wire) + Count(r, buff') + Count(r, file')
                = Count(r, net[at].wire) + Count(r, buff) + Count(r, file)
          /\ Count(r, buff') =< Count(r, buff)
          /\ Count(r, net'[at].wire) \in Nat /\ Count(r, buff') \in Nat /\ Count(r, file') \in Nat
          /\ Count(r, buff) \in Nat
      BY <2>1, SendMoves
    <2>7. Count(r, net'[at].wire) + Count(r, file') >= Count(r, net[at].wire) + Count(r, file)
      BY <1>3, <2>6
    <2>8. StillThere(r)' = Count(r, file') + Count(r, net'[at].wire) + peer[at].log[r] + out[r]
      BY <2>4, <2>6 DEF StillThere
    <2>9. StillThere(r) = Count(r, file) + Count(r, net[at].wire) + peer[at].log[r] + out[r]
      BY DEF StillThere
    <2> DEFINE sum == Count(r, net[at].wire) + Count(r, file)
               sum2 == Count(r, net'[at].wire) + Count(r, file')
    <2>10. sum \in Nat /\ sum2 \in Nat /\ sum2 >= sum
      <3>1. Count(r, net[at].wire) \in Nat /\ Count(r, file) \in Nat
        BY <1>3, <2>6
      <3>2. Count(r, net'[at].wire) \in Nat /\ Count(r, file') \in Nat
        BY <2>6
      <3> QED BY <2>7, <3>1, <3>2
    <2>11. StillThere(r) = sum + peer[at].log[r] + out[r] /\ StillThere(r)' = sum2 + peer[at].log[r] + out[r]
      BY <1>3, <2>6, <2>8, <2>9
    <2> DEFINE j == peer[at].log[r]
               k == out[r]
    <2>12. j \in Nat /\ k \in Nat
      BY <1>3, <2>6
    <2> HIDE DEF sum, sum2
    <2>13. StillThere(r) = sum + j + k /\ StillThere(r)' = sum2 + j + k
      BY <2>11
    <2> HIDE DEF j, k
    <2>14. sum + j + k > 0
      BY <2>5, <2>13
    <2>15. sum2 + j + k > 0
      BY <2>10, <2>12, <2>14
    <2> QED BY <2>13, <2>15
  <1>13. CASE \E c \in Conn : FiniConn(c) \/ Interval(c) \/ RecvHead(c) \/ RecvBody(c)
    <2>1. PICK c \in Conn : FiniConn(c) \/ Interval(c) \/ RecvHead(c) \/ RecvBody(c)
      BY <1>13
    <2>2. UNCHANGED <<tmp, index, file, at>>
      BY <2>1 DEF FiniConn, Interval, RecvHead, RecvBody, agent
    <2>3. at \in Conn
      BY <2>2 DEF Sending, LinkInv, AgentInv
    <2>4. CASE FiniConn(c) \/ Interval(c)
      <3>1. /\ net' = net /\ \A d \in Conn \ {c} : peer'[d] = peer[d]
            /\ out'[r] = out[r] + peer[c].log[r] /\ peer'[c].log[r] = 0 /\ peer[c].log[r] \in Nat
        BY <1>1, <2>4, LogMoves, AwayType
      <3>2. peer'[at].log[r] + out'[r] >= peer[at].log[r] + out[r]
        <4>1. CASE c = at
          BY <1>3, <2>3, <3>1, <4>1
        <4>2. CASE c # at
          BY <1>3, <2>3, <3>1, <4>2
        <4> QED BY <4>1, <4>2
      <3>3. StillThere(r) > 0
        BY <1>2, <2>2, <3>1 DEF Sending
      <3>4. peer'[at].log[r] \in Nat /\ out'[r] \in Nat
        BY <1>3, <2>3, <3>1
      <3>5. StillThere(r)' = Count(r, file) + Count(r, net[at].wire) + peer'[at].log[r] + out'[r]
        BY <2>2, <3>1 DEF StillThere
      <3>6. StillThere(r) = Count(r, file) + Count(r, net[at].wire) + peer[at].log[r] + out[r]
        BY DEF StillThere
      <3> QED BY <1>3, <2>3, <3>2, <3>3, <3>4, <3>5, <3>6
    <2>5. CASE RecvHead(c) \/ RecvBody(c)
      <3>1. /\ \A d \in Conn \ {c} : net'[d] = net[d] /\ peer'[d] = peer[d]
            /\ net'[c].st = net[c].st /\ out' = out
            /\ Count(r, net'[c].wire) + peer'[c].log[r] = Count(r, net[c].wire) + peer[c].log[r]
        BY <2>5, RecvMoves
      <3>2. Count(r, net'[at].wire) + peer'[at].log[r] = Count(r, net[at].wire) + peer[at].log[r]
        BY <2>3, <3>1
      <3>3. net'[at].st = net[at].st
        BY <2>3, <3>1
      <3>4. StillThere(r) > 0
        BY <1>2, <2>2, <3>3 DEF Sending
      <3>5. Count(r, net'[at].wire) \in Nat /\ peer'[at].log[r] \in Nat
        <4>1. net' \in [Conn -> Wire] /\ peer' \in [Conn -> Side]
          BY DEF NetInv, Wire, Side
        <4> QED BY <2>3, <4>1, AwayType
      <3>6. StillThere(r)' = Count(r, file) + Count(r, net'[at].wire) + peer'[at].log[r] + out[r]
        BY <2>2, <3>1 DEF StillThere
      <3>7. StillThere(r) = Count(r, file) + Count(r, net[at].wire) + peer[at].log[r] + out[r]
        BY DEF StillThere
      <3> QED BY <1>3, <2>3, <3>2, <3>4, <3>5, <3>6, <3>7
    <2> QED BY <2>1, <2>4, <2>5
  <1> QED BY <1>6, <1>7, <1>8, <1>9, <1>10, <1>11, <1>12, <1>13 DEF ReportNext

(* What a step does to the number of copies                                *)
Typed == TmpInv /\ AgentInv /\ NetInv

LEMMA CopiesType == Typed => \A r \in Rep :
    /\ InMemory(r) \in Nat /\ out[r] \in Nat /\ OnDisk(r) \in Nat /\ Away(r) \in Nat
    /\ Copies(r) = InMemory(r) + out[r] + OnDisk(r) + Away(r)
  BY CopiesAre DEF Typed

LEMMA DiskKept ==
  ASSUME NEW r, tmp' = tmp, Sending' <=> Sending, Sending => file' = file /\ index' = index
  PROVE  OnDisk(r)' = OnDisk(r)
  <1>1. KeptOf(r, tmp', Sending', file', index') = KeptOf(r, tmp, Sending, file, index)
    BY DEF KeptOf
  <1> QED BY <1>1 DEF OnDisk

LEMMA DiskBack ==
  ASSUME Typed, NEW r \in Rep, tmp' = tmp, Sending, at # NoConn, ~Sending'
  PROVE  /\ OnDisk(r)' + Count(r, file) = OnDisk(r) + Count(r, tmp[index])
         /\ Count(r, file) \in Nat /\ Count(r, tmp[index]) \in Nat
  <1>1. tmp \in Seq(Seq(Unit)) /\ file \in Seq(Unit) /\ index \in 1 .. Len(tmp)
    BY DEF Typed, TmpInv, AgentInv, Sending
  <1> DEFINE f == KeptOf(r, tmp, Sending, file, index)
             g == KeptOf(r, tmp, FALSE, file, index)
  <1>2. /\ f \in [DOMAIN tmp -> Nat] /\ g \in [DOMAIN tmp -> Nat] /\ IsFiniteSet(DOMAIN tmp)
        /\ index \in DOMAIN tmp
    BY <1>1, KeptType
  <1>3. /\ f[index] = Count(r, file) /\ g[index] = Count(r, tmp[index])
        /\ \A i \in DOMAIN tmp \ {index} : g[i] = f[i]
    BY <1>2 DEF KeptOf
  <1>4. OnDisk(r) = Total(f)
    BY DEF OnDisk
  <1>5. OnDisk(r)' = Total(g)
    <2>1. KeptOf(r, tmp', Sending', file', index') = g
      BY DEF KeptOf
    <2> QED BY <2>1 DEF OnDisk
  <1> HIDE DEF f, g
  <1>6. Total(g) + f[index] = Total(f) + g[index]
    BY <1>2, <1>3, TotalChanged
  <1>7. Count(r, file) \in Nat /\ Count(r, tmp[index]) \in Nat
    BY <1>1, CountIs, ElementOfSeq
  <1> QED BY <1>3, <1>4, <1>5, <1>6, <1>7

LEMMA AwayKept ==
  ASSUME NEW r, \A c \in Conn : net'[c].wire = net[c].wire /\ peer'[c].log = peer[c].log
  PROVE  Away(r)' = Away(r)
  <1>1. AwayOf(r, net', peer') = AwayOf(r, net, peer)
    BY DEF AwayOf
  <1> QED BY <1>1 DEF Away

LEMMA AwayAt ==
  ASSUME Typed, Typed', NEW r \in Rep, NEW c \in Conn,
         \A d \in Conn \ {c} : net'[d] = net[d] /\ peer'[d] = peer[d]
  PROVE  Away(r)' + (Count(r, net[c].wire) + peer[c].log[r])
            = Away(r) + (Count(r, net'[c].wire) + peer'[c].log[r])
  <1> DEFINE f == AwayOf(r, net, peer)
             g == AwayOf(r, net', peer')
  <1>1. f \in [Conn -> Nat] /\ g \in [Conn -> Nat] /\ IsFiniteSet(Conn)
    <2>1. net \in [Conn -> Wire] /\ peer \in [Conn -> Side]
      BY DEF Typed, NetInv, Wire, Side
    <2>2. net' \in [Conn -> Wire] /\ peer' \in [Conn -> Side]
      BY DEF Typed, NetInv, Wire, Side
    <2> QED BY <2>1, <2>2, AwayType, ReportAssumption
  <1>2. /\ f[c] = Count(r, net[c].wire) + peer[c].log[r]
        /\ g[c] = Count(r, net'[c].wire) + peer'[c].log[r]
        /\ \A d \in Conn \ {c} : g[d] = f[d]
    BY DEF AwayOf
  <1>3. Away(r) = Total(f) /\ Away(r)' = Total(g)
    BY DEF Away
  <1> HIDE DEF f, g
  <1>4. Total(g) + f[c] = Total(f) + g[c]
    BY <1>1, <1>2, TotalChanged
  <1> QED BY <1>2, <1>3, <1>4

LEMMA Together ==
  ASSUME Typed, Typed', NEW r \in Rep, out'[r] = out[r],
         InMemory(r)' = InMemory(r), OnDisk(r)' = OnDisk(r), Away(r)' = Away(r)
  PROVE  Copies(r)' = Copies(r)
  <1>1. Copies(r) = InMemory(r) + out[r] + OnDisk(r) + Away(r)
    BY CopiesType
  <1>2. Copies(r)' = InMemory(r)' + out'[r] + OnDisk(r)' + Away(r)'
    BY CopiesNext DEF Typed
  <1> QED BY <1>1, <1>2

(* A line that is in a file of tmpdir is somewhere.                        *)
LEMMA InTmpCounts == Typed /\ LinkInv /\ SentInv => \A r \in Rep : r \in InTmp => Copies(r) >= 1
  <1> SUFFICES ASSUME Typed, LinkInv, SentInv, NEW r \in Rep, r \in InTmp
               PROVE  Copies(r) >= 1
    OBVIOUS
  <1>1. tmp \in Seq(Seq(Unit)) /\ file \in Seq(Unit)
    BY DEF Typed, TmpInv, AgentInv
  <1>2. net \in [Conn -> Wire] /\ peer \in [Conn -> Side]
    BY DEF Typed, NetInv, Wire, Side
  <1>3. /\ InMemory(r) \in Nat /\ out[r] \in Nat /\ OnDisk(r) \in Nat /\ Away(r) \in Nat
        /\ Copies(r) = InMemory(r) + out[r] + OnDisk(r) + Away(r)
    BY CopiesType
  <1>4. PICK i \in DOMAIN tmp : r \in Reps(tmp[i])
    BY DEF InTmp
  <1>5. Count(r, tmp[i]) > 0
    <2>1. tmp[i] \in Seq(Unit)
      BY <1>1, <1>4, ElementOfSeq
    <2>2. \E k \in 1 .. Len(tmp[i]) : tmp[i][k] = Line(r)
      BY <1>4, <2>1 DEF Reps, Range
    <2> QED BY <2>1, <2>2, CountNone, CountIs
  <1> DEFINE f == KeptOf(r, tmp, Sending, file, index)
             g == AwayOf(r, net, peer)
  <1>6. OnDisk(r) >= f[i]
    <2>1. f \in [DOMAIN tmp -> Nat] /\ IsFiniteSet(DOMAIN tmp)
      BY <1>1, KeptType
    <2>2. Total(f) >= f[i]
      BY <2>1, TotalAtLeast
    <2> QED BY <2>2 DEF OnDisk
  <1>7. f[i] = IF Sending /\ i = index THEN Count(r, file) ELSE Count(r, tmp[i])
    BY DEF KeptOf
  <1>8. CASE ~(Sending /\ i = index)
    <2>1. f[i] > 0 /\ f[i] \in Nat
      <3>1. Count(r, tmp[i]) \in Nat
        BY <1>1, CountIs, ElementOfSeq
      <3> QED BY <1>5, <1>7, <1>8, <3>1
    <2> HIDE DEF f
    <2> QED BY <1>3, <1>6, <2>1
  <1>9. CASE Sending /\ i = index
    <2>1. at \in Conn
      BY <1>9 DEF Sending, LinkInv, AgentInv, Typed
    <2>2. StillThere(r) > 0
      BY <1>5, <1>9 DEF SentInv
    <2>3. Away(r) >= Count(r, net[at].wire) + peer[at].log[r]
      <3>1. g \in [Conn -> Nat] /\ IsFiniteSet(Conn)
        BY <1>2, AwayType, ReportAssumption
      <3>2. Total(g) >= g[at]
        BY <2>1, <3>1, TotalAtLeast
      <3>3. g[at] = Count(r, net[at].wire) + peer[at].log[r]
        BY <2>1 DEF AwayOf
      <3> QED BY <3>2, <3>3 DEF Away
    <2>4. Count(r, file) \in Nat /\ Count(r, net[at].wire) \in Nat /\ peer[at].log[r] \in Nat
      BY <1>1, <1>2, <2>1, CountIs, AwayType
    <2>5. f[i] = Count(r, file)
      BY <1>7, <1>9
    <2> DEFINE away == Count(r, net[at].wire) + peer[at].log[r]
    <2>6. away \in Nat /\ StillThere(r) = Count(r, file) + away + out[r]
      BY <1>3, <2>4 DEF StillThere
    <2> HIDE DEF f, away
    <2>7. Away(r) >= away
      BY <2>3 DEF away
    <2>8. OnDisk(r) >= Count(r, file)
      BY <1>6, <2>5
    <2> QED BY <1>3, <2>2, <2>4, <2>6, <2>7, <2>8
  <1> QED BY <1>8, <1>9

LEMMA InTmpNext ==
  (Typed /\ LinkInv /\ SentInv => \A r \in Rep : r \in InTmp => Copies(r) >= 1)'
  BY InTmpCounts, PTL

(* The steps that lose nothing                                             *)
LEMMA CountBuff ==
  ASSUME Typed, NEW r \in Rep
  PROVE  /\ Count(r, buff) \in Nat /\ buff \in Seq(Unit) /\ Count(r, << >>) = 0
         /\ \A u \in Unit : u # Line(r) => Count(r, Append(buff, u)) = Count(r, buff)
  <1>1. buff \in Seq(Unit) /\ Count(r, buff) \in Nat
    BY CountIs DEF Typed, AgentInv
  <1>2. ASSUME NEW u \in Unit, u # Line(r) PROVE Count(r, Append(buff, u)) = Count(r, buff)
    <2>1. <<u>> \in Seq(Unit) /\ Count(r, <<u>>) = 0
      BY <1>2, CountUnit
    <2>2. Append(buff, u) = buff \o <<u>>
      BY <1>1, AppendIsConcat
    <2>3. Count(r, buff \o <<u>>) = Count(r, buff) + Count(r, <<u>>)
      BY <1>1, <2>1, CountConcat
    <2> QED BY <1>1, <2>1, <2>2, <2>3
  <1> QED BY <1>1, <1>2, CountEmpty

LEMMA NoLines ==
  ASSUME NEW r \in Rep
  PROVE  /\ \A t \in {"auth", "beat", "answer"} : Word(t) \in Unit /\ Word(t) # Line(r)
         /\ \A n \in 1 .. Cardinality(Rep) : Begin(n) \in Unit /\ Begin(n) # Line(r)
  <1>1. Line(r).t = "line"
    BY LineIsUnit
  <1>2. \A t \in {"auth", "beat", "answer"} : Word(t) \in Unit /\ Word(t).t = t
    BY WordIsUnit
  <1>3. \A n \in 1 .. Cardinality(Rep) : Begin(n) \in Unit /\ Begin(n).t = "head"
    BY BeginIsUnit
  <1> QED BY <1>1, <1>2, <1>3

LEMMA QuietCopies ==
  ASSUME Typed, Typed', LinkInv, NEW r \in Rep,
         TurnOfHour \/ PartOfCommand \/ Heartbeat \/ Answer \/ \E c \in Conn : Command(c)
  PROVE  Copies(r)' = Copies(r)
  <1>1. UNCHANGED <<clean, tmp, at, index, file, peer, out>>
    BY DEF TurnOfHour, PartOfCommand, Heartbeat, Answer, Command, agent, master
  <1>2. \A d \in Conn : net'[d].wire = net[d].wire /\ net'[d].st = net[d].st
    <2>1. net \in [Conn -> Wire]
      BY DEF Typed, NetInv, Wire
    <2>2. CASE net' = net
      BY <2>2
    <2>3. CASE Answer
      <3>1. net' = [net EXCEPT ![at].cmd = net[at].cmd - 1]
        BY <2>3 DEF Answer
      <3> QED BY <2>1, <3>1 DEF Wire
    <2>4. CASE \E c \in Conn : Command(c)
      <3>1. PICK c \in Conn : net' = [net EXCEPT ![c].cmd = net[c].cmd + 1]
        BY <2>4 DEF Command
      <3> QED BY <2>1, <3>1 DEF Wire
    <2> QED BY <2>2, <2>3, <2>4 DEF TurnOfHour, PartOfCommand, Heartbeat
  <1>3. Count(r, buff') = Count(r, buff)
    <2>1. \/ buff' = buff \/ buff' = Append(buff, Word("beat"))
          \/ buff' = Append(buff, Word("answer"))
      BY DEF TurnOfHour, PartOfCommand, Heartbeat, Answer, Command, agent
    <2> QED BY <2>1, CountBuff, NoLines
  <1>4. Sending' <=> Sending
    BY <1>1, <1>2 DEF Sending, LinkInv, Typed, AgentInv
  <1>5. OnDisk(r)' = OnDisk(r)
    BY <1>1, <1>4, DiskKept
  <1>6. Away(r)' = Away(r)
    BY <1>1, <1>2, AwayKept
  <1>7. InMemory(r)' = InMemory(r)
    BY <1>1, <1>3 DEF InMemory
  <1> QED BY <1>1, <1>5, <1>6, <1>7, Together

LEMMA ConnectCopies ==
  ASSUME Typed, Typed', LinkInv, NEW r \in Rep, NEW c \in Conn, Connect(c)
  PROVE  Copies(r)' = Copies(r)
  <1>1. /\ at = NoConn /\ ~peer[c].on /\ UNCHANGED <<clean, tmp, out>>
        /\ net' = [net EXCEPT ![c] = [NoNet EXCEPT !.st = "up"]]
        /\ peer' = [peer EXCEPT ![c].on = TRUE]
        /\ buff' = <<Word("auth")>> /\ file' = << >>
    BY DEF Connect
  <1>2. buff = << >> /\ file = << >> /\ net[c].wire = << >>
    BY <1>1 DEF LinkInv
  <1>3. ~Sending /\ ~Sending'
    BY <1>1, <1>2 DEF Sending
  <1>4. OnDisk(r)' = OnDisk(r)
    BY <1>1, <1>3, DiskKept
  <1>5. \A d \in Conn : net'[d].wire = net[d].wire /\ peer'[d].log = peer[d].log
    <2>1. net \in [Conn -> Wire] /\ peer \in [Conn -> Side]
      BY DEF Typed, NetInv, Wire, Side
    <2>2. [NoNet EXCEPT !.st = "up"].wire = << >>
      BY DEF NoNet
    <2>3. \A d \in Conn : net'[d].wire = net[d].wire
      BY <1>1, <1>2, <2>1, <2>2
    <2>4. \A d \in Conn : peer'[d].log = peer[d].log
      BY <1>1, <2>1 DEF Side
    <2> QED BY <2>3, <2>4
  <1>6. Away(r)' = Away(r)
    BY <1>5, AwayKept
  <1>7. InMemory(r)' = InMemory(r)
    <2>1. Count(r, <<Word("auth")>>) = 0
      BY NoLines, CountUnit
    <2> QED BY <1>1, <1>2, <2>1, CountEmpty DEF InMemory
  <1> QED BY <1>1, <1>4, <1>6, <1>7, Together

LEMMA FileCopies ==
  ASSUME Typed, Typed', NEW r \in Rep, NextFile
  PROVE  Copies(r)' = Copies(r)
  <1>1. /\ file = << >> /\ UNCHANGED <<clean, tmp, at, index, net, peer, out>>
        /\ buff' = Append(buff, Begin(Len(tmp[index]))) /\ file' = tmp[index]
    BY DEF NextFile, master
  <1>2. KeptOf(r, tmp', Sending', file', index') = KeptOf(r, tmp, Sending, file, index)
    <2>1. ~Sending
      BY <1>1 DEF Sending
    <2>2. KeptOf(r, tmp, Sending', tmp[index], index) = KeptOf(r, tmp, Sending, file, index)
      BY <2>1 DEF KeptOf
    <2> QED BY <1>1, <2>2
  <1>3. OnDisk(r)' = OnDisk(r)
    BY <1>2 DEF OnDisk
  <1>4. Away(r)' = Away(r)
    BY <1>1, AwayKept
  <1>5. InMemory(r)' = InMemory(r)
    <2>1. Begin(Len(tmp[index])) \in Unit /\ Begin(Len(tmp[index])) # Line(r)
      <3>1. Len(tmp[index]) \in 1 .. Cardinality(Rep)
        BY OldestFile DEF Typed
      <3> QED BY <3>1, NoLines
    <2>2. Count(r, Append(buff, Begin(Len(tmp[index])))) = Count(r, buff)
      BY <2>1, CountBuff
    <2> QED BY <1>1, <2>2 DEF InMemory
  <1> QED BY <1>1, <1>3, <1>4, <1>5, Together

(* The lines of the tasks that are taken: one each.                        *)
LEMMA CountLines ==
  ASSUME NEW S \in SUBSET Rep, S # {}, NEW r \in Rep
  PROVE  Count(r, AsLines(S)) = IF r \in S THEN 1 ELSE 0
  <1> DEFINE f == AsLines(S)
             T == {Line(q) : q \in S}
             line == [q \in S |-> Line(q)]
             n == Cardinality(S)
  <1>1. /\ f \in Seq(Unit) /\ Len(f) = n /\ LinesBut(f, {})
        /\ \A k \in 1 .. Len(f) : \E q \in S : f[k] = Line(q)
    <2>1. S \intersect {} = {}
      OBVIOUS
    <2> QED BY <2>1, AsLinesIs
  <1>2. \A k, m \in 1 .. Len(f) : f[k] = f[m] => k = m
    BY <1>1 DEF LinesBut
  <1>3. Count(r, f) =< 1 /\ Count(r, f) \in Nat
    BY <1>1, <1>2, CountOnce, CountIs
  <1> HIDE DEF f
  <1>4. CASE r \notin S
    <2>1. ASSUME NEW k \in 1 .. Len(f) PROVE f[k] # Line(r)
      <3>1. PICK q \in S : f[k] = Line(q)
        BY <1>1
      <3> QED BY <1>4, <3>1 DEF Line
    <2>2. Count(r, f) = 0
      BY <1>1, <2>1, CountNone
    <2> QED BY <1>4, <2>2 DEF f
  <1>5. CASE r \in S
    <2>1. IsFiniteSet(S) /\ n \in Nat
      BY RepSize, FS_Subset, FS_CardinalityType
    <2>2. line \in Bijection(S, T)
      BY DEF Bijection, Injection, Surjection, IsInjective, Line
    <2>3. IsFiniteSet(T) /\ Cardinality(T) = n
      BY <2>1, <2>2, FS_Bijection DEF ExistsBijection
    <2>4. Cardinality(1 .. n) = n /\ IsFiniteSet(1 .. n)
      <3>1. Cardinality(1 .. n) = IF 1 > n THEN 0 ELSE n - 1 + 1
        BY <2>1, FS_Interval
      <3> QED BY <2>1, <3>1, FS_Interval
    <2>5. f \in Injection(1 .. n, T)
      <3>1. f \in [1 .. n -> T]
        BY <1>1
      <3> QED BY <1>1, <1>2, <3>1 DEF Injection, IsInjective
    <2> HIDE DEF n, T
    <2>6. f \in Surjection(1 .. n, T)
      BY <2>3, <2>4, <2>5, FS_Injection
    <2>7. Line(r) \in T
      BY <1>5 DEF T
    <2>8. PICK k \in 1 .. n : f[k] = Line(r)
      BY <2>6, <2>7 DEF Surjection
    <2>9. Count(r, f) # 0
      BY <1>1, <2>8, CountNone DEF n
    <2> QED BY <1>3, <1>5, <2>9 DEF f
  <1> QED BY <1>4, <1>5

LEMMA ScanCopies ==
  ASSUME Typed, Typed', NEW r \in Rep, Scan
  PROVE  Copies(r)' = Copies(r)
  <1> DEFINE b == Begin(Cardinality(clean))
             s == AsLines(clean)
  <1>1. /\ index = 0 /\ clean # {} /\ clean' = {}
        /\ UNCHANGED <<tmp, at, index, file, net, peer, out>>
        /\ buff' = (buff \o <<b>>) \o s
    BY DEF Scan, master
  <1>2. file = << >>
    BY <1>1 DEF Typed, AgentInv
  <1>3. OnDisk(r)' = OnDisk(r)
    <2>1. ~Sending /\ ~Sending'
      BY <1>1, <1>2 DEF Sending
    <2> QED BY <1>1, <2>1, DiskKept
  <1>4. Away(r)' = Away(r)
    BY <1>1, AwayKept
  <1>5. b \in Unit /\ b # Line(r)
    <2>1. Len(s) \in 1 .. Cardinality(Rep) /\ Len(s) = Cardinality(clean)
      BY ScannedLines DEF Typed
    <2> QED BY <2>1, NoLines
  <1>6. s \in Seq(Unit) /\ Count(r, s) = IF r \in clean THEN 1 ELSE 0
    <2>1. clean \in SUBSET Rep /\ s \in Seq(Unit)
      BY ScannedLines DEF Typed, TmpInv
    <2> QED BY <1>1, <2>1, CountLines
  <1> HIDE DEF b, s
  <1>7. Count(r, buff') = Count(r, buff) + IF r \in clean THEN 1 ELSE 0
    <2>1. <<b>> \in Seq(Unit) /\ Count(r, <<b>>) = 0
      BY <1>5, CountUnit
    <2>2. buff \o <<b>> \in Seq(Unit) /\ Count(r, buff \o <<b>>) = Count(r, buff) + 0
      BY <2>1, CountConcat, CountBuff, ConcatProperties
    <2>3. Count(r, (buff \o <<b>>) \o s) = Count(r, buff \o <<b>>) + Count(r, s)
      BY <1>6, <2>2, CountConcat
    <2>4. Count(r, buff) \in Nat
      BY CountBuff
    <2> QED BY <1>1, <1>6, <2>2, <2>3, <2>4
  <1>8. InMemory(r)' = InMemory(r)
    BY <1>1, <1>7, CountBuff DEF InMemory
  <1> QED BY <1>1, <1>3, <1>4, <1>8, Together

LEMMA DumpCopies ==
  ASSUME Typed, Typed', LinkInv, NEW r \in Rep, Dump,
         ~(lost' = lost \union clean /\ UNCHANGED <<tmp, fresh>>)
  PROVE  Copies(r)' = Copies(r)
  <1> DEFINE s == AsLines(clean)
             k == IF r \in clean THEN 1 ELSE 0
             f == KeptOf(r, tmp, Sending, file, index)
             g == KeptOf(r, tmp', Sending', file', index')
  <1>1. at = NoConn /\ clean # {} /\ clean' = {} /\ UNCHANGED <<at, index, buff, file, net, peer, out>>
    BY DEF Dump, master
  <1>2. ~Sending /\ ~Sending'
    BY <1>1 DEF Sending, LinkInv
  <1>3. /\ tmp \in Seq(Seq(Unit)) /\ tmp' \in Seq(Seq(Unit)) /\ file \in Seq(Unit)
        /\ file' \in Seq(Unit) /\ clean \in SUBSET Rep
    BY DEF Typed, TmpInv, AgentInv
  <1>4. s \in Seq(Unit) /\ Count(r, s) = k /\ k \in Nat
    <2>1. s \in Seq(Unit)
      <3>1. clean \in SUBSET Rep /\ clean # {} /\ clean \intersect {} = {}
        BY <1>1, <1>3
      <3> QED BY <3>1, AsLinesIs
    <2>2. Count(r, s) = k
      BY <1>1, <1>3, CountLines
    <2> QED BY <2>1, <2>2
  <1>5. /\ f \in [DOMAIN tmp -> Nat] /\ IsFiniteSet(DOMAIN tmp) /\ DOMAIN tmp = 1 .. Len(tmp)
        /\ \A i \in DOMAIN tmp : f[i] = Count(r, tmp[i])
    <2>1. f \in [DOMAIN tmp -> Nat] /\ IsFiniteSet(DOMAIN tmp) /\ DOMAIN tmp = 1 .. Len(tmp)
      BY <1>3, KeptType
    <2>2. \A i \in DOMAIN tmp : f[i] = Count(r, tmp[i])
      BY <1>2, KeptIs
    <2> QED BY <2>1, <2>2
  <1>6. /\ g \in [DOMAIN tmp' -> Nat] /\ IsFiniteSet(DOMAIN tmp') /\ DOMAIN tmp' = 1 .. Len(tmp')
        /\ \A i \in DOMAIN tmp' : g[i] = Count(r, tmp'[i])
    <2>1. g \in [DOMAIN tmp' -> Nat] /\ IsFiniteSet(DOMAIN tmp') /\ DOMAIN tmp' = 1 .. Len(tmp')
      <3> DEFINE t == tmp'
                 v == file'
      <3> HIDE DEF t, v
      <3>1. t \in Seq(Seq(Unit)) /\ v \in Seq(Unit)
        BY <1>3 DEF t, v
      <3>2. /\ DOMAIN t = 1 .. Len(t) /\ IsFiniteSet(DOMAIN t)
            /\ KeptOf(r, t, Sending', v, index') \in [DOMAIN t -> Nat]
        BY <3>1, KeptType
      <3> QED BY <3>2 DEF t, v
    <2>2. \A i \in DOMAIN tmp' : g[i] = Count(r, tmp'[i])
      BY <1>2, KeptIs
    <2> QED BY <2>1, <2>2
  <1>7. OnDisk(r) = Total(f) /\ OnDisk(r)' = Total(g)
    BY DEF OnDisk
  <1> HIDE DEF s, k, f, g
  <1>13. Total(f) \in Nat
    BY <1>5, TotalIs
  <1>8. Total(g) = Total(f) + k
    <2>1. CASE fresh /\ tmp' = [tmp EXCEPT ![1] = @ \o AsLines(clean)]
      <3>1. tmp # << >>
        BY <2>1 DEF Typed, TmpInv
      <3>2. 1 \in 1 .. Len(tmp) /\ 1 \in DOMAIN tmp /\ tmp[1] \in Seq(Unit)
        BY <1>3, <1>5, <3>1, EmptySeq, ElementOfSeq
      <3>3. tmp' = [tmp EXCEPT ![1] = tmp[1] \o s]
        BY <2>1 DEF s
      <3>4. tmp[1] \o s \in Seq(Unit)
        BY <1>4, <3>2, ConcatProperties
      <3>5. DOMAIN tmp' = DOMAIN tmp /\ tmp'[1] = tmp[1] \o s /\ \A i \in DOMAIN tmp \ {1} : tmp'[i] = tmp[i]
        BY <1>3, <3>2, <3>3
      <3>6. Count(r, tmp'[1]) = Count(r, tmp[1]) + k
        BY <1>4, <3>2, <3>5, CountConcat
      <3>7. g[1] = f[1] + k /\ \A i \in DOMAIN tmp \ {1} : g[i] = f[i]
        <4>1. g[1] = Count(r, tmp'[1]) /\ f[1] = Count(r, tmp[1])
          BY <1>5, <1>6, <3>2, <3>5
        <4>2. \A i \in DOMAIN tmp \ {1} : g[i] = Count(r, tmp'[i]) /\ f[i] = Count(r, tmp[i])
          BY <1>5, <1>6, <3>5
        <4> QED BY <3>5, <3>6, <4>1, <4>2
      <3>8. Total(g) + f[1] = Total(f) + g[1]
        <4>1. g \in [DOMAIN tmp -> Nat] /\ f \in [DOMAIN tmp -> Nat] /\ IsFiniteSet(DOMAIN tmp)
          BY <1>5, <1>6, <3>5
        <4> QED BY <3>2, <3>7, <4>1, TotalChanged
      <3>9. Total(g) \in Nat /\ f[1] \in Nat
        BY <1>5, <1>6, <3>2, TotalIs
      <3> QED BY <1>4, <1>13, <3>7, <3>8, <3>9
    <2>2. CASE tmp' = <<AsLines(clean)>> \o tmp
      <3> DEFINE n == Len(tmp)
      <3>1. tmp' = <<s>> \o tmp /\ n \in Nat /\ <<s>> \in Seq(Seq(Unit)) /\ Len(<<s>>) = 1
        BY <1>3, <1>4, <2>2 DEF s
      <3>2. /\ Len(tmp') = 1 + n
            /\ \A i \in 1 .. 1 + n : tmp'[i] = IF i =< 1 THEN <<s>>[i] ELSE tmp[i - 1]
        BY <1>3, <3>1, ConcatProperties
      <3>3. tmp'[1] = s
        BY <3>1, <3>2
      <3> HIDE DEF n
      <3>4. ASSUME NEW i \in 1 .. n PROVE tmp'[i + 1] = tmp[i]
        <4>1. i + 1 \in 1 .. 1 + n /\ ~(i + 1 =< 1) /\ (i + 1) - 1 = i
          BY <3>1
        <4> QED BY <3>2, <4>1
      <3> DEFINE h == [i \in (DOMAIN tmp') \ {1} |-> g[i]]
      <3>5. (DOMAIN tmp') \ {1} = 2 .. n + 1 /\ 1 \in DOMAIN tmp'
        BY <1>6, <3>1, <3>2
      <3>6. h \in [2 .. n + 1 -> Nat]
        BY <1>6, <3>5
      <3>7. f \in [1 .. n -> Nat] /\ \A i \in 1 .. n : h[i + 1] = f[i]
        <4>1. f \in [1 .. n -> Nat]
          BY <1>5 DEF n
        <4>2. ASSUME NEW i \in 1 .. n PROVE h[i + 1] = f[i]
          <5>1. i + 1 \in 2 .. n + 1 /\ i \in DOMAIN tmp
            <6>1. i + 1 \in 2 .. n + 1
              BY <3>1
            <6>2. i \in DOMAIN tmp
              BY <1>5 DEF n
            <6> QED BY <6>1, <6>2
          <5>2. h[i + 1] = g[i + 1] /\ i + 1 \in DOMAIN tmp'
            BY <3>5, <5>1
          <5>3. g[i + 1] = Count(r, tmp'[i + 1]) /\ f[i] = Count(r, tmp[i])
            BY <1>5, <1>6, <5>1, <5>2
          <5> HIDE DEF h
          <5> QED BY <3>4, <5>2, <5>3
        <4> QED BY <4>1, <4>2
      <3>8. Total(g) = g[1] + Total(h)
        <4>1. g \in [DOMAIN tmp' -> Nat] /\ IsFiniteSet(DOMAIN tmp')
          BY <1>6
        <4> QED BY <3>5, <4>1, TotalSplit
      <3> HIDE DEF h
      <3>9. Total(h) = Total(f)
        BY <3>1, <3>6, <3>7, TotalShift
      <3>10. g[1] = k
        BY <1>4, <1>6, <3>3, <3>5
      <3> QED BY <1>4, <1>13, <3>8, <3>9, <3>10
    <2> QED BY <2>1, <2>2 DEF Dump
  <1>9. InMemory(r) = k + Count(r, buff) /\ InMemory(r)' = Count(r, buff) /\ Count(r, buff) \in Nat
    BY <1>1, CountBuff DEF InMemory, k
  <1>10. Away(r)' = Away(r)
    BY <1>1, AwayKept
  <1>11. /\ InMemory(r) \in Nat /\ out[r] \in Nat /\ OnDisk(r) \in Nat /\ Away(r) \in Nat
         /\ Copies(r) = InMemory(r) + out[r] + OnDisk(r) + Away(r)
    BY CopiesType
  <1>12. Copies(r)' = InMemory(r)' + out'[r] + OnDisk(r)' + Away(r)'
    BY CopiesNext DEF Typed
  <1> QED BY <1>1, <1>4, <1>7, <1>8, <1>9, <1>10, <1>11, <1>12

LEMMA LogCopies ==
  ASSUME Typed, Typed', LinkInv, NEW r \in Rep, NEW c \in Conn, FiniConn(c) \/ Interval(c)
  PROVE  Copies(r)' = Copies(r)
  <1>1. /\ net' = net /\ \A d \in Conn \ {c} : peer'[d] = peer[d]
        /\ out'[r] = out[r] + peer[c].log[r] /\ peer'[c].log[r] = 0
    BY LogMoves DEF Typed
  <1>2. UNCHANGED <<clean, tmp, at, index, buff, file>>
    BY DEF FiniConn, Interval, agent
  <1>3. OnDisk(r)' = OnDisk(r)
    <2>1. Sending' <=> Sending
      BY <1>1, <1>2 DEF Sending
    <2> QED BY <1>2, <2>1, DiskKept
  <1>4. InMemory(r)' = InMemory(r)
    BY <1>2 DEF InMemory
  <1>5. Away(r)' + (Count(r, net[c].wire) + peer[c].log[r]) = Away(r) + (Count(r, net[c].wire) + 0)
    BY <1>1, AwayAt
  <1>6. Count(r, net[c].wire) \in Nat /\ peer[c].log[r] \in Nat
    BY AwayType, NetTyped DEF Typed
  <1>7. /\ InMemory(r) \in Nat /\ out[r] \in Nat /\ OnDisk(r) \in Nat /\ Away(r) \in Nat
        /\ Copies(r) = InMemory(r) + out[r] + OnDisk(r) + Away(r)
    BY CopiesType
  <1>8. Away(r)' \in Nat /\ Copies(r)' = InMemory(r)' + out'[r] + OnDisk(r)' + Away(r)'
    BY CopiesNext DEF Typed
  <1> DEFINE w == Count(r, net[c].wire)
             j == peer[c].log[r]
             x == Away(r)'
  <1> HIDE DEF w, j, x
  <1>9. x + (w + j) = Away(r) + (w + 0) /\ w \in Nat /\ j \in Nat /\ x \in Nat
    BY <1>5, <1>6, <1>8 DEF w, j, x
  <1>10. Copies(r)' = InMemory(r) + (out[r] + j) + OnDisk(r) + x
    BY <1>1, <1>3, <1>4, <1>8 DEF j, x
  <1>11. x + j = Away(r)
    BY <1>7, <1>9
  <1> QED BY <1>7, <1>9, <1>10, <1>11

LEMMA RecvCopies ==
  ASSUME Typed, Typed', LinkInv, NEW r \in Rep, NEW c \in Conn, RecvHead(c) \/ RecvBody(c)
  PROVE  Copies(r)' = Copies(r)
  <1>1. /\ \A d \in Conn \ {c} : net'[d] = net[d] /\ peer'[d] = peer[d]
        /\ net'[c].st = net[c].st /\ out' = out
        /\ Count(r, net'[c].wire) + peer'[c].log[r] = Count(r, net[c].wire) + peer[c].log[r]
    BY RecvMoves DEF Typed
  <1>2. UNCHANGED <<clean, tmp, at, index, buff, file>>
    BY DEF RecvHead, RecvBody, agent
  <1>3. OnDisk(r)' = OnDisk(r)
    <2>1. Sending' <=> Sending
      BY <1>1, <1>2 DEF Sending, LinkInv, Typed, AgentInv
    <2> QED BY <1>2, <2>1, DiskKept
  <1>4. InMemory(r)' = InMemory(r)
    BY <1>2 DEF InMemory
  <1>5. Away(r)' = Away(r)
    <2> DEFINE s == Count(r, net[c].wire) + peer[c].log[r]
               t == Count(r, net'[c].wire) + peer'[c].log[r]
    <2>1. Away(r)' + s = Away(r) + t /\ t = s
      BY <1>1, AwayAt
    <2>2. s \in Nat
      <3>1. Count(r, net[c].wire) \in Nat /\ peer[c].log[r] \in Nat
        BY AwayType, NetTyped DEF Typed
      <3> QED BY <3>1
    <2>3. Away(r) \in Nat /\ Away(r)' \in Nat
      BY CopiesType, CopiesNext DEF Typed
    <2> HIDE DEF s, t
    <2> QED BY <2>1, <2>2, <2>3
  <1> QED BY <1>1, <1>3, <1>4, <1>5, Together

LEMMA SendCopies ==
  ASSUME Typed, Typed', LinkInv, NEW r \in Rep, NEW n \in 1 .. Len(buff \o file), Send(n)
  PROVE  Copies(r)' = Copies(r)
  <1>1. /\ at \in Conn /\ peer' = peer /\ out' = out
        /\ \A d \in Conn \ {at} : net'[d] = net[d]
        /\ Count(r, net'[at].wire) + Count(r, buff') + Count(r, file')
              = Count(r, net[at].wire) + Count(r, buff) + Count(r, file)
        /\ Count(r, net'[at].wire) \in Nat /\ Count(r, buff') \in Nat /\ Count(r, file') \in Nat
        /\ Count(r, net[at].wire) \in Nat /\ Count(r, buff) \in Nat /\ Count(r, file) \in Nat
    BY SendMoves DEF Typed
  <1>2. at' = at /\ clean' = clean /\ net[at].st = "up" /\ net'[at].st = "up"
    <2>1. net' = [net EXCEPT ![at].wire = net[at].wire \o SubSeq(buff \o file, 1, n)]
      BY DEF Send
    <2>2. net \in [Conn -> Wire]
      BY DEF Typed, NetInv, Wire
    <2> QED BY <1>1, <2>1, <2>2 DEF Send, Wire
  <1>3. Resumed(buff, file, n, buff', file') /\ Remain(buff, file, n, buff', file')
    <2>1. Remain(buff, file, n, buff', file')
      BY DEF Send, Remain
    <2> QED BY <2>1, SentIs DEF Typed, AgentInv
  <1>4. /\ tmp \in Seq(Seq(Unit)) /\ file \in Seq(Unit) /\ tmp' \in Seq(Seq(Unit))
        /\ file' \in Seq(Unit) /\ index = Len(tmp) /\ (file # << >> => tmp # << >>)
    <2>1. tmp \in Seq(Seq(Unit)) /\ tmp' \in Seq(Seq(Unit))
      BY DEF Typed, TmpInv
    <2>2. file \in Seq(Unit) /\ file' \in Seq(Unit)
      BY DEF Typed, AgentInv
    <2>3. index = Len(tmp)
      BY <1>1, ReportAssumption DEF Typed, AgentInv
    <2>4. file # << >> => Len(tmp) > 0
      BY <2>3 DEF Typed, AgentInv
    <2> QED BY <2>1, <2>2, <2>3, <2>4, EmptySeq
  <1>5. OnDisk(r) \in Nat /\ OnDisk(r)' \in Nat
    BY CopiesType, CopiesNext DEF Typed
  <1>6. OnDisk(r)' + Count(r, file) = OnDisk(r) + Count(r, file')
    <2> DEFINE f == KeptOf(r, tmp, Sending, file, index)
               g == KeptOf(r, tmp', Sending', file', index')
    <2>1. f \in [DOMAIN tmp -> Nat] /\ IsFiniteSet(DOMAIN tmp) /\ DOMAIN tmp = 1 .. Len(tmp)
      BY <1>4, KeptType
    <2>2. g \in [DOMAIN tmp' -> Nat] /\ DOMAIN tmp' = 1 .. Len(tmp')
      BY <1>4, KeptType
    <2>3. OnDisk(r) = Total(f) /\ OnDisk(r)' = Total(g)
      BY DEF OnDisk
    <2>4. CASE file = << >>
      <3>1. file' = << >> /\ tmp' = tmp /\ index' = index
        BY <1>3, <2>4 DEF Resumed, Send
      <3>2. ~Sending /\ ~Sending'
        BY <2>4, <3>1 DEF Sending
      <3>3. OnDisk(r)' = OnDisk(r)
        BY <3>1, <3>2, DiskKept
      <3> QED BY <1>1, <1>5, <2>4, <3>1, <3>3
    <2>5. CASE file # << >> /\ SentAll(n)
      <3>1. file' = << >> /\ tmp' = RemoveAt(tmp, index)
        BY <1>3, <2>5 DEF Resumed, Send, SentAll
      <3>2. Sending /\ ~Sending'
        BY <1>2, <2>5, <3>1 DEF Sending
      <3>3. /\ Len(tmp') = Len(tmp) - 1 /\ \A i \in 1 .. Len(tmp) - 1 : tmp'[i] = tmp[i]
        BY <1>4, <2>5, <3>1, RemovedIs
      <3>4. Len(tmp) \in Nat \ {0}
        BY <1>4, <2>5, EmptySeq
      <3>5. DOMAIN tmp' = DOMAIN tmp \ {index} /\ index \in DOMAIN tmp
        BY <1>4, <2>1, <2>2, <3>3, <3>4
      <3>6. g = [i \in DOMAIN tmp \ {index} |-> f[i]]
        <4>1. g = [i \in DOMAIN tmp' |-> Count(r, tmp'[i])]
          BY <3>2 DEF KeptOf
        <4>2. \A i \in DOMAIN tmp \ {index} : f[i] = Count(r, tmp[i]) /\ tmp'[i] = tmp[i]
          <5>1. \A i \in DOMAIN tmp \ {index} : f[i] = Count(r, tmp[i])
            BY KeptIs
          <5>2. DOMAIN tmp \ {index} = 1 .. Len(tmp) - 1
            <6>1. DOMAIN tmp = 1 .. Len(tmp) /\ index = Len(tmp) /\ Len(tmp) \in Nat
              BY <1>4, <2>1, <3>4
            <6> QED BY <6>1
          <5>3. \A i \in DOMAIN tmp \ {index} : tmp'[i] = tmp[i]
            BY <3>3, <5>2
          <5> QED BY <5>1, <5>3
        <4> QED BY <3>5, <4>1, <4>2
      <3>7. f[index] = Count(r, file)
        BY <3>2, <3>5 DEF KeptOf
      <3>8. Total(f) = f[index] + Total(g)
        <4>1. f \in [DOMAIN tmp -> Nat] /\ IsFiniteSet(DOMAIN tmp) /\ index \in DOMAIN tmp
          BY <2>1, <3>5
        <4> HIDE DEF f, g
        <4> QED BY <3>6, <4>1, TotalWithout
      <3>10. Count(r, file') = 0
        BY <3>1, CountEmpty
      <3> HIDE DEF f, g
      <3> QED BY <1>1, <1>5, <2>3, <3>7, <3>8, <3>10
    <2>6. CASE file # << >> /\ ~SentAll(n)
      <3>1. tmp' = tmp /\ index' = index
        BY <2>6 DEF Send
      <3>2. file' # << >>
        <4>1. CASE n =< Len(buff)
          BY <1>3, <2>6, <4>1 DEF Remain
        <4>2. CASE ~(n =< Len(buff))
          <5> DEFINE all == buff \o file
          <5>1. file' = SubSeq(all, n + 1, Len(all)) /\ n # Len(all) /\ n \in 1 .. Len(all)
            BY <1>3, <2>6, <4>2 DEF Remain, SentAll
          <5>2. all \in Seq(Unit) /\ Len(all) \in Nat
            BY <1>4, ConcatProperties, LenProperties DEF Typed, AgentInv
          <5> HIDE DEF all
          <5>3. n + 1 =< Len(all) /\ n + 1 \in Int
            BY <5>1, <5>2
          <5>4. \A i \in n + 1 .. Len(all) : all[i] \in Unit
            BY <5>1, <5>2, ElementOfSeq
          <5>5. Len(SubSeq(all, n + 1, Len(all))) = Len(all) - (n + 1) + 1
            BY <5>2, <5>3, <5>4, SubSeqProperties
          <5>6. Len(SubSeq(all, n + 1, Len(all))) # 0
            <6> DEFINE m == Len(SubSeq(all, n + 1, Len(all)))
                       l == Len(all)
            <6>1. m = l - (n + 1) + 1
              BY <5>5
            <6>3. n + 1 =< l /\ l \in Nat /\ n \in Int
              BY <5>2, <5>3
            <6> HIDE DEF m, l
            <6>2. m # 0
              BY <6>1, <6>3
            <6> QED BY <6>2 DEF m
          <5> QED BY <5>1, <5>6, EmptySeq
        <4> QED BY <4>1, <4>2
      <3>3. Sending /\ Sending'
        BY <1>2, <2>6, <3>2 DEF Sending
      <3>4. index \in DOMAIN tmp
        BY <1>4, <2>1, <2>6, EmptySeq
      <3>5. f[index] = Count(r, file) /\ g[index] = Count(r, file')
        BY <3>1, <3>3, <3>4 DEF KeptOf
      <3>6. \A i \in DOMAIN tmp \ {index} : g[i] = f[i]
        BY <3>1, <3>3 DEF KeptOf
      <3>7. g \in [DOMAIN tmp -> Nat]
        BY <2>2, <3>1
      <3> HIDE DEF f, g
      <3>8. Total(g) + f[index] = Total(f) + g[index]
        BY <2>1, <3>4, <3>6, <3>7, TotalChanged
      <3> QED BY <2>3, <3>5, <3>8
    <2> QED BY <2>4, <2>5, <2>6
  <1>7. Away(r)' + Count(r, net[at].wire) = Away(r) + Count(r, net'[at].wire)
    <2>1. Away(r)' + (Count(r, net[at].wire) + peer[at].log[r])
             = Away(r) + (Count(r, net'[at].wire) + peer'[at].log[r])
      BY <1>1, AwayAt
    <2>2. peer[at].log[r] \in Nat /\ peer' = peer
      BY <1>1, AwayType, NetTyped DEF Typed
    <2>3. Away(r) \in Nat /\ Away(r)' \in Nat
      BY CopiesType, CopiesNext DEF Typed
    <2> DEFINE j == peer[at].log[r]
               w == Count(r, net[at].wire)
               v == Count(r, net'[at].wire)
    <2> HIDE DEF j, w, v
    <2>4. Away(r)' + (w + j) = Away(r) + (v + j) /\ j \in Nat /\ w \in Nat /\ v \in Nat
      BY <1>1, <2>1, <2>2 DEF j, w, v
    <2>5. Away(r)' + w = Away(r) + v
      BY <2>3, <2>4
    <2> QED BY <2>5 DEF w, v
  <1>8. /\ InMemory(r) \in Nat /\ out[r] \in Nat /\ Away(r) \in Nat
        /\ Copies(r) = InMemory(r) + out[r] + OnDisk(r) + Away(r)
    BY CopiesType
  <1>9. /\ InMemory(r)' \in Nat /\ Away(r)' \in Nat
        /\ Copies(r)' = InMemory(r)' + out'[r] + OnDisk(r)' + Away(r)'
    BY CopiesNext DEF Typed
  <1> DEFINE k == IF r \in clean THEN 1 ELSE 0
  <1>10. InMemory(r) = k + Count(r, buff) /\ InMemory(r)' = k + Count(r, buff') /\ k \in Nat
    BY <1>2 DEF InMemory
  <1> DEFINE b == Count(r, buff)
             b2 == Count(r, buff')
             f == Count(r, file)
             f2 == Count(r, file')
             w == Count(r, net[at].wire)
             w2 == Count(r, net'[at].wire)
             d2 == OnDisk(r)'
             a2 == Away(r)'
  <1> HIDE DEF k, b, b2, f, f2, w, w2, d2, a2
  <1>11. /\ b \in Nat /\ b2 \in Nat /\ f \in Nat /\ f2 \in Nat /\ w \in Nat /\ w2 \in Nat /\ k \in Nat
         /\ w2 + b2 + f2 = w + b + f /\ d2 + f = OnDisk(r) + f2 /\ a2 + w = Away(r) + w2
         /\ d2 \in Nat /\ a2 \in Nat
    BY <1>1, <1>5, <1>6, <1>7, <1>9, <1>10 DEF b, b2, f, f2, w, w2, d2, a2
  <1>12. Copies(r)' = (k + b2) + out[r] + d2 + a2 /\ Copies(r) = (k + b) + out[r] + OnDisk(r) + Away(r)
    BY <1>1, <1>8, <1>9, <1>10 DEF b, b2, d2, a2
  <1> DEFINE d == OnDisk(r)
             a == Away(r)
             o == out[r]
  <1> HIDE DEF d, a, o
  <1>13. d \in Nat /\ a \in Nat /\ o \in Nat /\ d2 + f = d + f2 /\ a2 + w = a + w2
    BY <1>5, <1>8, <1>11 DEF d, a, o
  <1>14. (k + b2) + o + d2 + a2 = (k + b) + o + d + a
    BY <1>11, <1>13
  <1> QED BY <1>12, <1>14 DEF d, a, o

LEMMA FinishCopies ==
  ASSUME Typed, Typed', NEW q \in Rep, Finish(q), NEW r \in Rep
  PROVE  Copies(r)' = Copies(r) + IF r = q THEN 1 ELSE 0
  <1>1. /\ q \in running /\ clean' = clean \union {q}
        /\ UNCHANGED <<tmp, at, index, buff, file, net, peer, out>>
    BY DEF Finish, master
  <1>2. q \notin clean
    BY <1>1 DEF Typed, TmpInv
  <1>3. OnDisk(r)' = OnDisk(r)
    <2>1. Sending' <=> Sending
      BY <1>1 DEF Sending
    <2> QED BY <1>1, <2>1, DiskKept
  <1>4. Away(r)' = Away(r)
    BY <1>1, AwayKept
  <1>5. InMemory(r)' = InMemory(r) + IF r = q THEN 1 ELSE 0
    <2>1. /\ InMemory(r) = (IF r \in clean THEN 1 ELSE 0) + Count(r, buff)
          /\ InMemory(r)' = (IF r \in clean' THEN 1 ELSE 0) + Count(r, buff)
          /\ Count(r, buff) \in Nat
      BY <1>1, CountBuff DEF InMemory
    <2>2. r \in clean' <=> r \in clean \/ r = q
      BY <1>1
    <2> QED BY <1>2, <2>1, <2>2
  <1>6. /\ InMemory(r) \in Nat /\ out[r] \in Nat /\ OnDisk(r) \in Nat /\ Away(r) \in Nat
        /\ Copies(r) = InMemory(r) + out[r] + OnDisk(r) + Away(r)
    BY CopiesType
  <1>7. Copies(r)' = InMemory(r)' + out'[r] + OnDisk(r)' + Away(r)'
    BY CopiesNext DEF Typed
  <1> DEFINE k == IF r = q THEN 1 ELSE 0
  <1>8. k \in Nat
    OBVIOUS
  <1>9. Copies(r)' = (InMemory(r) + k) + out[r] + OnDisk(r) + Away(r)
    BY <1>1, <1>3, <1>4, <1>5, <1>7
  <1> HIDE DEF k
  <1>10. Copies(r)' = Copies(r) + k
    BY <1>6, <1>8, <1>9
  <1> QED BY <1>10 DEF k

(* The steps that lose something                                           *)
LEMMA RepsCount ==
  ASSUME NEW s \in Seq(Unit), NEW r \in Rep
  PROVE  Count(r, s) \in Nat /\ (r \in Reps(s) <=> Count(r, s) # 0)
  <1>1. r \in Reps(s) <=> \E k \in 1 .. Len(s) : s[k] = Line(r)
    BY DEF Reps, Range
  <1> QED BY <1>1, CountIs, CountNone

(* Once the connection is gone the file is to be sent again from its       *)
(* beginning: the lines of it that were sent are there once more.          *)
LEMMA DiskAgain ==
  ASSUME Typed, Typed', LinkInv, FileInv, NEW r \in Rep, tmp' = tmp,
         Sending' => Sending /\ file' = file /\ index' = index
  PROVE  /\ OnDisk(r) =< OnDisk(r)' /\ OnDisk(r)' =< OnDisk(r) + 1
         /\ r \in running => OnDisk(r)' = OnDisk(r)
         /\ ~Sending => OnDisk(r)' = OnDisk(r)
  <1>1. OnDisk(r) \in Nat /\ OnDisk(r)' \in Nat
    BY CopiesType, CopiesNext DEF Typed
  <1>2. CASE Sending' <=> Sending
    <2>1. OnDisk(r)' = OnDisk(r)
      BY <1>2, DiskKept
    <2> QED BY <1>1, <2>1
  <1>3. CASE Sending /\ ~Sending'
    <2>1. file # << >> /\ at # NoConn
      BY <1>3 DEF Sending, LinkInv
    <2>2. /\ OnDisk(r)' + Count(r, file) = OnDisk(r) + Count(r, tmp[index])
          /\ Count(r, file) \in Nat /\ Count(r, tmp[index]) \in Nat
      BY <1>3, <2>1, DiskBack
    <2>3. /\ tmp[index] \in Seq(Unit) /\ file \in Seq(Unit)
          /\ LinesBut(tmp[index], running \union clean)
      <3>1. tmp \in Seq(Seq(Unit)) /\ index \in 1 .. Len(tmp)
        BY <2>1 DEF Typed, TmpInv, AgentInv
      <3>2. file \in Seq(Unit) /\ LinesBut(tmp[index], running \union clean)
        BY <3>1 DEF Typed, TmpInv, AgentInv
      <3> QED BY <3>1, <3>2, ElementOfSeq
    <2>4. Count(r, tmp[index]) =< 1
      BY <2>3, CountOnce DEF LinesBut
    <2>5. Count(r, file) =< Count(r, tmp[index])
      <3>1. PICK p \in Seq(Unit) : tmp[index] = p \o file
        BY <2>1 DEF FileInv, EndOf
      <3>2. Count(r, p \o file) = Count(r, p) + Count(r, file) /\ Count(r, p) \in Nat
        BY <2>3, CountConcat, CountIs
      <3> QED BY <2>2, <3>1, <3>2
    <2>6. ASSUME r \in running PROVE Count(r, tmp[index]) = 0
      <3>1. ASSUME NEW k \in 1 .. Len(tmp[index]) PROVE tmp[index][k] # Line(r)
        <4>1. PICK q \in Rep \ (running \union clean) : tmp[index][k] = Line(q)
          BY <2>3 DEF LinesBut
        <4> QED BY <2>6, <4>1 DEF Line
      <3> QED BY <2>3, <3>1, CountNone
    <2> DEFINE f == Count(r, file)
               t == Count(r, tmp[index])
               d == OnDisk(r)
               e == OnDisk(r)'
    <2> HIDE DEF f, t, d, e
    <2>7. /\ f \in Nat /\ t \in Nat /\ d \in Nat /\ e \in Nat
          /\ e + f = d + t /\ t =< 1 /\ f =< t /\ (r \in running => t = 0)
      BY <1>1, <2>2, <2>4, <2>5, <2>6 DEF f, t, d, e
    <2>8. d =< e /\ e =< d + 1 /\ (t = 0 => e = d)
      BY <2>7
    <2> QED BY <1>3, <2>7, <2>8 DEF d, e
  <1> QED BY <1>2, <1>3

LEMMA LossIsBounded ==
  ASSUME Typed, Typed', LinkInv', SentInv', CopyInv, NEW r \in Rep,
         running' = running, out'[r] = out[r],
         InMemory(r)' =< InMemory(r), Away(r)' =< Away(r),
         OnDisk(r) =< OnDisk(r)', OnDisk(r)' =< OnDisk(r) + 1,
         r \in running => OnDisk(r)' = OnDisk(r),
         \/ breaks' = breaks + 1
         \/ breaks' = breaks /\ OnDisk(r)' = OnDisk(r),
         r \notin lost' => /\ r \notin lost
                           /\ \/ (r \in InTmp)'
                              \/ InMemory(r)' = InMemory(r) /\ Away(r)' = Away(r)
  PROVE  CopyOf(r)'
  <1>1. /\ InMemory(r) \in Nat /\ out[r] \in Nat /\ OnDisk(r) \in Nat /\ Away(r) \in Nat
        /\ Copies(r) = InMemory(r) + out[r] + OnDisk(r) + Away(r)
    BY CopiesType
  <1>2. /\ InMemory(r)' \in Nat /\ OnDisk(r)' \in Nat /\ Away(r)' \in Nat
        /\ Copies(r)' = InMemory(r)' + out'[r] + OnDisk(r)' + Away(r)'
    BY CopiesNext DEF Typed
  <1>3. breaks \in Nat /\ CopyOf(r)
    BY DEF CopyInv
  <1>4. (r \in InTmp)' => Copies(r)' >= 1
    BY InTmpNext
  <1> DEFINE m == InMemory(r)
             m2 == InMemory(r)'
             d == OnDisk(r)
             d2 == OnDisk(r)'
             a == Away(r)
             a2 == Away(r)'
             o == out[r]
             n == Copies(r)
             n2 == Copies(r)'
             b2 == breaks'
             far == (r \in InTmp)'
  <1>5. /\ m \in Nat /\ m2 \in Nat /\ d \in Nat /\ d2 \in Nat /\ a \in Nat /\ a2 \in Nat /\ o \in Nat
        /\ n = m + o + d + a /\ n2 = m2 + o + d2 + a2 /\ m2 =< m /\ a2 =< a /\ d =< d2 /\ d2 =< d + 1
    BY <1>1, <1>2
  <1>6. b2 = breaks + 1 \/ (b2 = breaks /\ d2 = d)
    OBVIOUS
  <1>7. (r \in running => d2 = d) /\ (far => n2 >= 1)
    BY <1>4
  <1>8. r \notin lost' => r \notin lost /\ (far \/ (m2 = m /\ a2 = a))
    OBVIOUS
  <1>9. (r \in running)' <=> r \in running
    OBVIOUS
  <1>10. /\ r \in running => n = 0
         /\ r \notin running => n =< 1 + breaks /\ (r \notin lost => n >= 1)
    BY <1>3 DEF CopyOf
  <1> SUFFICES /\ r \in running => n2 = 0
               /\ r \notin running => n2 =< 1 + b2 /\ (r \notin lost' => n2 >= 1)
    <2>1. n2 \in Nat /\ b2 \in Nat
      BY <1>1, <1>2, <1>3
    <2> QED BY <1>9, <2>1 DEF CopyOf
  <1> HIDE DEF m, m2, d, d2, a, a2, o, n, n2, b2, far
  <1>11. n2 =< n + (d2 - d)
    BY <1>5
  <1>12. ASSUME r \in running PROVE n2 = 0
    BY <1>5, <1>7, <1>10, <1>11, <1>12
  <1>13. ASSUME r \notin running PROVE n2 =< 1 + b2
    BY <1>3, <1>5, <1>6, <1>10, <1>11, <1>13
  <1>14. ASSUME r \notin running, r \notin lost' PROVE n2 >= 1
    <2>1. CASE far
      BY <1>7, <2>1
    <2>2. CASE m2 = m /\ a2 = a
      <3>1. n >= 1
        BY <1>8, <1>10, <1>14
      <3> QED BY <1>5, <2>2, <3>1
    <2> QED BY <1>8, <1>14, <2>1, <2>2
  <1> QED BY <1>12, <1>13, <1>14

(* What a connection that is gone takes with it.                           *)
LEMMA AwayLess ==
  ASSUME Typed, Typed', NEW r \in Rep, NEW c \in Conn, peer' = peer,
         net' = [net EXCEPT ![c] = NoNet]
  PROVE  /\ Away(r)' =< Away(r)
         /\ r \notin Reps(net[c].wire) => Away(r)' = Away(r)
  <1>1. net \in [Conn -> Wire] /\ peer \in [Conn -> Side]
    BY NetTyped DEF Typed
  <1>2. net'[c].wire = << >> /\ \A d \in Conn \ {c} : net'[d] = net[d] /\ peer'[d] = peer[d]
    BY <1>1, NoNetIs
  <1> DEFINE w == Count(r, net[c].wire)
             j == peer[c].log[r]
             a == Away(r)
             a2 == Away(r)'
  <1>3. Count(r, net'[c].wire) = 0 /\ peer'[c].log[r] = j
    BY <1>2, CountEmpty
  <1>4. a2 + (w + j) = a + (0 + j)
    <2>1. Away(r)' + (Count(r, net[c].wire) + peer[c].log[r])
             = Away(r) + (Count(r, net'[c].wire) + peer'[c].log[r])
      BY <1>2, AwayAt
    <2> QED BY <1>3, <2>1
  <1>5. w \in Nat /\ j \in Nat
    BY <1>1, AwayType
  <1>6. a \in Nat /\ a2 \in Nat
    BY CopiesType, CopiesNext DEF Typed
  <1>7. r \notin Reps(net[c].wire) => w = 0
    <2>1. net[c].wire \in Seq(Unit)
      BY <1>1 DEF Wire
    <2> QED BY <2>1, RepsCount
  <1> DEFINE gone == r \in Reps(net[c].wire)
  <1> SUFFICES a2 =< a /\ (~gone => a2 = a)
    OBVIOUS
  <1>8. ~gone => w = 0
    BY <1>7
  <1> HIDE DEF w, j, a, a2, gone
  <1> QED BY <1>4, <1>5, <1>6, <1>8

LEMMA DropCopies ==
  ASSUME Typed, Typed', LinkInv, LinkInv', SentInv', CopyInv, NEW r \in Rep, Dump,
         lost' = lost \union clean, UNCHANGED <<tmp, fresh>>
  PROVE  CopyOf(r)'
  <1>1. /\ at = NoConn /\ clean' = {} /\ breaks' = breaks
        /\ UNCHANGED <<running, at, index, buff, file, net, peer, out>>
    BY DEF Dump, master
  <1>2. OnDisk(r)' = OnDisk(r)
    <2>1. Sending' <=> Sending
      BY <1>1 DEF Sending
    <2> QED BY <1>1, <2>1, DiskKept
  <1>3. Away(r)' = Away(r)
    BY <1>1, AwayKept
  <1>4. /\ InMemory(r)' =< InMemory(r)
        /\ r \notin clean => InMemory(r)' = InMemory(r)
    BY <1>1, CountBuff DEF InMemory
  <1>5. OnDisk(r) \in Nat /\ Away(r) \in Nat
    BY CopiesType
  <1>6. r \notin lost' => r \notin lost /\ r \notin clean
    OBVIOUS
  <1>7. OnDisk(r) =< OnDisk(r)' /\ OnDisk(r)' =< OnDisk(r) + 1 /\ Away(r)' =< Away(r)
    BY <1>2, <1>3, <1>5
  <1> QED BY <1>1, <1>2, <1>3, <1>4, <1>6, <1>7, LossIsBounded

LEMMA CloseCopies ==
  ASSUME Typed, Typed', LinkInv, LinkInv', SentInv', CopyInv, NEW r \in Rep, Close
  PROVE  CopyOf(r)'
  <1>1. /\ net[at].st # "up" /\ buff' = << >> /\ file' = << >> /\ breaks' = breaks
        /\ lost' = lost \union Reps(buff)
        /\ UNCHANGED <<running, clean, tmp, net, peer, out>>
    BY DEF Close, master
  <1>2. OnDisk(r)' = OnDisk(r)
    <2>1. ~Sending /\ ~Sending'
      BY <1>1 DEF Sending
    <2> QED BY <1>1, <2>1, DiskKept
  <1>3. Away(r)' = Away(r)
    BY <1>1, AwayKept
  <1>4. /\ InMemory(r)' =< InMemory(r)
        /\ r \notin Reps(buff) => InMemory(r)' = InMemory(r)
    <2>1. Count(r, buff) \in Nat /\ (r \notin Reps(buff) => Count(r, buff) = 0)
      BY CountBuff, RepsCount
    <2> QED BY <1>1, <2>1, CountEmpty DEF InMemory
  <1>5. OnDisk(r) \in Nat /\ Away(r) \in Nat
    BY CopiesType
  <1>6. r \notin lost' => r \notin lost /\ r \notin Reps(buff)
    BY <1>1
  <1>7. OnDisk(r) =< OnDisk(r)' /\ OnDisk(r)' =< OnDisk(r) + 1 /\ Away(r)' =< Away(r)
    BY <1>2, <1>3, <1>5
  <1> QED BY <1>1, <1>2, <1>3, <1>4, <1>6, <1>7, LossIsBounded

LEMMA DeathCopies ==
  ASSUME Typed, Typed', LinkInv, LinkInv', FileInv, SentInv', CopyInv, NEW r \in Rep, AgentDies
  PROVE  CopyOf(r)'
  <1>1. /\ clean' = {} /\ buff' = << >> /\ file' = << >> /\ breaks' = breaks + 1
        /\ lost' = lost \union clean \union Reps(buff)
        /\ UNCHANGED <<running, tmp, peer, out>>
    BY DEF AgentDies, master
  <1>2. ~Sending'
    BY <1>1 DEF Sending
  <1>3. /\ OnDisk(r) =< OnDisk(r)' /\ OnDisk(r)' =< OnDisk(r) + 1
        /\ r \in running => OnDisk(r)' = OnDisk(r)
    BY <1>1, <1>2, DiskAgain
  <1>4. Away(r)' = Away(r)
    <2>1. ASSUME NEW c \in Conn PROVE net'[c].wire = net[c].wire
      <3>1. /\ net'[c] = IF c = at /\ net[c].st = "up" THEN [net[c] EXCEPT !.st = "half"] ELSE net[c]
            /\ net[c] \in Wire
        BY DEF AgentDies, Typed, NetInv, Wire
      <3> QED BY <3>1 DEF Wire
    <2> QED BY <1>1, <2>1, AwayKept
  <1>5. /\ InMemory(r)' =< InMemory(r)
        /\ r \notin clean /\ r \notin Reps(buff) => InMemory(r)' = InMemory(r)
    <2>1. Count(r, buff) \in Nat /\ (r \notin Reps(buff) => Count(r, buff) = 0)
      BY CountBuff, RepsCount
    <2> QED BY <1>1, <2>1, CountEmpty DEF InMemory
  <1>6. r \notin lost' => r \notin lost /\ r \notin clean /\ r \notin Reps(buff)
    BY <1>1
  <1>7. Away(r)' =< Away(r)
    <2>1. Away(r) \in Nat
      BY CopiesType
    <2> QED BY <1>4, <2>1
  <1> QED BY <1>1, <1>3, <1>4, <1>5, <1>6, <1>7, LossIsBounded

LEMMA BreakCopies ==
  ASSUME Typed, Typed', LinkInv, LinkInv', FileInv, SentInv', CopyInv, NEW r \in Rep,
         NEW c \in Conn, Break(c) \/ RecvBad(c)
  PROVE  CopyOf(r)'
  <1>1. /\ breaks' = breaks + 1 /\ net' = [net EXCEPT ![c] = NoNet]
        /\ lost' = lost \union (Reps(net[c].wire) \ InTmp)
        /\ UNCHANGED <<running, clean, tmp, at, index, buff, file, peer, out>>
    BY DEF Break, RecvBad, Dropped, agent, master
  <1>2. Sending' => Sending
    <2>1. net \in [Conn -> Wire]
      BY NetTyped DEF Typed
    <2>2. at \in Conn \union {NoConn} /\ (at = NoConn => file = << >>)
      BY DEF Typed, AgentInv, LinkInv
    <2>3. at \in Conn => (net'[at].st = "up" => net[at].st = "up")
      BY <1>1, <2>1, NoNetIs
    <2> QED BY <1>1, <2>2, <2>3 DEF Sending
  <1>3. /\ OnDisk(r) =< OnDisk(r)' /\ OnDisk(r)' =< OnDisk(r) + 1
        /\ r \in running => OnDisk(r)' = OnDisk(r)
    BY <1>1, <1>2, DiskAgain
  <1>4. /\ Away(r)' =< Away(r)
        /\ r \notin Reps(net[c].wire) => Away(r)' = Away(r)
    BY <1>1, AwayLess
  <1>5. InMemory(r)' = InMemory(r) /\ InMemory(r) \in Nat
    BY <1>1, CopiesType DEF InMemory
  <1>6. InMemory(r)' =< InMemory(r)
    BY <1>5
  <1>7. r \notin lost' => r \notin lost /\ (r \notin Reps(net[c].wire) \/ (r \in InTmp)')
    <2>1. (r \in InTmp)' <=> r \in InTmp
      BY <1>1 DEF InTmp
    <2> QED BY <1>1, <2>1
  <1> QED BY <1>1, <1>3, <1>4, <1>5, <1>6, <1>7, LossIsBounded

LEMMA MasterCopies ==
  ASSUME Typed, Typed', LinkInv, LinkInv', FileInv, SentInv', CopyInv, NEW r \in Rep, MasterDies
  PROVE  CopyOf(r)'
  <1>1. /\ breaks' = breaks + 1 /\ net' = [c \in Conn |-> NoNet] /\ peer' = [c \in Conn |-> NoPeer]
        /\ lost' = lost \union (UNION {Reps(net[c].wire) \ InTmp : c \in Conn})
                        \union {q \in Rep \ InTmp : \E c \in Conn : peer[c].log[q] > 0}
        /\ UNCHANGED <<running, clean, tmp, at, index, buff, file, out>>
    BY DEF MasterDies, Dropped, agent
  <1>2. ~Sending'
    <2>1. at \in Conn \union {NoConn} /\ (at = NoConn => file = << >>)
      BY DEF Typed, AgentInv, LinkInv
    <2>2. at \in Conn => net'[at].st # "up"
      BY <1>1, NoNetIs
    <2> QED BY <1>1, <2>1, <2>2 DEF Sending
  <1>3. /\ OnDisk(r) =< OnDisk(r)' /\ OnDisk(r)' =< OnDisk(r) + 1
        /\ r \in running => OnDisk(r)' = OnDisk(r)
    BY <1>1, <1>2, DiskAgain
  <1>4. Away(r)' = 0
    <2>1. \A c \in Conn : Count(r, net'[c].wire) = 0 /\ peer'[c].log[r] = 0
      BY <1>1, NoNetIs, CountEmpty DEF NoPeer, NoLog
    <2>2. \A c \in Conn : AwayOf(r, net', peer')[c] = 0
      BY <2>1 DEF AwayOf
    <2>3. DOMAIN AwayOf(r, net', peer') = Conn
      BY DEF AwayOf
    <2> QED BY <2>2, <2>3, TotalNothing DEF Away
  <1>5. InMemory(r)' = InMemory(r) /\ InMemory(r) \in Nat /\ Away(r) \in Nat
    BY <1>1, CopiesType DEF InMemory
  <1>6. InMemory(r)' =< InMemory(r) /\ Away(r)' =< Away(r)
    BY <1>4, <1>5
  <1>7. ASSUME r \notin lost' PROVE r \notin lost /\ ((r \in InTmp)' \/ Away(r)' = Away(r))
    <2>1. (r \in InTmp)' <=> r \in InTmp
      BY <1>1 DEF InTmp
    <2>2. CASE r \in InTmp
      BY <1>1, <1>7, <2>1, <2>2
    <2>3. CASE r \notin InTmp
      <3>1. \A c \in Conn : r \notin Reps(net[c].wire) /\ ~(peer[c].log[r] > 0)
        BY <1>1, <1>7, <2>3
      <3>2. net \in [Conn -> Wire] /\ peer \in [Conn -> Side]
        BY NetTyped DEF Typed
      <3>3. ASSUME NEW c \in Conn PROVE Count(r, net[c].wire) = 0 /\ peer[c].log[r] = 0
        <4>1. net[c].wire \in Seq(Unit) /\ peer[c].log[r] \in Nat
          BY <3>2 DEF Wire, Side
        <4>2. Count(r, net[c].wire) = 0
          BY <3>1, <4>1, RepsCount
        <4>3. peer[c].log[r] = 0
          BY <3>1, <4>1
        <4> QED BY <4>2, <4>3
      <3>4. \A c \in Conn : AwayOf(r, net, peer)[c] = 0
        BY <3>3 DEF AwayOf
      <3>5. DOMAIN AwayOf(r, net, peer) = Conn
        BY DEF AwayOf
      <3>6. Away(r) = 0
        BY <3>4, <3>5, TotalNothing DEF Away
      <3> QED BY <1>1, <1>4, <1>7, <3>6
    <2> QED BY <2>2, <2>3
  <1> QED BY <1>1, <1>3, <1>5, <1>6, <1>7, LossIsBounded

(* The invariant                                                           *)
LEMMA SameCopies ==
  ASSUME NEW r, running' = running, lost' = lost, breaks' = breaks,
         Copies(r)' = Copies(r), CopyOf(r)
  PROVE  CopyOf(r)'
  BY DEF CopyOf

LEMMA CopyStep ==
  ASSUME Typed, Typed', LinkInv, LinkInv', FileInv, SentInv', CopyInv, ReportNext
  PROVE  CopyInv'
  <1>1. breaks' \in Nat
    <2>1. breaks' = breaks \/ breaks' = breaks + 1
      BY DEF ReportNext, Finish, TurnOfHour, Dump, NextFile, Scan, Heartbeat, Send, Answer,
         PartOfCommand, Close, AgentDies, Connect, Break, FiniConn, Interval, RecvHead, RecvBody,
         RecvBad, Command, MasterDies, history
    <2> QED BY <2>1 DEF CopyInv
  <1>2. ASSUME NEW r \in Rep PROVE CopyOf(r)'
    <2>1. CopyOf(r) /\ breaks \in Nat
      BY DEF CopyInv
    <2>2. CASE \E q \in Rep : Finish(q)
      <3>1. PICK q \in Rep : Finish(q)
        BY <2>2
      <3>2. Copies(r)' = Copies(r) + IF r = q THEN 1 ELSE 0
        BY <3>1, FinishCopies
      <3>3. q \in running /\ running' = running \ {q} /\ lost' = lost /\ breaks' = breaks
        BY <3>1 DEF Finish, history
      <3>4. Copies(r) \in Nat
        BY CopiesType
      <3>5. CASE r = q
        <4>1. Copies(r)' = 1 /\ r \notin running'
          BY <2>1, <3>2, <3>3, <3>5 DEF CopyOf
        <4>2. 1 \in (IF r \in lost' THEN 0 ELSE 1) .. (1 + breaks')
          BY <2>1, <3>3
        <4> QED BY <4>1, <4>2 DEF CopyOf
      <3>6. CASE r # q
        <4>1. Copies(r)' = Copies(r) /\ (r \in running' <=> r \in running)
          BY <3>2, <3>3, <3>4, <3>6
        <4> QED BY <2>1, <3>3, <4>1 DEF CopyOf
      <3> QED BY <3>5, <3>6
    <2>3. CASE TurnOfHour \/ PartOfCommand \/ Heartbeat \/ Answer \/ \E c \in Conn : Command(c)
      <3>1. running' = running /\ lost' = lost /\ breaks' = breaks
        BY <2>3 DEF TurnOfHour, PartOfCommand, Heartbeat, Answer, Command, agent, history
      <3> QED BY <2>1, <2>3, <3>1, QuietCopies, SameCopies
    <2>4. CASE NextFile \/ Scan
      <3>1. running' = running /\ lost' = lost /\ breaks' = breaks
        BY <2>4 DEF NextFile, Scan, history
      <3> QED BY <2>1, <2>4, <3>1, FileCopies, ScanCopies, SameCopies
    <2>5. CASE \E n \in 1 .. Len(buff \o file) : Send(n)
      <3>1. running' = running /\ lost' = lost /\ breaks' = breaks
        BY <2>5 DEF Send, history
      <3> QED BY <2>1, <2>5, <3>1, SendCopies, SameCopies
    <2>6. CASE \E c \in Conn : \/ Connect(c) \/ FiniConn(c) \/ Interval(c)
                               \/ RecvHead(c) \/ RecvBody(c)
      <3>1. running' = running /\ lost' = lost /\ breaks' = breaks
        BY <2>6 DEF Connect, FiniConn, Interval, RecvHead, RecvBody, agent, history
      <3> QED BY <2>1, <2>6, <3>1, ConnectCopies, LogCopies, RecvCopies, SameCopies
    <2>7. CASE Dump
      <3>1. CASE lost' = lost \union clean /\ UNCHANGED <<tmp, fresh>>
        BY <2>7, <3>1, DropCopies
      <3>2. CASE ~(lost' = lost \union clean /\ UNCHANGED <<tmp, fresh>>)
        <4>1. running' = running /\ lost' = lost /\ breaks' = breaks
          BY <2>7, <3>2 DEF Dump
        <4>2. Copies(r)' = Copies(r)
          BY <2>7, <3>2, DumpCopies
        <4> QED BY <2>1, <4>1, <4>2, SameCopies
      <3> QED BY <3>1, <3>2
    <2>8. CASE Close
      BY <2>8, CloseCopies
    <2>9. CASE AgentDies
      BY <2>9, DeathCopies
    <2>10. CASE \E c \in Conn : Break(c) \/ RecvBad(c)
      BY <2>10, BreakCopies
    <2>11. CASE MasterDies
      BY <2>11, MasterCopies
    <2> QED BY <2>2, <2>3, <2>4, <2>5, <2>6, <2>7, <2>8, <2>9, <2>10, <2>11 DEF ReportNext
  <1> QED BY <1>1, <1>2 DEF CopyInv

LEMMA InitCopies == ReportInit => LinkInv /\ FileInv /\ SentInv /\ CopyInv
  <1> SUFFICES ASSUME ReportInit PROVE LinkInv /\ FileInv /\ SentInv /\ CopyInv
    OBVIOUS
  <1>1. /\ running = Rep /\ clean = {} /\ tmp = << >> /\ buff = << >> /\ file = << >>
        /\ net = [c \in Conn |-> NoNet] /\ peer = [c \in Conn |-> NoPeer] /\ out = NoLog
        /\ breaks = 0
    BY DEF ReportInit
  <1>2. LinkInv
    BY <1>1, NoNetIs DEF LinkInv, NoPeer
  <1>3. ~Sending
    BY <1>1 DEF Sending
  <1>4. FileInv /\ SentInv
    BY <1>1, <1>3 DEF FileInv, SentInv
  <1>5. ASSUME NEW r \in Rep PROVE Copies(r) = 0
    <2>1. InMemory(r) = 0
      BY <1>1, CountEmpty DEF InMemory
    <2>2. out[r] = 0
      BY <1>1 DEF NoLog
    <2>3. OnDisk(r) = 0
      <3>1. DOMAIN KeptOf(r, tmp, Sending, file, index) = {}
        BY <1>1 DEF KeptOf
      <3> QED BY <3>1, TotalNothing DEF OnDisk
    <2>4. Away(r) = 0
      <3>1. \A c \in Conn : AwayOf(r, net, peer)[c] = 0
        BY <1>1, NoNetIs, CountEmpty DEF AwayOf, NoPeer, NoLog
      <3>2. DOMAIN AwayOf(r, net, peer) = Conn
        BY DEF AwayOf
      <3> QED BY <3>1, <3>2, TotalNothing DEF Away
    <2>5. Typed
      BY InitRep DEF RepInv, Typed
    <2> QED BY <2>1, <2>2, <2>3, <2>4, <2>5, CopiesType
  <1>6. CopyInv
    BY <1>1, <1>5 DEF CopyInv, CopyOf
  <1> QED BY <1>2, <1>4, <1>6

CopiesInv == LinkInv /\ FileInv /\ SentInv /\ CopyInv

LEMMA CopiesStep ==
  RepInv /\ RepInv' /\ CopiesInv /\ [ReportNext]_reportVars => CopiesInv'
  <1> SUFFICES ASSUME RepInv, RepInv', CopiesInv, [ReportNext]_reportVars PROVE CopiesInv'
    OBVIOUS
  <1>1. LinkInv /\ FileInv /\ SentInv /\ CopyInv
    BY DEF CopiesInv
  <1>2. TmpInv /\ AgentInv /\ NetInv /\ NetInv' /\ Typed /\ Typed'
    BY DEF RepInv, Typed
  <1>3. CASE ReportNext
    <2>1. LinkInv' /\ FileInv' /\ SentInv'
      BY <1>1, <1>2, <1>3, LinkStep, FileStep, SentStep
    <2>2. CopyInv'
      BY <1>1, <1>2, <1>3, <2>1, CopyStep
    <2> QED BY <2>1, <2>2 DEF CopiesInv
  <1>4. CASE UNCHANGED reportVars
    <2>1. /\ UNCHANGED <<running, clean, tmp, fresh, at, index, buff, file, outdata>>
          /\ UNCHANGED <<net, peer, out, lost, breaks>>
      BY <1>4 DEF reportVars, agent
    <2>2. LinkInv'
      BY <1>1, <2>1 DEF LinkInv
    <2>3. FileInv'
      BY <1>1, <2>1 DEF FileInv
    <2>4. SentInv'
      BY <1>1, <2>1 DEF SentInv, Sending, StillThere
    <2>5. CopyInv'
      <3>1. ASSUME NEW r \in Rep PROVE CopyOf(r)'
        <4>1. Copies(r)' = Copies(r)
          BY <2>1 DEF Copies, Rest
        <4> QED BY <1>1, <2>1, <4>1, SameCopies DEF CopyInv
      <3> QED BY <1>1, <2>1, <3>1 DEF CopyInv
    <2> QED BY <2>2, <2>3, <2>4, <2>5 DEF CopiesInv
  <1> QED BY <1>3, <1>4

LEMMA CopiesInvImplies == CopiesInv => CopiesBounded
  BY DEF CopiesInv, CopyInv, CopyOf, CopiesBounded

(* No line is reported twice unless something breaks (do_send,             *)
(* rm_last_send_file, scantmpdir; svc_finiconn, check_close_local): each   *)
(* break and each death makes at most one more copy of a line, and a line  *)
(* of a finished task that is nowhere was in memory when something died.   *)
THEOREM CopiesAreBounded == ReportSpec => []CopiesBounded
  <1>1. ReportInit => CopiesInv
    BY InitCopies DEF CopiesInv
  <1> QED BY <1>1, CopiesStep, CopiesInvImplies, ReportInvariance, PTL DEF ReportSpec
=============================================================================
