---------------------------- MODULE CdcHash_proofs ----------------------------
(***************************************************************************)
(* Theorems about CdcHash: the table in shared memory is sound between any *)
(* two stores of the processes that share it, and it is a map of files.    *)
(***************************************************************************)
EXTENDS CdcHash, WellFoundedInduction, TLAPS

----------------------------------------------------------------------------
(* The invariants                                                          *)

(* Where the three processes are, besides TypeOK.                          *)
Finding == {"find", "update"}
Adding == {"add", "walk", "link", "used", "key"}
TypeInv ==
    /\ node \in [Index -> [k : Key \union {NoKey}, v : Value, next : Index]]
    /\ usedsize \in 0 .. DataSize
    /\ w \in [pc : {"idle", "val"} \union Finding \union Adding,
              key : Key \union {NoKey}, pos : Index]
    /\ IF w.pc = "idle" THEN w = Idle /\ line = NoLine
       ELSE w.key \in Key /\ line \in Report /\ line.key = w.key
    /\ w.pc \in {"link", "used"} => usedsize < DataSize
    /\ d \in [pc : {"idle", "clear"}, pos : Index]
    /\ r \in [pc : {"idle", "find", "read", "done"}, key : Key \union {NoKey},
              pos : Index, got : SUBSET (Key \union {NoKey})]
    /\ r.pc # "idle" => r.key \in Key
    /\ cleared \subseteq Index /\ torn \in BOOLEAN /\ crashes \in Nat

(* A file has one node at most, in the chain of its hash.  Only the daemon *)
(* puts a key into a node: what it finds missing stays missing until it    *)
(* adds it, and what it finds is there or has been emptied.                *)
HasKey(i, k) == node[i].k = k
KeyTable ==
    /\ KeyOnce
    /\ \A i \in Index, k \in Key : HasKey(i, k) => i \in From(Head[k])
KeyWalk ==
    /\ w.pc = "find" =>
         /\ w.pos \in From(Head[w.key])
         /\ \A i \in Index : HasKey(i, w.key) => i \in From(w.pos)
    /\ w.pc \in Adding => \A i \in Index : ~HasKey(i, w.key)
    /\ w.pc \in {"update", "val"} =>
         /\ \A i \in Index : HasKey(i, w.key) => i = w.pos
         /\ node[w.pos].k = w.key \/ (node[w.pos].k = NoKey /\ w.pos \in cleared)

(* However often the daemon was killed, the overflow nodes that were not   *)
(* handed out have no key, and the next of them alone may be linked.  It   *)
(* may be linked to itself, and a walk that comes to it then never ends;   *)
(* what is added is added to a chain that ends.                            *)
Ends(i) == \E j \in From(i) : node[j].next = 0
LinkTable ==
    \A i \in Index :
        /\ node[i].next = 0 \/ node[i].next \in HashSize .. NewIndex
        /\ i >= NewIndex => node[i].k = NoKey /\ node[i].next \in {0, i}
        /\ i > NewIndex => node[i].next = 0
LinkWalk ==
    /\ w.pc = "add" => Ends(Head[w.key])
    /\ w.pc = "walk" => Ends(w.pos)
    /\ w.pc \in {"walk", "link", "used", "key"} => w.pos \in From(Head[w.key])
    /\ w.pc = "link" => node[w.pos].next = 0
    /\ w.pc = "used" => node[w.pos].next = NewIndex
    /\ w.pc = "key" => w.pos < NewIndex /\ node[w.pos].k = NoKey

(* Unless it was killed between its two stores: every link leads to a later*)
(* node, which was handed out, and which nothing else links to.            *)
Top == NewIndex + IF w.pc = "used" THEN 1 ELSE 0
OrderInv ==
    /\ \A i \in Index : node[i].next # 0 => node[i].next > i /\ node[i].next < Top
    /\ \A i, j \in Index : node[i].next = node[j].next /\ i # j => node[i].next = 0
    /\ \A m \in HashSize .. (Top - 1) : \E j \in Index : node[j].next = m
    /\ w.pc \in {"walk", "link"} => w.pos < NewIndex

(* The parts of a value are of the file its node has the key of, unless the*)
(* node has been emptied; and once it has a new key only for as long as the*)
(* daemon has not put the value, or has been killed.                       *)
Hidden(i) == w.pc = "val" /\ w.pos = i
Foreign(i) == \E p \in Part : node[i].v[p].of \notin {node[i].k, NoKey}
ValueInv ==
    /\ \A i \in Index : Foreign(i) =>
            i \in cleared /\ (node[i].k = NoKey \/ crashes > 0 \/ Hidden(i))
    /\ r.pc = "read" => node[r.pos].k = r.key \/ r.pos \in cleared
    /\ ForeignOnlyAfterClear

Tables == KeyTable /\ KeyWalk /\ LinkTable /\ LinkWalk /\ (~torn => OrderInv)
TableInv == TypeInv /\ Tables /\ ValueInv

----------------------------------------------------------------------------
(* Chains                                                                  *)

LEMMA Sizes ==
    /\ HashSize \in Nat /\ HashSize > 0 /\ DataSize \in Nat
    /\ Index = 0 .. (HashSize + DataSize - 1)
    /\ 0 \in Index /\ NoKey \notin Key
    /\ \A k \in Key : Head[k] \in Index /\ Head[k] \in Nat /\ Head[k] < HashSize
  BY TableAssumption, EntryAssumption DEF Index

LEMMA FromSelf == ASSUME NEW i \in Index PROVE i \in From(i)
  BY DEF From

LEMMA FromNext ==
  ASSUME NEW i, NEW j \in From(i), node[j].next # 0, node[j].next \in Index
  PROVE  node[j].next \in From(i)
  BY DEF From, Closed

LEMMA FromLeast ==
  ASSUME NEW i, NEW S \in SUBSET Index, i \in S, Closed(S)
  PROVE  From(i) \subseteq S
  BY DEF From

(* The first node of a chain, and the rest.                                *)
LEMMA FromRest ==
  ASSUME NEW i \in Index, \A j \in Index : node[j].next \in Index
  PROVE  /\ node[i].next = 0 => From(i) = {i}
         /\ node[i].next # 0 => From(i) \subseteq {i} \union From(node[i].next)
  <1>1. i \in From(i)
    BY FromSelf
  <1>2. ASSUME node[i].next = 0 PROVE From(i) \subseteq {i}
    <2>1. Closed({i})
      BY <1>2 DEF Closed
    <2> QED BY <2>1, FromLeast
  <1>3. ASSUME node[i].next # 0 PROVE From(i) \subseteq {i} \union From(node[i].next)
    <2> DEFINE n == node[i].next
               S == {i} \union From(n)
    <2>1. n \in Index /\ n \in From(n)
      BY FromSelf
    <2>2. S \subseteq Index
      BY DEF From
    <2>3. ASSUME NEW m \in S, node[m].next # 0 PROVE node[m].next \in S
      <3>1. CASE m = i
        BY <2>1, <3>1
      <3>2. CASE m \in From(n)
        BY <2>2, <2>3, <3>2, FromNext
      <3> QED BY <3>1, <3>2
    <2>4. Closed(S)
      BY <2>3 DEF Closed
    <2> QED BY <2>2, <2>4, FromLeast
  <1> QED BY <1>1, <1>2, <1>3

(* A chain that is linked further only grows.                              *)
LEMMA FromGrows ==
  ASSUME NEW i, \A m \in Index : node[m].next # 0 => node'[m].next = node[m].next
  PROVE  From(i) \subseteq From(i)'
  <1>1. ASSUME NEW S \in SUBSET Index, Closed(S)' PROVE Closed(S)
    BY <1>1 DEF Closed
  <1> QED BY <1>1 DEF From

LEMMA FromSame ==
  ASSUME NEW i, \A m \in Index : node'[m].next = node[m].next
  PROVE  From(i)' = From(i) /\ (Ends(i)' <=> Ends(i))
  <1>1. ASSUME NEW S \in SUBSET Index PROVE Closed(S)' <=> Closed(S)
    BY DEF Closed
  <1>2. From(i)' = From(i)
    BY <1>1 DEF From
  <1>3. From(i) \subseteq Index
    BY DEF From
  <1> QED BY <1>2, <1>3 DEF Ends

(* The largest node of a chain.                                            *)
LEMMA LargestOf ==
  ASSUME NEW S \in SUBSET Index, S # {}
  PROVE  \E j \in S : \A m \in S : m =< j
  <1> DEFINE n == HashSize + DataSize - 1
             T == {n - m : m \in S}
  <1>1. \A m \in S : m \in Nat /\ m =< n
    BY Sizes
  <1>2. n \in Nat /\ T \subseteq Nat /\ T # {}
    <2>1. n \in Nat
      BY Sizes
    <2>2. \A m \in S : n - m \in Nat
      BY <1>1, <2>1
    <2> QED BY <2>1, <2>2
  <1>3. \E x \in T : \A y \in T : ~ (<<y, x>> \in OpToRel(<, Nat))
    BY <1>2, WFMin, NatLessThanWellFounded, Zenon
  <1>4. PICK x \in T : \A y \in T : ~ (y < x)
    BY <1>2, <1>3, Zenon DEF OpToRel
  <1>5. PICK j \in S : x = n - j
    OBVIOUS
  <1>6. \A m \in S : ~ (n - m < n - j)
    BY <1>4, <1>5
  <1> QED BY <1>1, <1>2, <1>6

LEMMA ChainEnds ==
  ASSUME NEW i \in Index, \A j \in Index : node[j].next \in Index,
         \A j \in Index : node[j].next # 0 => node[j].next > j
  PROVE  Ends(i)
  <1>1. From(i) \in SUBSET Index /\ From(i) # {}
    BY FromSelf DEF From
  <1>2. PICK j \in From(i) : \A m \in From(i) : m =< j
    BY <1>1, LargestOf
  <1>3. j \in Nat /\ j \in Index /\ node[j].next \in Nat
    BY <1>1, Sizes
  <1>4. node[j].next # 0 => node[j].next \in From(i)
    BY <1>1, FromNext
  <1> QED BY <1>2, <1>3, <1>4 DEF Ends

(* Nothing beyond the first node not handed out is on a chain.             *)
LEMMA ChainIsBelow ==
  ASSUME TypeInv, LinkTable, NEW k \in Key
  PROVE  \A i \in From(Head[k]) : i =< NewIndex
  <1> DEFINE S == {i \in Index : i =< NewIndex}
  <1>1. usedsize \in Nat /\ NewIndex \in Nat /\ Head[k] \in Index /\ Head[k] =< NewIndex
    <2>1. usedsize \in Nat
      BY Sizes DEF TypeInv
    <2>2. NewIndex = HashSize + usedsize
      BY DEF NewIndex
    <2> QED BY <2>1, <2>2, Sizes
  <1>2. Closed(S)
    BY <1>1 DEF Closed, LinkTable, TypeInv
  <1>3. From(Head[k]) \subseteq S
    BY <1>1, <1>2, FromLeast
  <1> QED BY <1>3

----------------------------------------------------------------------------
(* What each store does                                                    *)

KVN == [k : Key \union {NoKey}, v : Value, next : Index]

(* What a line does to a value.                                            *)
LEMMA LineIs ==
  ASSUME NEW l \in Report
  PROVE  /\ l # NoLine /\ l.key \in Key
         /\ Own(l) \in [of : {l.key}, t : 0 .. MaxTime] /\ PartOf(l) \in Part
         /\ Rest(l) = NoLine \/ (Rest(l) \in Report /\ Rest(l).key = l.key)
  <1>1. /\ l \in [key : Key, src : 0 .. MaxTime, host : Host \union {NoHost}, mt : 0 .. MaxTime]
        /\ l.host = NoHost => l.src > 0
    BY DEF Report
  <1>2. l.key \in Key /\ NoKey \notin Key /\ MaxTime \in Nat
    BY <1>1, EntryAssumption
  <1>3. l # NoLine
    BY <1>2 DEF NoLine
  <1>4. Own(l) \in [of : {l.key}, t : 0 .. MaxTime] /\ PartOf(l) \in Part
    BY <1>1 DEF Own, PartOf, Part
  <1>5. CASE l.src > 0 /\ l.host # NoHost
    <2>1. Rest(l) = [l EXCEPT !.src = 0]
      BY <1>5 DEF Rest
    <2> QED BY <1>1, <1>2, <1>3, <1>4, <1>5, <2>1 DEF Report
  <1>6. CASE ~(l.src > 0 /\ l.host # NoHost)
    BY <1>2, <1>3, <1>4, <1>6 DEF Rest
  <1> QED BY <1>5, <1>6

LEMMA ValuesOf ==
  ASSUME NEW l \in Report, NEW v \in Value
  PROVE  /\ Created(l) \in Value /\ Changed(v, l) \in Value
         /\ \A p \in Part : /\ Created(l)[p].of \in {NoKey, l.key}
                            /\ Changed(v, l)[p].of \in {v[p].of, l.key}
  <1> DEFINE P == [of : Key \union {NoKey}, t : 0 .. MaxTime]
  <1>1. Own(l) \in P /\ Own(l).of = l.key /\ PartOf(l) \in Part
    BY LineIs
  <1>2. NoPart \in P /\ NoPart.of = NoKey
    BY EntryAssumption DEF NoPart
  <1>3. v \in [Part -> P] /\ Value = [Part -> P]
    BY DEF Value
  <1>4. Zero \in [Part -> P] /\ \A p \in Part : Zero[p].of = NoKey
    BY <1>2 DEF Zero
  <1> HIDE DEF P
  <1>5. ASSUME NEW u \in [Part -> P]
        PROVE  /\ [u EXCEPT ![PartOf(l)] = Own(l)] \in [Part -> P]
               /\ \A p \in Part : [u EXCEPT ![PartOf(l)] = Own(l)][p].of \in {u[p].of, l.key}
    BY <1>1
  <1>6. Created(l) = [Zero EXCEPT ![PartOf(l)] = Own(l)]
    BY DEF Created
  <1>7. Changed(v, l) \in {v, [v EXCEPT ![PartOf(l)] = Own(l)]}
    BY DEF Changed
  <1> QED BY <1>3, <1>4, <1>5, <1>6, <1>7

LEMMA FieldsOf ==
  ASSUME TypeInv, NEW i \in Index
  PROVE  /\ node[i] \in KVN /\ node[i].k \in Key \union {NoKey} /\ node[i].next \in Index
         /\ node[i].v \in Value /\ \A p \in Part : node[i].v[p].of \in Key \union {NoKey}
  <1>1. /\ node[i] \in KVN /\ node[i].k \in Key \union {NoKey} /\ node[i].next \in Index
        /\ node[i].v \in Value
    BY DEF TypeInv, KVN
  <1> QED BY <1>1 DEF Value

LEMMA SeekIs ==
  ASSUME NEW k \in Key
  PROVE  /\ Seek(k).pc = "find" /\ Seek(k).key = k /\ Seek(k).pos = Head[k]
         /\ Seek(k) \in [pc : {"find"}, key : Key, pos : Index]
  BY Sizes DEF Seek

LEMMA IdleIs ==
    /\ Idle.pc = "idle" /\ Idle.key = NoKey /\ Idle.pos = 0
    /\ Idle \in [pc : {"idle"}, key : {NoKey}, pos : Index]
  BY Sizes DEF Idle

(* The daemon is done with a part: there is another, or the line ends.     *)
LEMMA PartDoneDoes ==
  ASSUME TypeInv, w.pc # "idle", PartDone
  PROVE  /\ w.key \in Key /\ line \in Report /\ line.key = w.key /\ line' = Rest(line)
         /\ w'.pc \in {"idle", "find"}
         /\ \/ w' = Idle /\ line' = NoLine
            \/ w' = Seek(w.key) /\ line' \in Report /\ line'.key = w.key /\ line' # NoLine
  <1>1. w.key \in Key /\ line \in Report /\ line.key = w.key
    BY DEF TypeInv
  <1>2. line' = Rest(line) /\ w' = IF Rest(line) = NoLine THEN Idle ELSE Seek(w.key)
    BY DEF PartDone
  <1>3. Idle.pc = "idle" /\ Seek(w.key).pc = "find"
    BY <1>1, IdleIs, SeekIs
  <1> QED BY <1>1, <1>2, <1>3, LineIs

LEMMA PutKey ==
  ASSUME TypeInv, NEW p \in Index, NEW x \in Key \union {NoKey},
         node' = [node EXCEPT ![p].k = x]
  PROVE  /\ node' \in [Index -> KVN] /\ node'[p].k = x
         /\ \A i \in Index : i # p => node'[i].k = node[i].k
         /\ \A i \in Index : node'[i].next = node[i].next /\ node'[i].v = node[i].v
  <1>1. node \in [Index -> KVN]
    BY DEF TypeInv, KVN
  <1>2. node' \in [Index -> KVN]
    BY <1>1 DEF KVN
  <1> QED BY <1>1, <1>2 DEF KVN

LEMMA PutValue ==
  ASSUME TypeInv, NEW p \in Index, NEW x \in Value,
         node' = [node EXCEPT ![p].v = x]
  PROVE  /\ node' \in [Index -> KVN] /\ node'[p].v = x
         /\ \A i \in Index : i # p => node'[i].v = node[i].v
         /\ \A i \in Index : node'[i].next = node[i].next /\ node'[i].k = node[i].k
  <1>1. node \in [Index -> KVN]
    BY DEF TypeInv, KVN
  <1>2. node' \in [Index -> KVN]
    BY <1>1 DEF KVN
  <1> QED BY <1>1, <1>2 DEF KVN

LEMMA PutNext ==
  ASSUME TypeInv, NEW p \in Index, NEW x \in Index,
         node' = [node EXCEPT ![p].next = x]
  PROVE  /\ node' \in [Index -> KVN] /\ node'[p].next = x
         /\ \A i \in Index : i # p => node'[i].next = node[i].next
         /\ \A i \in Index : node'[i].v = node[i].v /\ node'[i].k = node[i].k
  <1>1. node \in [Index -> KVN]
    BY DEF TypeInv, KVN
  <1>2. node' \in [Index -> KVN]
    BY <1>1 DEF KVN
  <1> QED BY <1>1, <1>2 DEF KVN

(* Where a walk goes.                                                      *)
LEMMA WalkOfDaemon ==
  ASSUME TypeInv, FindStep
  PROVE  /\ w.pc = "find" /\ w.key \in Key /\ w'.key = w.key /\ w.pos \in Index
         /\ \/ node[w.pos].k = w.key /\ w'.pc = "update" /\ w'.pos = w.pos
            \/ /\ node[w.pos].k # w.key /\ node[w.pos].next = 0
               /\ w'.pc = "add" /\ w'.pos = w.pos
            \/ /\ node[w.pos].k # w.key /\ node[w.pos].next # 0
               /\ w'.pc = "find" /\ w'.pos = node[w.pos].next
         /\ w' \in [pc : {"find", "update", "add"}, key : Key, pos : Index]
  <1>1. w.pc = "find" /\ w.key \in Key /\ w.pos \in Index /\ node[w.pos].next \in Index
    BY FieldsOf DEF TypeInv, FindStep
  <1>2. w \in [pc : {"find", "update", "add"}, key : Key, pos : Index]
    BY <1>1 DEF TypeInv
  <1>3. w' = Walk(w, "update", "add")
    BY DEF FindStep
  <1>4. CASE node[w.pos].k = w.key
    BY <1>1, <1>2, <1>3, <1>4 DEF Walk
  <1>5. CASE node[w.pos].k # w.key /\ node[w.pos].next = 0
    BY <1>1, <1>2, <1>3, <1>5 DEF Walk
  <1>6. CASE node[w.pos].k # w.key /\ node[w.pos].next # 0
    BY <1>1, <1>2, <1>3, <1>6 DEF Walk
  <1> QED BY <1>4, <1>5, <1>6

LEMMA WalkOfReader ==
  ASSUME TypeInv, AskStep
  PROVE  /\ r.pc = "find" /\ r.key \in Key /\ r'.key = r.key
         /\ r'.pc \in {"find", "read", "idle"}
         /\ r'.pc = "read" => r'.pos = r.pos /\ node[r.pos].k = r.key
         /\ r' \in [pc : {"find", "read", "idle"}, key : Key, pos : Index,
                    got : SUBSET (Key \union {NoKey})]
  <1>1. r.pc = "find" /\ r.key \in Key /\ r.pos \in Index /\ node[r.pos].next \in Index
    BY FieldsOf DEF TypeInv, AskStep
  <1>2. r \in [pc : {"find", "read", "idle"}, key : Key, pos : Index,
               got : SUBSET (Key \union {NoKey})]
    BY <1>1 DEF TypeInv
  <1>3. r' = Walk(r, "read", "idle")
    BY DEF AskStep
  <1>4. CASE node[r.pos].k = r.key
    BY <1>1, <1>2, <1>3, <1>4 DEF Walk
  <1>5. CASE node[r.pos].k # r.key /\ node[r.pos].next = 0
    BY <1>1, <1>2, <1>3, <1>5 DEF Walk
  <1>6. CASE node[r.pos].k # r.key /\ node[r.pos].next # 0
    BY <1>1, <1>2, <1>3, <1>6 DEF Walk
  <1> QED BY <1>4, <1>5, <1>6

LEMMA AddHeadDoes ==
  ASSUME TypeInv, AddHead
  PROVE  /\ w.pc = "add" /\ w.key \in Key /\ w'.key = w.key /\ w'.pos = Head[w.key]
         /\ w'.pc = IF node[Head[w.key]].k = NoKey THEN "key" ELSE "walk"
         /\ w' \in [pc : {"key", "walk"}, key : Key, pos : Index]
  <1>1. w.pc = "add" /\ w.key \in Key /\ Head[w.key] \in Index
    BY Sizes DEF TypeInv, AddHead
  <1>2. w \in [pc : {"add", "key", "walk"}, key : Key, pos : Index]
    BY <1>1 DEF TypeInv
  <1> QED BY <1>1, <1>2 DEF AddHead

LEMMA AddStepDoes ==
  ASSUME TypeInv, AddStep
  PROVE  /\ w.pc = "walk" /\ w.key \in Key /\ w.pos \in Index
         /\ \/ node[w.pos].next = 0 /\ ~Room /\ PartDone
            \/ /\ w'.key = w.key /\ line' = line
               /\ w' \in [pc : {"link", "key", "walk"}, key : Key, pos : Index]
               /\ \/ node[w.pos].next = 0 /\ Room /\ w'.pc = "link" /\ w'.pos = w.pos
                  \/ /\ node[w.pos].next # 0 /\ node[w.pos].k = NoKey
                     /\ w'.pc = "key" /\ w'.pos = w.pos
                  \/ node[w.pos].next # 0 /\ w'.pc = "walk" /\ w'.pos = node[w.pos].next
  <1>1. w.pc = "walk" /\ w.key \in Key /\ w.pos \in Index /\ node[w.pos].next \in Index
    BY FieldsOf DEF TypeInv, AddStep
  <1>2. w \in [pc : {"link", "key", "walk"}, key : Key, pos : Index]
    BY <1>1 DEF TypeInv
  <1>3. CASE node[w.pos].next = 0 /\ ~Room
    BY <1>1, <1>3 DEF AddStep
  <1>4. CASE node[w.pos].next = 0 /\ Room
    BY <1>1, <1>2, <1>4 DEF AddStep
  <1>5. CASE node[w.pos].next # 0 /\ node[w.pos].k = NoKey
    BY <1>1, <1>2, <1>5 DEF AddStep
  <1>6. CASE node[w.pos].next # 0 /\ node[w.pos].k # NoKey
    BY <1>1, <1>2, <1>6 DEF AddStep
  <1> QED BY <1>3, <1>4, <1>5, <1>6

LEMMA NewIsIndex ==
  ASSUME TypeInv
  PROVE  /\ usedsize \in Nat /\ NewIndex \in Nat /\ NewIndex >= HashSize /\ NewIndex # 0
         /\ usedsize < DataSize => NewIndex \in Index
  <1>1. usedsize \in Nat
    BY Sizes DEF TypeInv
  <1> QED BY <1>1, Sizes DEF NewIndex

LEMMA AddLinkDoes ==
  ASSUME TypeInv, AddLink
  PROVE  /\ w.pc = "link" /\ w.key \in Key /\ w.pos \in Index /\ usedsize < DataSize
         /\ w'.pc = "used" /\ w'.key = w.key /\ w'.pos = w.pos
         /\ w' \in [pc : {"used"}, key : Key, pos : Index]
         /\ node' \in [Index -> KVN] /\ node'[w.pos].next = NewIndex
         /\ \A i \in Index : i # w.pos => node'[i].next = node[i].next
         /\ \A i \in Index : node'[i].v = node[i].v /\ node'[i].k = node[i].k
  <1>1. w.pc = "link" /\ w.key \in Key /\ w.pos \in Index /\ usedsize < DataSize
    BY DEF TypeInv, AddLink
  <1>2. w \in [pc : {"link"}, key : Key, pos : Index]
    BY <1>1 DEF TypeInv
  <1>3. NewIndex \in Index
    BY <1>1, NewIsIndex
  <1>4. w' = [w EXCEPT !.pc = "used"] /\ node' = [node EXCEPT ![w.pos].next = NewIndex]
    BY DEF AddLink
  <1> QED BY <1>1, <1>2, <1>3, <1>4, PutNext

LEMMA AddUsedDoes ==
  ASSUME TypeInv, AddUsed
  PROVE  /\ w.pc = "used" /\ w.key \in Key /\ w.pos \in Index /\ usedsize < DataSize
         /\ w'.pc = "key" /\ w'.key = w.key /\ w'.pos = NewIndex
         /\ w' \in [pc : {"key"}, key : Key, pos : Index]
         /\ usedsize' = usedsize + 1 /\ node' = node /\ NewIndex' = NewIndex + 1
  <1>1. w.pc = "used" /\ w.key \in Key /\ w.pos \in Index /\ usedsize < DataSize
    BY DEF TypeInv, AddUsed
  <1>2. w \in [pc : {"used"}, key : Key, pos : Index]
    BY <1>1 DEF TypeInv
  <1>3. NewIndex \in Index
    BY <1>1, NewIsIndex
  <1>4. w' = [w EXCEPT !.pc = "key", !.pos = NewIndex]
    BY DEF AddUsed
  <1>5. usedsize' = usedsize + 1 /\ node' = node
    BY DEF AddUsed, UsedOneMore
  <1>6. NewIndex' = NewIndex + 1
    BY <1>5, NewIsIndex, Sizes DEF NewIndex
  <1> QED BY <1>1, <1>2, <1>3, <1>4, <1>5, <1>6

LEMMA AddKeyDoes ==
  ASSUME TypeInv, AddKey
  PROVE  /\ w.pc = "key" /\ w.key \in Key /\ w.pos \in Index
         /\ w'.pc = "val" /\ w'.key = w.key /\ w'.pos = w.pos
         /\ w' \in [pc : {"val"}, key : Key, pos : Index]
         /\ node' \in [Index -> KVN] /\ node'[w.pos].k = w.key
         /\ \A i \in Index : i # w.pos => node'[i].k = node[i].k
         /\ \A i \in Index : node'[i].next = node[i].next /\ node'[i].v = node[i].v
  <1>1. w.pc = "key" /\ w.key \in Key /\ w.pos \in Index
    BY DEF TypeInv, AddKey
  <1>2. w \in [pc : {"key"}, key : Key, pos : Index]
    BY <1>1 DEF TypeInv
  <1>3. w' = [w EXCEPT !.pc = "val"] /\ node' = [node EXCEPT ![w.pos].k = w.key]
    BY DEF AddKey
  <1> QED BY <1>1, <1>2, <1>3, PutKey

(* The two stores of a value.                                              *)
LEMMA ValueDoes ==
  ASSUME TypeInv, Update \/ AddVal
  PROVE  /\ w.pc \in {"update", "val"} /\ w.key \in Key /\ w.pos \in Index
         /\ line \in Report /\ line.key = w.key /\ PartDone
         /\ node' \in [Index -> KVN]
         /\ node'[w.pos].v = IF w.pc = "val" THEN Created(line)
                             ELSE Changed(node[w.pos].v, line)
         /\ \A i \in Index : i # w.pos => node'[i].v = node[i].v
         /\ \A i \in Index : node'[i].next = node[i].next /\ node'[i].k = node[i].k
         /\ UNCHANGED <<usedsize, d, r, cleared, torn, crashes>>
  <1>1. /\ w.pc \in {"update", "val"} /\ w.key \in Key /\ w.pos \in Index /\ PartDone
        /\ line \in Report /\ line.key = w.key
    BY DEF TypeInv, Update, AddVal
  <1>2. Created(line) \in Value /\ Changed(node[w.pos].v, line) \in Value
    BY <1>1, FieldsOf, ValuesOf
  <1>3. CASE Update
    <2>1. node' = [node EXCEPT ![w.pos].v = Changed(node[w.pos].v, line)] /\ w.pc = "update"
      BY <1>3 DEF Update, PartInPlace
    <2> QED BY <1>1, <1>2, <1>3, <2>1, PutValue DEF Update
  <1>4. CASE AddVal
    <2>1. node' = [node EXCEPT ![w.pos].v = Created(line)] /\ w.pc = "val"
      BY <1>4 DEF AddVal
    <2> QED BY <1>1, <1>2, <1>4, <2>1, PutValue DEF AddVal
  <1> QED BY <1>3, <1>4

LEMMA ClearDoes ==
  ASSUME TypeInv, Clear
  PROVE  /\ d.pos \in Index /\ d' \in [pc : {"idle", "clear"}, pos : Index]
         /\ node' \in [Index -> KVN] /\ node'[d.pos].k = NoKey
         /\ \A i \in Index : i # d.pos => node'[i].k = node[i].k
         /\ \A i \in Index : node'[i].next = node[i].next /\ node'[i].v = node[i].v
         /\ cleared' = cleared \union {d.pos}
         /\ UNCHANGED <<usedsize, w, line, r, torn, crashes>>
  <1>1. d.pos \in Index
    BY DEF TypeInv
  <1>2. node' = [node EXCEPT ![d.pos].k = NoKey]
    BY <1>1 DEF Clear, ZeroKey, TypeInv
  <1>3. /\ node' \in [Index -> KVN] /\ node'[d.pos].k = NoKey
        /\ \A i \in Index : i # d.pos => node'[i].k = node[i].k
        /\ \A i \in Index : node'[i].next = node[i].next /\ node'[i].v = node[i].v
    BY <1>1, <1>2, PutKey
  <1>4. /\ d' \in [pc : {"idle", "clear"}, pos : Index]
        /\ cleared' = cleared \union {d.pos} /\ UNCHANGED <<usedsize, w, line, r, torn, crashes>>
    BY Sizes DEF Clear
  <1> QED BY <1>1, <1>3, <1>4

----------------------------------------------------------------------------
(* The types                                                               *)

LEMMA TypeAtFirst == Init => TypeInv
  <1> SUFFICES ASSUME Init PROVE TypeInv
    OBVIOUS
  <1>1. Zero \in Value
    BY EntryAssumption DEF Zero, NoPart, Value
  <1>2. node \in [Index -> [k : Key \union {NoKey}, v : Value, next : Index]]
    BY <1>1, Sizes DEF Init
  <1>3. /\ w = Idle /\ w \in [pc : {"idle", "val"} \union Finding \union Adding,
                              key : Key \union {NoKey}, pos : Index]
        /\ w.pc = "idle" /\ line = NoLine
    BY IdleIs DEF Init, Idle
  <1>4. /\ r \in [pc : {"idle", "find", "read", "done"}, key : Key \union {NoKey},
                  pos : Index, got : SUBSET (Key \union {NoKey})]
        /\ r.pc = "idle"
    BY Sizes DEF Init
  <1>5. d \in [pc : {"idle", "clear"}, pos : Index] /\ usedsize \in 0 .. DataSize
    BY Sizes DEF Init
  <1>6. cleared \subseteq Index /\ torn \in BOOLEAN /\ crashes \in Nat
    BY DEF Init
  <1> QED BY <1>2, <1>3, <1>4, <1>5, <1>6 DEF TypeInv

LEMMA TypeKept == TypeInv /\ [Next]_vars => TypeInv'
  <1> SUFFICES ASSUME TypeInv, [Next]_vars PROVE TypeInv'
    OBVIOUS
  <1> DEFINE WType == /\ w \in [pc : {"idle", "val"} \union Finding \union Adding,
                                key : Key \union {NoKey}, pos : Index]
                      /\ IF w.pc = "idle" THEN w = Idle /\ line = NoLine
                         ELSE w.key \in Key /\ line \in Report /\ line.key = w.key
                      /\ w.pc \in {"link", "used"} => usedsize < DataSize
             RType == /\ r \in [pc : {"idle", "find", "read", "done"},
                                key : Key \union {NoKey}, pos : Index,
                                got : SUBSET (Key \union {NoKey})]
                      /\ r.pc # "idle" => r.key \in Key
             DType == /\ d \in [pc : {"idle", "clear"}, pos : Index]
                      /\ cleared \subseteq Index
             NType == node \in [Index -> KVN] /\ usedsize \in 0 .. DataSize
             CType == torn \in BOOLEAN /\ crashes \in Nat
  <1>1. WType /\ RType /\ DType /\ NType /\ CType
    BY DEF TypeInv, KVN
  <1>2. (WType /\ RType /\ DType /\ NType /\ CType)' => TypeInv'
    BY DEF TypeInv, KVN
  <1>3. w' = Idle /\ line' = NoLine => WType'
    BY IdleIs
  <1>4. ASSUME NEW l \in Report, w' = Seek(l.key), line' = l PROVE WType'
    BY <1>4, LineIs, SeekIs DEF Finding, Adding
  <1>19. ASSUME w.pc # "idle", PartDone PROVE WType'
    <2>1. CASE w' = Idle /\ line' = NoLine
      BY <1>3, <2>1
    <2>2. CASE w' = Seek(w.key) /\ line' \in Report /\ line'.key = w.key
      BY <1>4, <2>2
    <2> QED BY <1>19, <2>1, <2>2, PartDoneDoes
  <1>20. ASSUME NEW l \in Report, Line(l) PROVE TypeInv'
    <2>1. WType'
      BY <1>4, <1>20 DEF Line
    <2> QED BY <1>1, <1>2, <1>20, <2>1 DEF Line
  <1>5. ASSUME NEW k \in Key, Ask(k) PROVE TypeInv'
    <2>1. r' \in [pc : {"find"}, key : Key, pos : Index, got : SUBSET (Key \union {NoKey})]
      BY <1>5, Sizes DEF Ask
    <2>2. RType'
      BY <2>1
    <2> QED BY <1>1, <1>2, <1>5, <2>2 DEF Ask
  <1>6. CASE FindStep
    <2>1. line' = line
      BY <1>6 DEF FindStep
    <2>2. WType'
      BY <1>1, <1>6, <2>1, WalkOfDaemon DEF Finding, Adding
    <2> QED BY <1>1, <1>2, <1>6, <2>2 DEF FindStep
  <1>7. CASE Update \/ AddVal
    <2>1. /\ w.pc # "idle" /\ PartDone /\ node' \in [Index -> KVN]
          /\ UNCHANGED <<usedsize, d, r, cleared, torn, crashes>>
      BY <1>7, ValueDoes
    <2>2. WType' /\ NType'
      BY <1>1, <1>19, <2>1
    <2> QED BY <1>1, <1>2, <2>1, <2>2
  <1>8. CASE AddHead
    <2>1. line' = line
      BY <1>8 DEF AddHead
    <2>2. WType'
      BY <1>1, <1>8, <2>1, AddHeadDoes DEF Adding
    <2> QED BY <1>1, <1>2, <1>8, <2>2 DEF AddHead
  <1>9. CASE AddStep
    <2>1. usedsize' = usedsize
      BY <1>9 DEF AddStep
    <2>2. WType'
      BY <1>1, <1>9, <1>19, <2>1, AddStepDoes DEF Adding, Room
    <2> QED BY <1>1, <1>2, <1>9, <2>2 DEF AddStep
  <1>10. CASE AddLink
    <2>1. usedsize' = usedsize /\ line' = line
      BY <1>10 DEF AddLink
    <2>2. WType' /\ NType'
      BY <1>1, <1>10, <2>1, AddLinkDoes DEF Adding
    <2> QED BY <1>1, <1>2, <1>10, <2>2 DEF AddLink
  <1>11. CASE AddUsed
    <2>1. usedsize' \in 0 .. DataSize
      BY <1>1, <1>11, AddUsedDoes, NewIsIndex, Sizes
    <2>2. WType' /\ NType'
      <3>1. line' = line
        BY <1>11 DEF AddUsed
      <3> QED BY <1>1, <1>11, <2>1, <3>1, AddUsedDoes DEF Adding
    <2> QED BY <1>1, <1>2, <1>11, <2>2 DEF AddUsed
  <1>12. CASE AddKey
    <2>1. usedsize' = usedsize /\ line' = line
      BY <1>12 DEF AddKey
    <2>2. WType' /\ NType'
      BY <1>1, <1>12, <2>1, AddKeyDoes
    <2> QED BY <1>1, <1>2, <1>12, <2>2 DEF AddKey
  <1>13. CASE Crash
    <2>1. /\ w' = Idle /\ line' = NoLine /\ CType'
          /\ UNCHANGED <<node, usedsize, d, r, cleared>>
      BY <1>1, <1>13 DEF Crash
    <2>2. WType'
      BY <1>3, <2>1
    <2> QED BY <1>1, <1>2, <2>1, <2>2
  <1>14. CASE Choose
    <2>1. PICK i \in 0 .. (HashSize + usedsize - 1) : d' = [pc |-> "clear", pos |-> i]
      BY <1>14 DEF Choose
    <2>2. i \in Index
      BY <1>1, Sizes
    <2>3. DType'
      BY <1>1, <1>14, <2>1, <2>2 DEF Choose
    <2> QED BY <1>1, <1>2, <1>14, <2>3 DEF Choose
  <1>15. CASE Clear
    <2>1. DType' /\ NType' /\ UNCHANGED <<w, line, r, torn, crashes, usedsize>>
      BY <1>1, <1>15, ClearDoes
    <2> QED BY <1>1, <1>2, <2>1
  <1>16. CASE AskStep
    <2>1. RType'
      BY <1>16, WalkOfReader
    <2> QED BY <1>1, <1>2, <1>16, <2>1 DEF AskStep
  <1>17. CASE Read
    <2>1. {node[r.pos].v[p].of : p \in Part} \in SUBSET (Key \union {NoKey})
      BY FieldsOf DEF TypeInv
    <2>2. RType'
      BY <1>1, <1>17, <2>1 DEF Read
    <2> QED BY <1>1, <1>2, <1>17, <2>2 DEF Read
  <1>18. CASE UNCHANGED vars
    BY <1>18 DEF vars, TypeInv
  <1> QED BY <1>5, <1>6, <1>7, <1>8, <1>9, <1>10, <1>11, <1>12, <1>13, <1>14, <1>20,
             <1>15, <1>16, <1>17, <1>18 DEF Next, Daemon

----------------------------------------------------------------------------
(* The keys and the links                                                  *)

LEMMA TablesAtFirst == Init => Tables
  <1> SUFFICES ASSUME Init PROVE Tables
    OBVIOUS
  <1>1. w.pc = "idle" /\ usedsize = 0 /\ NewIndex = HashSize /\ Top = HashSize
    BY Sizes, IdleIs DEF Init, NewIndex, Top
  <1>2. \A i \in Index : node[i].k = NoKey /\ node[i].next = 0
    BY DEF Init
  <1>3. KeyTable /\ KeyWalk
    BY <1>1, <1>2, Sizes DEF KeyTable, KeyWalk, KeyOnce, HasKey, Adding
  <1>4. LinkTable /\ LinkWalk
    BY <1>1, <1>2 DEF LinkTable, LinkWalk
  <1>5. HashSize .. (Top - 1) = {}
    BY <1>1, Sizes
  <1>6. OrderInv
    BY <1>1, <1>2, <1>5 DEF OrderInv
  <1> QED BY <1>3, <1>4, <1>6 DEF Tables

LEMMA StartOf ==
  ASSUME NEW i, w'.pos = i
  PROVE  From(w.pos)' = From(i)' /\ (Ends(w.pos)' <=> Ends(i)')
  <1>1. From(w.pos)' = From(i)'
    BY DEF From
  <1> QED BY <1>1 DEF Ends

LEMMA HeadOf ==
  ASSUME NEW k, w'.key = k
  PROVE  From(Head[w.key])' = From(Head[k])' /\ (Ends(Head[w.key])' <=> Ends(Head[k])')
  <1>1. From(Head[w.key])' = From(Head[k])'
    BY DEF From
  <1> QED BY <1>1 DEF Ends

(* A step that leaves the keys and the links as they are.                  *)
LEMMA TableStays ==
  ASSUME TypeInv, KeyTable, LinkTable, usedsize' = usedsize,
         \A i \in Index : node'[i].k = node[i].k /\ node'[i].next = node[i].next
  PROVE  /\ KeyTable' /\ LinkTable' /\ NewIndex' = NewIndex
         /\ \A i \in Index : From(i)' = From(i) /\ (Ends(i)' <=> Ends(i))
  <1>1. \A i \in Index : From(i)' = From(i) /\ (Ends(i)' <=> Ends(i))
    BY FromSame
  <1>2. NewIndex' = NewIndex
    BY DEF NewIndex
  <1>3. KeyOnce'
    BY DEF KeyTable, KeyOnce
  <1>4. \A k \in Key : From(Head[k])' = From(Head[k])
    BY <1>1, Sizes
  <1>5. KeyTable'
    BY <1>3, <1>4 DEF KeyTable, HasKey
  <1>6. LinkTable'
    BY <1>2 DEF LinkTable
  <1> QED BY <1>1, <1>2, <1>5, <1>6

LEMMA OrderStays ==
  ASSUME OrderInv, usedsize' = usedsize, w.pc # "used", w'.pc # "used",
         \A i \in Index : node'[i].next = node[i].next,
         w'.pc \in {"walk", "link"} => w'.pos < NewIndex
  PROVE  OrderInv'
  <1>1. NewIndex' = NewIndex
    BY DEF NewIndex
  <1>2. Top' = Top
    BY <1>1 DEF Top
  <1> QED BY <1>1, <1>2 DEF OrderInv

(* The daemon starts to look a file up: of a new line, or for its next part.*)
LEMMA SeekKeeps ==
  ASSUME TypeInv, Tables, NEW k \in Key, w' = Seek(k), usedsize' = usedsize, torn' = torn,
         w.pc # "used",
         \A i \in Index : node'[i].k = node[i].k /\ node'[i].next = node[i].next
  PROVE  Tables'
  <1>1. /\ KeyTable' /\ LinkTable'
        /\ \A i \in Index : From(i)' = From(i)
    BY TableStays DEF Tables
  <1>2. Head[k] \in Index /\ w'.pos = Head[k] /\ w'.key = k /\ w'.pc = "find"
    BY SeekIs, Sizes
  <1>3. From(w.pos)' = From(Head[k]) /\ From(Head[w.key])' = From(Head[k])
    BY <1>1, <1>2, StartOf, HeadOf
  <1>4. Head[k] \in From(Head[k]) /\ \A i \in Index : HasKey(i, k) => i \in From(Head[k])
    BY <1>2, FromSelf DEF Tables, KeyTable
  <1>5. KeyWalk'
    BY <1>2, <1>3, <1>4 DEF KeyWalk, HasKey, Adding
  <1>6. LinkWalk'
    BY <1>2 DEF LinkWalk
  <1>7. ~torn' => OrderInv'
    BY <1>2, OrderStays DEF Tables
  <1> QED BY <1>1, <1>5, <1>6, <1>7 DEF Tables

LEMMA LineKeeps ==
  ASSUME TypeInv, Tables, NEW l \in Report, Line(l)
  PROVE  Tables'
  BY LineIs, SeekKeeps DEF Line

LEMMA FindKeeps ==
  ASSUME TypeInv, Tables, FindStep
  PROVE  Tables'
  <1> DEFINE p == w.pos
             q == w'.pos
             k == w.key
  <1>1. UNCHANGED <<node, usedsize, torn, cleared>>
    BY DEF FindStep
  <1>2. /\ KeyTable' /\ LinkTable'
        /\ \A i \in Index : From(i)' = From(i) /\ (Ends(i)' <=> Ends(i))
    BY <1>1, TableStays DEF Tables
  <1>3. /\ w.pc = "find" /\ k \in Key /\ w'.key = k /\ p \in Index /\ q \in Index
        /\ w'.pc \in {"find", "update", "add"}
    BY WalkOfDaemon
  <1>4. /\ From(w.pos)' = From(q)
        /\ From(Head[w.key])' = From(Head[k]) /\ (Ends(Head[w.key])' <=> Ends(Head[k]))
    BY <1>2, <1>3, StartOf, HeadOf, Sizes
  <1>5. p \in From(Head[k]) /\ \A i \in Index : HasKey(i, k) => i \in From(p)
    BY <1>3 DEF Tables, KeyWalk
  <1>6. ~torn' => OrderInv'
    BY <1>1, <1>3, OrderStays DEF Tables
  <1>7. \A i \in Index : node[i].next \in Index
    BY FieldsOf
  <1>8. CASE node[p].k = k /\ w'.pc = "update" /\ q = p
    <2>1. \A i \in Index : HasKey(i, k) => i = p
      BY <1>3, <1>8, Sizes DEF Tables, KeyTable, KeyOnce, HasKey
    <2>2. KeyWalk'
      BY <1>1, <1>3, <1>8, <2>1 DEF KeyWalk, HasKey, Adding
    <2>3. LinkWalk'
      BY <1>8 DEF LinkWalk
    <2> QED BY <1>2, <1>6, <2>2, <2>3 DEF Tables
  <1>9. CASE node[p].k # k /\ node[p].next = 0 /\ w'.pc = "add" /\ q = p
    <2>1. From(p) = {p}
      BY <1>3, <1>7, <1>9, FromRest
    <2>2. \A i \in Index : ~HasKey(i, k)
      BY <1>5, <1>9, <2>1 DEF HasKey
    <2>3. Ends(Head[k])
      BY <1>5, <1>9 DEF Ends
    <2>4. KeyWalk'
      BY <1>1, <1>3, <1>9, <2>2 DEF KeyWalk, HasKey, Adding
    <2>5. LinkWalk'
      BY <1>4, <1>9, <2>3 DEF LinkWalk
    <2> QED BY <1>2, <1>6, <2>4, <2>5 DEF Tables
  <1>10. CASE node[p].k # k /\ node[p].next # 0 /\ w'.pc = "find" /\ q = node[p].next
    <2>1. From(p) \subseteq {p} \union From(q)
      BY <1>3, <1>7, <1>10, FromRest
    <2>2. \A i \in Index : HasKey(i, k) => i \in From(q)
      BY <1>5, <1>10, <2>1 DEF HasKey
    <2>3. q \in From(Head[k])
      BY <1>5, <1>3, <1>10, FromNext
    <2>4. KeyWalk'
      BY <1>1, <1>3, <1>4, <1>10, <2>2, <2>3 DEF KeyWalk, HasKey, Adding
    <2>5. LinkWalk'
      BY <1>10 DEF LinkWalk
    <2> QED BY <1>2, <1>6, <2>4, <2>5 DEF Tables
  <1> QED BY <1>8, <1>9, <1>10, WalkOfDaemon

LEMMA AddHeadKeeps ==
  ASSUME TypeInv, Tables, AddHead
  PROVE  Tables'
  <1> DEFINE k == w.key
             h == Head[k]
  <1>1. UNCHANGED <<node, usedsize, torn, cleared>>
    BY DEF AddHead
  <1>2. /\ KeyTable' /\ LinkTable' /\ NewIndex' = NewIndex
        /\ \A i \in Index : From(i)' = From(i) /\ (Ends(i)' <=> Ends(i))
    BY <1>1, TableStays DEF Tables
  <1>3. /\ w.pc = "add" /\ k \in Key /\ w'.key = k /\ w'.pos = h
        /\ w'.pc = IF node[h].k = NoKey THEN "key" ELSE "walk"
    BY AddHeadDoes
  <1>4. h \in Index /\ h < NewIndex /\ h \in From(h)
    BY <1>3, Sizes, NewIsIndex, FromSelf
  <1>5. /\ From(w.pos)' = From(h) /\ (Ends(w.pos)' <=> Ends(h)) /\ From(Head[w.key])' = From(h)
    BY <1>2, <1>3, <1>4, StartOf, HeadOf
  <1>6. Ends(h) /\ \A i \in Index : ~HasKey(i, k)
    BY <1>3 DEF Tables, KeyWalk, LinkWalk, Adding
  <1>7. KeyWalk'
    BY <1>1, <1>3, <1>6 DEF KeyWalk, HasKey, Adding
  <1>8. LinkWalk'
    BY <1>1, <1>2, <1>3, <1>4, <1>5, <1>6 DEF LinkWalk
  <1>9. ~torn' => OrderInv'
    BY <1>1, <1>3, <1>4, OrderStays DEF Tables
  <1> QED BY <1>2, <1>7, <1>8, <1>9 DEF Tables

(* The daemon is done with a file, or killed.                              *)
LEMMA RestKeeps ==
  ASSUME TypeInv, Tables, w' = Idle, usedsize' = usedsize,
         \A i \in Index : node'[i].k = node[i].k /\ node'[i].next = node[i].next,
         torn' = (torn \/ w.pc = "used")
  PROVE  Tables'
  <1>1. w'.pc = "idle"
    BY IdleIs
  <1>2. KeyTable' /\ LinkTable'
    BY TableStays DEF Tables
  <1>3. KeyWalk' /\ LinkWalk'
    BY <1>1 DEF KeyWalk, LinkWalk, Adding
  <1>4. ~torn' => OrderInv'
    BY <1>1, OrderStays DEF Tables
  <1> QED BY <1>2, <1>3, <1>4 DEF Tables

LEMMA PartDoneKeeps ==
  ASSUME TypeInv, Tables, PartDone, w.pc \notin {"idle", "used"},
         usedsize' = usedsize, torn' = torn,
         \A i \in Index : node'[i].k = node[i].k /\ node'[i].next = node[i].next
  PROVE  Tables'
  <1>1. CASE w' = Idle
    <2>1. torn' = (torn \/ w.pc = "used")
      BY Zenon DEF TypeInv
    <2> QED BY <1>1, <2>1, RestKeeps
  <1>2. CASE w' = Seek(w.key) /\ w.key \in Key
    BY <1>2, SeekKeeps
  <1> QED BY <1>1, <1>2, PartDoneDoes

LEMMA AddStepKeeps ==
  ASSUME TypeInv, Tables, AddStep
  PROVE  Tables'
  <1> DEFINE p == w.pos
             q == w'.pos
             k == w.key
  <1>1. UNCHANGED <<node, usedsize, torn, cleared>>
    BY DEF AddStep
  <1>2. /\ KeyTable' /\ LinkTable' /\ NewIndex' = NewIndex
        /\ \A i \in Index : From(i)' = From(i) /\ (Ends(i)' <=> Ends(i))
    BY <1>1, TableStays DEF Tables
  <1>3. w.pc = "walk" /\ k \in Key /\ p \in Index /\ \A i \in Index : node[i].next \in Index
    BY AddStepDoes, FieldsOf
  <1>4. CASE PartDone
    BY <1>1, <1>3, <1>4, PartDoneKeeps
  <1>5. CASE /\ w'.key = k
             /\ w' \in [pc : {"link", "key", "walk"}, key : Key, pos : Index]
    <2>1. q \in Index /\ w'.key = k /\ w'.pc \in {"link", "key", "walk"}
      BY <1>5
    <2>2. /\ From(w.pos)' = From(q) /\ (Ends(w.pos)' <=> Ends(q))
          /\ From(Head[w.key])' = From(Head[k])
      BY <1>2, <1>3, <2>1, StartOf, HeadOf, Sizes
    <2>3. /\ Ends(p) /\ p \in From(Head[k]) /\ \A i \in Index : ~HasKey(i, k)
          /\ torn \/ (OrderInv /\ p < NewIndex)
      BY <1>3 DEF Tables, KeyWalk, LinkWalk, Adding, OrderInv
    <2>4. KeyWalk'
      BY <1>1, <2>1, <2>3 DEF KeyWalk, HasKey, Adding
    <2>5. CASE node[p].next = 0 /\ w'.pc = "link" /\ q = p
      <3>1. LinkWalk'
        BY <1>1, <2>2, <2>3, <2>5 DEF LinkWalk
      <3>2. ~torn' => OrderInv'
        BY <1>1, <1>3, <2>3, <2>5, OrderStays DEF Tables
      <3> QED BY <1>2, <2>4, <3>1, <3>2 DEF Tables
    <2>6. CASE node[p].next # 0 /\ node[p].k = NoKey /\ w'.pc = "key" /\ q = p
      <3>1. ~ (p >= NewIndex)
        <4>1. SUFFICES ASSUME p >= NewIndex PROVE FALSE
          OBVIOUS
        <4>2. node[p].next = p
          BY <1>3, <2>6, <4>1 DEF Tables, LinkTable
        <4>3. Closed({p})
          BY <4>2 DEF Closed
        <4>4. From(p) \subseteq {p}
          BY <1>3, <4>3, FromLeast
        <4> QED BY <2>3, <2>6, <4>4 DEF Ends
      <3>2. p < NewIndex
        BY <1>3, <3>1, NewIsIndex, Sizes
      <3>3. LinkWalk'
        BY <1>1, <1>2, <2>2, <2>3, <2>6, <3>2 DEF LinkWalk
      <3>4. ~torn' => OrderInv'
        BY <1>1, <1>3, <2>6, OrderStays DEF Tables
      <3> QED BY <1>2, <2>4, <3>3, <3>4 DEF Tables
    <2>7. CASE node[p].next # 0 /\ w'.pc = "walk" /\ q = node[p].next
      <3>1. q \in From(Head[k])
        BY <1>3, <2>3, <2>7, FromNext
      <3>2. From(p) \subseteq {p} \union From(q)
        BY <1>3, <2>7, FromRest
      <3>3. Ends(q)
        BY <2>3, <2>7, <3>2 DEF Ends
      <3>4. LinkWalk'
        BY <2>2, <2>7, <3>1, <3>3 DEF LinkWalk
      <3>5. ~torn => q < NewIndex
        <4>1. ~torn => node[p].next < Top
          BY <1>3, <2>3, <2>7 DEF OrderInv
        <4>2. Top = NewIndex
          BY <1>3, NewIsIndex DEF Top
        <4> QED BY <2>7, <4>1, <4>2
      <3>6. ~torn' => OrderInv'
        BY <1>1, <1>3, <2>7, <3>5, OrderStays DEF Tables
      <3> QED BY <1>2, <2>4, <3>4, <3>6 DEF Tables
    <2> QED BY <1>4, <1>5, <2>5, <2>6, <2>7, AddStepDoes
  <1> QED BY <1>4, <1>5, AddStepDoes

LEMMA AddLinkKeeps ==
  ASSUME TypeInv, Tables, AddLink
  PROVE  Tables'
  <1> DEFINE p == w.pos
             k == w.key
             N == NewIndex
  <1>1. UNCHANGED <<usedsize, torn, cleared>> /\ NewIndex' = N
    BY DEF AddLink, NewIndex
  <1>2. /\ w.pc = "link" /\ k \in Key /\ p \in Index /\ usedsize < DataSize
        /\ w'.pc = "used" /\ w'.key = k /\ w'.pos = p
        /\ node'[p].next = N
        /\ \A i \in Index : i # p => node'[i].next = node[i].next
        /\ \A i \in Index : node'[i].k = node[i].k
    BY AddLinkDoes
  <1>3. N \in Index /\ N \in Nat /\ N # 0 /\ N >= HashSize
    BY <1>2, NewIsIndex
  <1>4. /\ node[p].next = 0 /\ p \in From(Head[k]) /\ p =< N
        /\ \A i \in Index : ~HasKey(i, k)
        /\ torn \/ (OrderInv /\ p < N)
    BY <1>2, ChainIsBelow DEF Tables, KeyWalk, LinkWalk, Adding, OrderInv
  <1>5. \A i \in Index : From(i) \subseteq From(i)'
    BY <1>2, <1>4, FromGrows
  <1>6. KeyTable'
    <2>1. \A i \in Index, c \in Key : HasKey(i, c) => i \in From(Head[c])'
      BY <1>5, Sizes DEF Tables, KeyTable
    <2> QED BY <1>2, <2>1 DEF Tables, KeyTable, KeyOnce, HasKey
  <1>7. KeyWalk'
    BY <1>2, <1>4 DEF KeyWalk, HasKey, Adding
  <1>8. LinkTable'
    <2>1. ASSUME NEW i \in Index
          PROVE  /\ node'[i].next = 0 \/ node'[i].next \in HashSize .. N
                 /\ i >= N => node'[i].k = NoKey /\ node'[i].next \in {0, i}
                 /\ i > N => node'[i].next = 0
      <3>1. i \in Nat /\ p \in Nat
        BY <1>2, Sizes
      <3>2. /\ node[i].next = 0 \/ node[i].next \in HashSize .. N
            /\ i >= N => node[i].k = NoKey /\ node[i].next \in {0, i}
            /\ i > N => node[i].next = 0
        BY DEF Tables, LinkTable
      <3>3. CASE i = p
        <4>1. i >= N => i = N
          BY <1>3, <1>4, <3>1, <3>3
        <4>2. N \in HashSize .. N
          BY <1>3, Sizes
        <4> QED BY <1>2, <1>3, <3>1, <3>2, <3>3, <4>1, <4>2
      <3>4. CASE i # p
        BY <1>2, <3>2, <3>4
      <3> QED BY <3>3, <3>4
    <2> QED BY <1>1, <2>1 DEF LinkTable
  <1>9. LinkWalk'
    <2>1. From(Head[w.key])' = From(Head[k])' /\ From(Head[k]) \subseteq From(Head[k])'
      BY <1>2, <1>5, HeadOf, Sizes
    <2> QED BY <1>1, <1>2, <1>4, <2>1 DEF LinkWalk
  <1>10. ASSUME ~torn' PROVE OrderInv'
    <2>1. OrderInv /\ p < N /\ Top = N /\ Top' = N + 1
      BY <1>1, <1>2, <1>3, <1>4, <1>10 DEF Top
    <2>2. \A i \in Index : node[i].next \in Nat /\ node[i].next # N
                           /\ (node[i].next # 0 => node[i].next > i /\ node[i].next < N)
      BY <2>1, <1>3, FieldsOf, Sizes DEF OrderInv
    <2>3. ASSUME NEW i \in Index, node'[i].next # 0
          PROVE  node'[i].next > i /\ node'[i].next < N + 1
      <3>1. CASE i = p
        BY <1>2, <1>3, <2>1, <3>1, Sizes
      <3>2. CASE i # p
        <4>1. node'[i].next = node[i].next
          BY <1>2, <3>2
        <4>2. node[i].next \in Nat /\ node[i].next > i /\ node[i].next < N
          BY <2>2, <2>3, <4>1
        <4> QED BY <1>3, <4>1, <4>2
      <3> QED BY <3>1, <3>2
    <2>4. \A i, j \in Index : node'[i].next = node'[j].next /\ i # j => node'[i].next = 0
      BY <1>2, <2>1, <2>2 DEF OrderInv
    <2>5. ASSUME NEW m \in HashSize .. N PROVE \E j \in Index : node'[j].next = m
      <3>1. CASE m = N
        BY <1>2, <3>1
      <3>2. CASE m # N
        <4>1. m \in HashSize .. (N - 1) /\ m # 0
          BY <1>3, <3>2, Sizes
        <4>2. PICK j \in Index : node[j].next = m
          BY <2>1, <4>1 DEF OrderInv
        <4> QED BY <1>2, <1>4, <4>1, <4>2
      <3> QED BY <3>1, <3>2
    <2>6. HashSize .. (Top' - 1) = HashSize .. N
      BY <1>3, <2>1
    <2> QED BY <1>2, <2>1, <2>3, <2>4, <2>5, <2>6 DEF OrderInv
  <1> QED BY <1>6, <1>7, <1>8, <1>9, <1>10 DEF Tables

LEMMA AddUsedKeeps ==
  ASSUME TypeInv, Tables, AddUsed
  PROVE  Tables'
  <1> DEFINE k == w.key
             N == NewIndex
  <1>1. UNCHANGED <<torn, cleared>>
    BY DEF AddUsed
  <1>2. /\ w.pc = "used" /\ k \in Key /\ w.pos \in Index /\ usedsize < DataSize
        /\ w'.pc = "key" /\ w'.key = k /\ w'.pos = N
        /\ node' = node /\ NewIndex' = N + 1
    BY AddUsedDoes
  <1>3. N \in Index /\ N \in Nat /\ N # 0
    BY <1>2, NewIsIndex
  <1>4. /\ node[w.pos].next = N /\ w.pos \in From(Head[k])
        /\ \A i \in Index : ~HasKey(i, k)
        /\ torn \/ OrderInv
    BY <1>2 DEF Tables, KeyWalk, LinkWalk, Adding
  <1>5. \A i \in Index : From(i)' = From(i)
    BY <1>2, FromSame
  <1>6. KeyTable'
    <2>1. \A c \in Key : From(Head[c])' = From(Head[c])
      BY <1>5, Sizes
    <2> QED BY <1>2, <2>1 DEF Tables, KeyTable, KeyOnce, HasKey
  <1>7. KeyWalk'
    BY <1>2, <1>4 DEF KeyWalk, HasKey, Adding
  <1>8. LinkTable'
    <2>1. ASSUME NEW i \in Index
          PROVE  /\ node[i].next = 0 \/ node[i].next \in HashSize .. (N + 1)
                 /\ i >= N + 1 => node[i].k = NoKey /\ node[i].next = 0
      <3>1. /\ node[i].next = 0 \/ node[i].next \in HashSize .. N
            /\ i >= N => node[i].k = NoKey
            /\ i > N => node[i].next = 0
        BY DEF Tables, LinkTable
      <3>2. i \in Nat
        BY Sizes
      <3> QED BY <1>3, <3>1, <3>2
    <2>2. \A i \in Index : i > N + 1 => i >= N + 1
      BY <1>3, Sizes
    <2> QED BY <1>2, <2>1, <2>2 DEF LinkTable
  <1>9. LinkWalk'
    <2>1. N \in From(Head[k])
      BY <1>3, <1>4, FromNext
    <2>2. From(Head[w.key])' = From(Head[k])
      BY <1>2, <1>5, HeadOf, Sizes
    <2>3. node[N].k = NoKey /\ N < N + 1
      BY <1>3 DEF Tables, LinkTable
    <2> QED BY <1>2, <2>1, <2>2, <2>3 DEF LinkWalk
  <1>10. ASSUME ~torn' PROVE OrderInv'
    <2>1. OrderInv /\ Top' = Top
      BY <1>1, <1>2, <1>3, <1>4, <1>10 DEF Top
    <2> QED BY <1>2, <2>1 DEF OrderInv
  <1> QED BY <1>6, <1>7, <1>8, <1>9, <1>10 DEF Tables

LEMMA AddKeyKeeps ==
  ASSUME TypeInv, Tables, AddKey
  PROVE  Tables'
  <1> DEFINE p == w.pos
             k == w.key
  <1>1. UNCHANGED <<usedsize, torn, cleared>> /\ NewIndex' = NewIndex
    BY DEF AddKey, NewIndex
  <1>2. /\ w.pc = "key" /\ k \in Key /\ p \in Index
        /\ w'.pc = "val" /\ w'.key = k /\ w'.pos = p
        /\ node'[p].k = k
        /\ \A i \in Index : i # p => node'[i].k = node[i].k
        /\ \A i \in Index : node'[i].next = node[i].next
    BY AddKeyDoes
  <1>3. /\ p \in From(Head[k]) /\ p < NewIndex
        /\ \A i \in Index : ~HasKey(i, k)
    BY <1>2 DEF Tables, KeyWalk, LinkWalk, Adding
  <1>4. \A c \in Key : From(Head[c])' = From(Head[c])
    BY <1>2, FromSame, Sizes
  <1>5. KeyTable'
    <2>1. KeyOnce'
      BY <1>2, <1>3 DEF Tables, KeyTable, KeyOnce, HasKey
    <2>2. \A i \in Index, c \in Key : HasKey(i, c)' => i \in From(Head[c])
      BY <1>2, <1>3 DEF Tables, KeyTable, HasKey
    <2> QED BY <1>4, <2>1, <2>2 DEF KeyTable
  <1>6. KeyWalk'
    BY <1>2, <1>3 DEF KeyWalk, HasKey, Adding
  <1>7. LinkTable'
    <2>1. p \in Nat /\ ~ (p >= NewIndex)
      BY <1>2, <1>3, NewIsIndex, Sizes
    <2> QED BY <1>1, <1>2, <2>1 DEF Tables, LinkTable
  <1>8. LinkWalk'
    BY <1>2 DEF LinkWalk
  <1>9. ~torn' => OrderInv'
    BY <1>1, <1>2, OrderStays DEF Tables
  <1> QED BY <1>5, <1>6, <1>7, <1>8, <1>9 DEF Tables

(* The steps of the others: at most, a key goes.                           *)
LEMMA OthersKeep ==
  ASSUME TypeInv, Tables, UNCHANGED <<w, usedsize, torn>>, cleared \subseteq cleared',
         \A i \in Index : node'[i].next = node[i].next,
         \A i \in Index : node'[i].k = node[i].k \/ (node'[i].k = NoKey /\ i \in cleared')
  PROVE  Tables'
  <1>1. NewIndex' = NewIndex /\ Top' = Top
    BY DEF NewIndex, Top
  <1>2. \A i \in Index : From(i)' = From(i) /\ (Ends(i)' <=> Ends(i))
    BY FromSame
  <1>3. \A c \in Key : From(Head[c])' = From(Head[c]) /\ (Ends(Head[c])' <=> Ends(Head[c]))
    BY <1>2, Sizes
  <1>4. \A i \in Index, c \in Key : HasKey(i, c)' => HasKey(i, c)
    BY Sizes DEF HasKey
  <1>5. /\ From(w.pos)' = From(w.pos) /\ (Ends(w.pos)' <=> Ends(w.pos))
        /\ w.pc # "idle" => /\ w.key \in Key /\ From(Head[w.key])' = From(Head[w.key])
                            /\ (Ends(Head[w.key])' <=> Ends(Head[w.key]))
    <2>1. w.pos \in Index /\ (w.pc # "idle" => w.key \in Key)
      BY DEF TypeInv
    <2> QED BY <1>2, <1>3, <2>1, StartOf, HeadOf
  <1>6. KeyTable'
    BY <1>3, <1>4 DEF Tables, KeyTable, KeyOnce
  <1>7. KeyWalk'
    <2>1. w.pos \in Index
      BY DEF TypeInv
    <2> QED BY <1>4, <1>5, <2>1 DEF Tables, KeyWalk, HasKey, Adding
  <1>8. LinkTable'
    BY <1>1 DEF Tables, LinkTable
  <1>9. LinkWalk'
    <2>1. w.pos \in Index
      BY DEF TypeInv
    <2> QED BY <1>1, <1>5, <2>1 DEF Tables, LinkWalk
  <1>10. ~torn' => OrderInv'
    BY <1>1 DEF Tables, OrderInv
  <1> QED BY <1>6, <1>7, <1>8, <1>9, <1>10 DEF Tables

LEMMA TablesKept == TypeInv /\ Tables /\ [Next]_vars => Tables'
  <1> SUFFICES ASSUME TypeInv, Tables, [Next]_vars PROVE Tables'
    OBVIOUS
  <1>1. CASE Update \/ AddVal
    <2>1. w.pc \notin {"idle", "used"} /\ torn' = torn /\ usedsize' = usedsize /\ PartDone
      BY <1>1, ValueDoes
    <2> QED BY <1>1, <2>1, ValueDoes, PartDoneKeeps
  <1>2. CASE Crash
    <2>1. w' = Idle /\ torn' = (torn \/ w.pc = "used") /\ UNCHANGED <<node, usedsize>>
      BY <1>2 DEF Crash
    <2> QED BY <2>1, RestKeeps
  <1>3. CASE Clear
    BY <1>3, ClearDoes, OthersKeep
  <1>4. CASE UNCHANGED <<node, usedsize, w, cleared, torn>>
    BY <1>4, OthersKeep
  <1>5. ASSUME NEW k \in Key, Ask(k) PROVE Tables'
    BY <1>4, <1>5 DEF Ask
  <1>6. CASE Choose \/ AskStep \/ Read \/ UNCHANGED vars
    BY <1>4, <1>6 DEF Choose, AskStep, Read, vars
  <1> QED BY <1>1, <1>2, <1>3, <1>5, <1>6, LineKeeps, FindKeeps, AddHeadKeeps, AddStepKeeps,
             AddLinkKeeps, AddUsedKeeps, AddKeyKeeps DEF Next, Daemon

----------------------------------------------------------------------------
(* The values                                                              *)

LEMMA ValueAtFirst == Init => ValueInv
  <1> SUFFICES ASSUME Init PROVE ValueInv
    OBVIOUS
  <1>1. \A i \in Index, p \in Part : node[i].v[p].of = NoKey
    BY DEF Init, Zero, NoPart
  <1>2. r.pc = "idle"
    BY DEF Init
  <1> QED BY <1>1, <1>2 DEF ValueInv, ForeignOnlyAfterClear, Foreign

LEMMA ValueKept == TypeInv /\ Tables /\ ValueInv /\ [Next]_vars => ValueInv'
  <1> SUFFICES ASSUME TypeInv, Tables, ValueInv, [Next]_vars PROVE ValueInv'
    OBVIOUS
  <1> DEFINE Mine == \A i \in Index : Foreign(i) =>
                        i \in cleared /\ (node[i].k = NoKey \/ crashes > 0 \/ Hidden(i))
             Reads == r.pc = "read" => node[r.pos].k = r.key \/ r.pos \in cleared
             Given == r.pc = "done" /\ ~(r.got \subseteq {r.key, NoKey}) => r.pos \in cleared
  <1>1. Mine /\ Reads /\ Given
    BY DEF ValueInv, ForeignOnlyAfterClear
  <1>2. (Mine /\ Reads /\ Given)' => ValueInv'
    BY DEF ValueInv, ForeignOnlyAfterClear, Foreign, Hidden
  <1>3. r.pos \in Index /\ (r.pc = "read" => r.key \in Key) /\ NoKey \notin Key
    BY Sizes DEF TypeInv
  <1>4. ASSUME NEW i \in Index, node'[i].v = node[i].v, node'[i].k = node[i].k
        PROVE  Foreign(i)' <=> Foreign(i)
    BY <1>4 DEF Foreign
  <1>5. CASE Update \/ AddVal
    <2>1. /\ w.pc \in {"update", "val"} /\ w.pos \in Index /\ UNCHANGED <<r, cleared, crashes>>
          /\ \A i \in Index : i # w.pos => node'[i].v = node[i].v
          /\ \A i \in Index : node'[i].k = node[i].k
          /\ line \in Report /\ line.key = w.key
          /\ node'[w.pos].v = IF w.pc = "val" THEN Created(line) ELSE Changed(node[w.pos].v, line)
      BY <1>5, ValueDoes
    <2>2. node[w.pos].k = w.key \/ (node[w.pos].k = NoKey /\ w.pos \in cleared)
      BY <2>1 DEF Tables, KeyWalk
    <2>3. ASSUME NEW i \in Index, Foreign(i)'
          PROVE  i \in cleared /\ (node[i].k = NoKey \/ crashes > 0)
      <3>1. CASE i # w.pos
        BY <1>1, <1>4, <2>1, <2>3, <3>1 DEF Hidden
      <3>2. CASE i = w.pos /\ node[i].k # NoKey
        <4>1. node[i].k = w.key
          BY <2>2, <3>2
        <4>2. \A p \in Part : node'[i].v[p].of \in {NoKey, w.key} \/ node'[i].v[p].of = node[i].v[p].of
          <5>1. node[i].v \in Value
            BY FieldsOf
          <5>2. \A p \in Part : /\ Created(line)[p].of \in {NoKey, w.key}
                               /\ Changed(node[i].v, line)[p].of \in {node[i].v[p].of, w.key}
            BY <2>1, <5>1, ValuesOf
          <5>3. node'[i].v \in {Created(line), Changed(node[i].v, line)}
            BY <2>1, <3>2
          <5> QED BY <5>2, <5>3
        <4>3. w.pc = "val" => \A p \in Part : node'[i].v[p].of \in {NoKey, w.key}
          BY <2>1, <3>2, FieldsOf, ValuesOf
        <4>4. Foreign(i) /\ w.pc # "val"
          BY <2>1, <2>3, <4>1, <4>2, <4>3 DEF Foreign
        <4> QED BY <1>1, <3>2, <4>4 DEF Hidden
      <3>3. CASE i = w.pos /\ node[i].k = NoKey
        BY <1>3, <2>1, <2>2, <3>3 DEF Foreign, TypeInv
      <3> QED BY <3>1, <3>2, <3>3
    <2>4. Mine'
      BY <2>1, <2>3
    <2>5. Reads' /\ Given'
      BY <1>1, <1>3, <2>1
    <2> QED BY <1>2, <2>4, <2>5
  <1>6. CASE AddKey
    <2>1. /\ w.pc = "key" /\ w.pos \in Index /\ w'.pc = "val" /\ w'.pos = w.pos
          /\ \A i \in Index : i # w.pos => node'[i].k = node[i].k
          /\ \A i \in Index : node'[i].v = node[i].v
          /\ node'[w.pos].k = w.key
      BY <1>6, AddKeyDoes
    <2>2. UNCHANGED <<r, cleared, crashes>>
      BY <1>6 DEF AddKey
    <2>3. node[w.pos].k = NoKey
      BY <2>1 DEF Tables, LinkWalk
    <2>4. ASSUME NEW i \in Index, Foreign(i)'
          PROVE  i \in cleared /\ (node'[i].k = NoKey \/ crashes > 0 \/ Hidden(i)')
      <3>1. CASE i # w.pos
        BY <1>1, <1>4, <2>1, <2>4, <3>1 DEF Hidden
      <3>2. CASE i = w.pos
        <4>1. Foreign(i)
          BY <2>1, <2>3, <2>4, <3>2 DEF Foreign
        <4> QED BY <1>1, <2>1, <3>2, <4>1 DEF Hidden
      <3> QED BY <3>1, <3>2
    <2>5. Mine'
      BY <2>2, <2>4
    <2>6. Reads' /\ Given'
      BY <1>1, <1>3, <2>1, <2>2, <2>3
    <2> QED BY <1>2, <2>5, <2>6
  <1>7. CASE Clear
    <2>1. /\ d.pos \in Index /\ cleared' = cleared \union {d.pos} /\ UNCHANGED <<w, r, crashes>>
          /\ \A i \in Index : i # d.pos => node'[i].k = node[i].k
          /\ \A i \in Index : node'[i].v = node[i].v
          /\ node'[d.pos].k = NoKey
      BY <1>7, ClearDoes
    <2>2. Mine'
      BY <1>1, <1>4, <2>1 DEF Hidden
    <2>3. Reads' /\ Given'
      BY <1>1, <1>3, <2>1
    <2> QED BY <1>2, <2>2, <2>3
  <1>8. CASE AddLink
    <2>1. /\ \A i \in Index : node'[i].v = node[i].v /\ node'[i].k = node[i].k
          /\ w.pc = "link" /\ w'.pc = "used" /\ UNCHANGED <<r, cleared, crashes>>
      BY <1>8, AddLinkDoes DEF AddLink
    <2> QED BY <1>1, <1>2, <1>3, <1>4, <2>1 DEF Hidden
  <1>9. CASE AskStep
    <2>1. r'.pc \in {"find", "read", "idle"} /\ UNCHANGED <<node, w, cleared, crashes>>
      BY <1>9, WalkOfReader DEF AskStep
    <2>2. r'.pc = "read" => node[r'.pos].k = r'.key
      BY <1>9, WalkOfReader
    <2> QED BY <1>1, <1>2, <1>4, <2>1, <2>2 DEF Hidden
  <1>10. CASE Read
    <2>1. /\ r.pc = "read"
          /\ r' = [r EXCEPT !.pc = "done", !.got = {node[r.pos].v[p].of : p \in Part}]
          /\ UNCHANGED <<node, w, cleared, crashes>>
      BY <1>10 DEF Read
    <2>2. /\ r'.pc = "done" /\ r'.key = r.key /\ r'.pos = r.pos
          /\ r'.got = {node[r.pos].v[p].of : p \in Part}
      BY <2>1 DEF TypeInv
    <2>3. ~(r'.got \subseteq {r.key, NoKey}) => r.pos \in cleared
      <3>1. ASSUME NEW p \in Part, node[r.pos].v[p].of \notin {r.key, NoKey} PROVE r.pos \in cleared
        <4>1. CASE node[r.pos].k = r.key
          <5>1. Foreign(r.pos)
            BY <3>1, <4>1 DEF Foreign
          <5> QED BY <1>1, <1>3, <5>1
        <4>2. CASE node[r.pos].k # r.key
          BY <1>1, <2>1, <4>2
        <4> QED BY <4>1, <4>2
      <3> QED BY <2>2, <3>1
    <2>4. Mine'
      BY <1>1, <1>4, <2>1 DEF Hidden
    <2>5. Reads' /\ Given'
      BY <2>1, <2>2, <2>3
    <2> QED BY <1>2, <2>4, <2>5
  <1>11. CASE /\ UNCHANGED <<node, cleared>> /\ w.pc # "val"
              /\ crashes' \in {crashes, crashes + 1} /\ (r' = r \/ r'.pc = "find")
    <2>1. crashes > 0 => crashes' > 0
      BY <1>11 DEF TypeInv
    <2> QED BY <1>1, <1>2, <1>4, <1>11, <2>1 DEF Hidden
  <1>12. CASE UNCHANGED <<node, w, cleared, crashes>> /\ (r' = r \/ r'.pc = "find")
    BY <1>1, <1>2, <1>4, <1>12 DEF Hidden
  <1>13. CASE Crash
    <2>1. UNCHANGED <<node, r, cleared>> /\ crashes' = crashes + 1 /\ crashes' > 0
      BY <1>13 DEF Crash, TypeInv
    <2> QED BY <1>1, <1>2, <1>4, <2>1
  <1>14. ASSUME NEW k \in Key, Ask(k) PROVE ValueInv'
    BY <1>12, <1>14 DEF Ask
  <1>15. ASSUME NEW l \in Report, Line(l) PROVE ValueInv'
    BY <1>11, <1>15 DEF Line
  <1>16. CASE FindStep \/ AddHead \/ AddStep \/ AddUsed
    BY <1>11, <1>16 DEF FindStep, AddHead, AddStep, AddUsed
  <1>17. CASE Choose \/ UNCHANGED vars
    BY <1>12, <1>17 DEF Choose, vars
  <1> QED BY <1>5, <1>6, <1>7, <1>8, <1>9, <1>10, <1>13, <1>14, <1>15, <1>16, <1>17 DEF Next, Daemon

----------------------------------------------------------------------------
(* The table is sound                                                      *)

LEMMA TableInvKept == TableInv /\ [Next]_vars => TableInv'
  BY TypeKept, TablesKept, ValueKept DEF TableInv

LEMMA TableInvAtFirst == Init => TableInv
  BY TypeAtFirst, TablesAtFirst, ValueAtFirst DEF TableInv

LEMMA LinkedIs ==
  ASSUME TypeInv, OrderInv, LinkTable
  PROVE  Linked = HashSize .. (Top - 1)
  <1>1. NewIndex \in Nat /\ NewIndex = HashSize + usedsize /\ HashSize \in Nat /\ Top \in Nat
    BY NewIsIndex, Sizes DEF NewIndex, Top
  <1>2. ASSUME NEW i \in Linked PROVE i \in HashSize .. (Top - 1)
    <2>1. PICK j \in Index : node[j].next = i
      BY DEF Linked
    <2>2. i \in Nat /\ i >= HashSize /\ i # 0
      BY Sizes DEF Linked
    <2> QED BY <1>1, <2>1, <2>2 DEF OrderInv
  <1>3. ASSUME NEW m \in HashSize .. (Top - 1) PROVE m \in Linked
    <2>1. PICK j \in Index : node[j].next = m
      BY DEF OrderInv
    <2>2. m \in Index
      BY <2>1, FieldsOf
    <2> QED BY <1>1, <2>1, <2>2 DEF Linked
  <1> QED BY <1>2, <1>3

LEMMA TableInvIsSound == TableInv => TableSound
  <1> SUFFICES ASSUME TableInv PROVE TableSound
    OBVIOUS
  <1>1. TypeInv /\ Tables /\ ValueInv
    BY DEF TableInv
  <1>2. TypeOK
    BY <1>1 DEF TypeInv, TypeOK
  <1>3. ASSUME ~torn PROVE ChainsSound
    <2>1. OrderInv /\ LinkTable /\ KeyTable
      BY <1>1, <1>3 DEF Tables
    <2>2. \A i \in Index : Ends(i)
      BY <1>1, <2>1, FieldsOf, ChainEnds DEF OrderInv
    <2>3. Top - 1 = HashSize + usedsize - 1 + IF w.pc = "used" THEN 1 ELSE 0
      BY <1>1, NewIsIndex, Sizes DEF Top, NewIndex
    <2>4. Linked = HashSize .. (HashSize + usedsize - 1 + IF w.pc = "used" THEN 1 ELSE 0)
      BY <1>1, <2>1, <2>3, LinkedIs
    <2>5. \A i \in Index : node[i].k # NoKey => i \in From(Head[node[i].k])
      BY <1>1, <2>1, FieldsOf DEF KeyTable, HasKey
    <2> QED BY <2>1, <2>2, <2>4, <2>5 DEF ChainsSound, Ends, OrderInv
  <1>4. KeyOnce /\ ForeignOnlyAfterClear
    BY <1>1 DEF Tables, KeyTable, ValueInv
  <1> QED BY <1>2, <1>3, <1>4 DEF TableSound, ChainsSound

(* Whatever the daemon, cdctool and a front end do between one another's   *)
(* stores, and wherever the daemon is killed: a file has one node, and a   *)
(* front end reads of another file only where a node was emptied.  Unless  *)
(* the daemon was killed between data->next and usedsize++, every chain    *)
(* ends, none meets another, and together they have every node handed out  *)
(* (find_cdc_node, add_cdc_node_by_key, clear_index_node).                 *)
THEOREM TableIsSound == Spec => []TableSound
  <1>1. Spec => []TableInv
    BY TableInvAtFirst, TableInvKept, PTL DEF Spec
  <1> QED BY <1>1, TableInvIsSound, PTL

----------------------------------------------------------------------------
(* The table as a map of files                                             *)

Absent == [p \in {} |-> NoPart]
At(k) == IF NodeOf(k) = {} THEN Absent ELSE node[CHOOSE i \in NodeOf(k) : TRUE].v
Mapped == [k \in Key |-> At(k)]

LEMMA AbsentIsNoValue == Absent \notin Value
  <1>1. Source \in Part
    BY DEF Part
  <1>2. DOMAIN Absent = {} /\ \A v \in Value : DOMAIN v = Part
    BY DEF Absent, Value
  <1> QED BY <1>1, <1>2

LEMMA AtIs ==
  ASSUME KeyOnce, NEW k \in Key, NEW i \in Index, node[i].k = k, ~Hidden(i)
  PROVE  At(k) = node[i].v
  <1>1. NodeOf(k) = {i}
    BY Sizes DEF NodeOf, KeyOnce, Hidden
  <1> QED BY <1>1 DEF At

LEMMA AtIsNext ==
  ASSUME KeyOnce', NEW k \in Key, NEW i \in Index, node'[i].k = k, ~Hidden(i)'
  PROVE  At(k)' = node'[i].v
  <1>1. NodeOf(k)' = {i}
    BY Sizes DEF NodeOf, KeyOnce, Hidden
  <1> QED BY <1>1 DEF At

LEMMA AtNone ==
  ASSUME NEW k, \A i \in Index : node[i].k = k => Hidden(i)
  PROVE  At(k) = Absent
  <1>1. NodeOf(k) = {}
    BY DEF NodeOf, Hidden
  <1> QED BY <1>1 DEF At

LEMMA AtNoneNext ==
  ASSUME NEW k, \A i \in Index : node'[i].k = k => Hidden(i)'
  PROVE  At(k)' = Absent
  <1>1. NodeOf(k)' = {}
    BY DEF NodeOf, Hidden
  <1> QED BY <1>1 DEF At

(* A file none of whose nodes changes.                                     *)
LEMMA AtStays ==
  ASSUME NEW k,
         \A i \in Index : (node'[i].k = k /\ ~Hidden(i)') <=> (node[i].k = k /\ ~Hidden(i)),
         \A i \in Index : node[i].k = k /\ ~Hidden(i) => node'[i].v = node[i].v
  PROVE  At(k)' = At(k)
  <1>1. NodeOf(k)' = NodeOf(k)
    BY DEF NodeOf, Hidden
  <1>2. \A i \in NodeOf(k) : node'[i].v = node[i].v
    BY DEF NodeOf, Hidden
  <1>3. NodeOf(k) # {} => (CHOOSE i \in NodeOf(k) : TRUE) \in NodeOf(k)
    OBVIOUS
  <1> QED BY <1>1, <1>2, <1>3 DEF At

LEMMA MappedStays ==
  ASSUME \A k \in Key : At(k)' = At(k)
  PROVE  Mapped' = Mapped
  BY DEF Mapped

LEMMA MappedBut ==
  ASSUME NEW c \in Key, \A k \in Key : k # c => At(k)' = At(k)
  PROVE  Mapped' = [Mapped EXCEPT ![c] = At(c)'] /\ Mapped[c] = At(c)
  BY DEF Mapped

(* What the steps of the map look like from the table.                     *)
LEMMA MapOps ==
    /\ Map!Absent = Absent /\ Map!NoLine = NoLine /\ Map!Value = Value /\ Map!Report = Report
    /\ Map!Rest(line) = Rest(line) /\ Map!Created(line) = Created(line)
    /\ \A v : Map!Changed(v, line) = Changed(v, line)
  <1>1. Map!NoPart = NoPart /\ Map!Part = Part /\ Map!NoLine = NoLine
    BY DEF Map!NoPart, NoPart, Map!Part, Part, Map!NoLine, NoLine
  <1>2. Map!Absent = Absent /\ Map!Zero = Zero
    BY <1>1 DEF Map!Absent, Absent, Map!Zero, Zero
  <1>3. Map!Value = Value /\ Map!Report = Report
    BY <1>1 DEF Map!Value, Value, Map!Report, Report
  <1>4. \A l : Map!PartOf(l) = PartOf(l) /\ Map!Own(l) = Own(l)
    BY DEF Map!PartOf, PartOf, Map!Own, Own
  <1>5. Map!Rest(line) = Rest(line)
    BY <1>1 DEF Map!Rest, Rest
  <1>6. Map!Created(line) = Created(line)
    BY <1>2, <1>4 DEF Map!Created, Created
  <1>7. \A v, p : Map!Fits(v, p) <=> Fits(v, p)
    BY <1>1 DEF Map!Fits, Fits, Map!Cardinality, Cardinality, Map!IsFiniteSet, IsFiniteSet
  <1>8. \A v : Map!Changed(v, line) = Changed(v, line)
    BY <1>4, <1>7 DEF Map!Changed, Changed
  <1> QED BY <1>1, <1>2, <1>3, <1>5, <1>6, <1>8

LEMMA MapStutters ==
  ASSUME Mapped' = Mapped, line' = line
  PROVE  UNCHANGED Map!vars
  <1>1. Map!vars = <<Mapped, line>> /\ Map!vars' = <<Mapped', line'>>
    BY DEF Map!vars, Mapped, At, Absent
  <1> QED BY <1>1

LEMMA MapBegins ==
  ASSUME NEW l \in Report, line = NoLine, line' = l, Mapped' = Mapped
  PROVE  Map!Next
  <1>1. Map!Begin(l)
    BY MapOps DEF Map!Begin, Mapped, At, Absent
  <1> QED BY <1>1, MapOps DEF Map!Next

LEMMA MapForgets ==
  ASSUME NEW k \in Key, line' = line, Mapped' = [Mapped EXCEPT ![k] = Absent]
  PROVE  Map!Next
  <1>1. Map!Forget(k)
    BY MapOps DEF Map!Forget, Mapped, At, Absent
  <1> QED BY <1>1 DEF Map!Next

LEMMA MapPuts ==
  ASSUME NEW k \in Key, line \in Report, line.key = k, line' = Rest(line),
         \/ Mapped[k] = Absent /\ Mapped' = [Mapped EXCEPT ![k] = Created(line)]
         \/ Mapped[k] # Absent /\ Mapped' = [Mapped EXCEPT ![k] = Changed(Mapped[k], line)]
         \/ Mapped[k] = Absent /\ Mapped' = Mapped
  PROVE  Map!Next
  <1>1. line # NoLine
    BY LineIs
  <1>2. Map!Put
    BY <1>1, MapOps DEF Map!Put, Mapped, At, Absent
  <1> QED BY <1>2 DEF Map!Next

LEMMA MapIsKilled ==
  ASSUME NEW k \in Key, line \in Report, line.key = k, line' = NoLine,
         \/ Mapped[k] = Absent /\ \E v \in Value : Mapped' = [Mapped EXCEPT ![k] = v]
         \/ Mapped' = Mapped
  PROVE  Map!Next
  <1>1. line # NoLine
    BY LineIs
  <1>2. Map!Killed
    BY <1>1, MapOps DEF Map!Killed, Mapped, At, Absent
  <1> QED BY <1>2 DEF Map!Next

(* Steps at which the daemon is on its way and no key and no value changes.*)
LEMMA WayStutters ==
  ASSUME \A i \in Index : node'[i].k = node[i].k /\ node'[i].v = node[i].v,
         w.pc # "val", w'.pc # "val"
  PROVE  Mapped' = Mapped
  <1>1. \A i \in Index : ~Hidden(i) /\ ~Hidden(i)'
    BY DEF Hidden
  <1>2. \A k \in Key : At(k)' = At(k)
    BY <1>1, AtStays
  <1> QED BY <1>2, MappedStays

LEMMA ClearMaps ==
  ASSUME TableInv, KeyOnce', Clear
  PROVE  Map!Next \/ UNCHANGED Map!vars
  <1>1. /\ TypeInv /\ KeyOnce /\ NoKey \notin Key
    BY Sizes DEF TableInv, Tables, KeyTable
  <1> PICK p : p = d.pos
    OBVIOUS
  <1> PICK c : c = node[p].k
    OBVIOUS
  <1>2. /\ p \in Index /\ node'[p].k = NoKey /\ w' = w /\ line' = line
        /\ \A i \in Index : i # p => node'[i].k = node[i].k
        /\ \A i \in Index : node'[i].v = node[i].v
    BY <1>1, ClearDoes
  <1>3. \A i \in Index : Hidden(i)' <=> Hidden(i)
    BY <1>2 DEF Hidden
  <1>4. ASSUME NEW k \in Key, k # c \/ Hidden(p) PROVE At(k)' = At(k)
    <2>1. ASSUME NEW i \in Index
          PROVE  (node'[i].k = k /\ ~Hidden(i)') <=> (node[i].k = k /\ ~Hidden(i))
      <3>1. CASE i = p
        BY <1>1, <1>2, <1>3, <1>4, <3>1
      <3>2. CASE i # p
        BY <1>2, <1>3, <3>2
      <3> QED BY <3>1, <3>2
    <2> QED BY <1>2, <2>1, AtStays
  <1>5. CASE c = NoKey \/ Hidden(p)
    <2>1. Mapped' = Mapped
      BY <1>1, <1>4, <1>5, MappedStays
    <2> QED BY <1>2, <2>1, MapStutters
  <1>6. CASE c # NoKey /\ ~Hidden(p)
    <2>1. c \in Key
      BY <1>1, <1>2, <1>6, FieldsOf
    <2>2. \A i \in Index : node'[i].k # c
      BY <1>1, <1>2, <2>1 DEF KeyOnce
    <2>3. At(c)' = Absent
      BY <2>2, AtNoneNext
    <2>4. Mapped' = [Mapped EXCEPT ![c] = Absent]
      BY <1>4, <2>1, <2>3, MappedBut
    <2> QED BY <1>2, <2>1, <2>4, MapForgets
  <1> QED BY <1>5, <1>6

(* The new key hides the node, and whatever key it had.                    *)
LEMMA AddKeyMaps ==
  ASSUME TableInv, KeyOnce', AddKey
  PROVE  UNCHANGED Map!vars
  <1> PICK p, c : p = w.pos /\ c = w.key
    OBVIOUS
  <1>1. TypeInv /\ NoKey \notin Key
    BY Sizes DEF TableInv
  <1>2. /\ w.pc = "key" /\ c \in Key /\ p \in Index
        /\ w'.pc = "val" /\ w'.pos = p /\ line' = line
        /\ node'[p].k = c
        /\ \A i \in Index : i # p => node'[i].k = node[i].k
        /\ \A i \in Index : node'[i].v = node[i].v
    BY <1>1, AddKeyDoes DEF AddKey
  <1>3. node[p].k = NoKey
    BY <1>2 DEF TableInv, Tables, LinkWalk
  <1>4. ASSUME NEW k \in Key PROVE At(k)' = At(k)
    <2>1. ASSUME NEW i \in Index
          PROVE  (node'[i].k = k /\ ~Hidden(i)') <=> (node[i].k = k /\ ~Hidden(i))
      <3>1. CASE i = p
        BY <1>1, <1>2, <1>3, <3>1 DEF Hidden
      <3>2. CASE i # p
        BY <1>2, <3>2 DEF Hidden
      <3> QED BY <3>1, <3>2
    <2> QED BY <1>2, <2>1, AtStays
  <1>5. Mapped' = Mapped
    BY <1>4, MappedStays
  <1> QED BY <1>2, <1>5, MapStutters

(* Changing a value, or giving a new file its first one.                   *)
LEMMA ValueMaps ==
  ASSUME TableInv, KeyOnce', Update \/ AddVal
  PROVE  Map!Next
  <1> PICK p, c : p = w.pos /\ c = w.key
    OBVIOUS
  <1>1. TypeInv /\ NoKey \notin Key /\ KeyOnce /\ KeyWalk
    BY Sizes DEF TableInv, Tables, KeyTable
  <1>2. /\ w.pc \in {"update", "val"} /\ c \in Key /\ p \in Index
        /\ w'.pc # "val" /\ line \in Report /\ line.key = c /\ line' = Rest(line)
        /\ node'[p].v = IF w.pc = "val" THEN Created(line) ELSE Changed(node[p].v, line)
        /\ \A i \in Index : i # p => node'[i].v = node[i].v
        /\ \A i \in Index : node'[i].k = node[i].k
    BY <1>1, ValueDoes, PartDoneDoes
  <1>3. /\ \A i \in Index : node[i].k = c => i = p
        /\ node[p].k \in {c, NoKey}
    BY <1>1, <1>2 DEF KeyWalk, HasKey
  <1>4. /\ \A i \in Index : ~Hidden(i)'
        /\ \A i \in Index : i # p => ~Hidden(i)
        /\ Hidden(p) <=> w.pc = "val"
    BY <1>2 DEF Hidden
  <1>5. ASSUME NEW k \in Key, k # c PROVE At(k)' = At(k)
    <2>1. ASSUME NEW i \in Index
          PROVE  /\ (node'[i].k = k /\ ~Hidden(i)') <=> (node[i].k = k /\ ~Hidden(i))
                 /\ node[i].k = k => node'[i].v = node[i].v
      <3>1. node[i].k = k => i # p
        BY <1>1, <1>3, <1>5
      <3> QED BY <1>2, <1>4, <3>1
    <2> QED BY <2>1, AtStays
  <1>6. CASE node[p].k = NoKey
    <2>1. At(c) = Absent /\ At(c)' = Absent
      BY <1>1, <1>2, <1>3, <1>6, AtNone, AtNoneNext
    <2>2. Mapped' = Mapped /\ Mapped[c] = Absent
      BY <1>2, <1>5, <2>1, MappedStays, MappedBut
    <2> QED BY <1>2, <2>2, MapPuts
  <1>7. CASE node[p].k = c
    <2>1. At(c)' = node'[p].v
      BY <1>2, <1>4, <1>7, AtIsNext
    <2>2. Mapped' = [Mapped EXCEPT ![c] = node'[p].v] /\ Mapped[c] = At(c)
      BY <1>2, <1>5, <2>1, MappedBut
    <2>3. CASE w.pc = "val"
      <3>1. At(c) = Absent
        BY <1>3, <1>4, <2>3, AtNone
      <3> QED BY <1>2, <2>2, <2>3, <3>1, MapPuts
    <2>4. CASE w.pc # "val"
      <3>1. At(c) = node[p].v
        BY <1>1, <1>2, <1>4, <1>7, <2>4, AtIs
      <3>2. At(c) # Absent
        BY <1>1, <1>2, <3>1, FieldsOf, AbsentIsNoValue
      <3>3. node'[p].v = Changed(Mapped[c], line)
        BY <1>2, <2>2, <2>4, <3>1
      <3> QED BY <1>2, <2>2, <3>2, <3>3, MapPuts
    <2> QED BY <2>3, <2>4
  <1> QED BY <1>3, <1>6, <1>7

(* Between the key and the value of a new file, a kill leaves the value    *)
(* the node had.                                                           *)
LEMMA CrashMaps ==
  ASSUME TableInv, KeyOnce', Crash
  PROVE  Map!Next
  <1> PICK p, c : p = w.pos /\ c = w.key
    OBVIOUS
  <1>1. TypeInv /\ NoKey \notin Key /\ KeyWalk
    BY Sizes DEF TableInv, Tables
  <1>2. /\ c \in Key /\ p \in Index /\ w'.pc = "idle" /\ node' = node
        /\ line \in Report /\ line.key = c /\ line' = NoLine
    BY <1>1, IdleIs DEF Crash, TypeInv
  <1>3. CASE w.pc # "val"
    <2>1. Mapped' = Mapped
      BY <1>2, <1>3, WayStutters
    <2> QED BY <1>2, <2>1, MapIsKilled
  <1>4. CASE w.pc = "val"
    <2>1. /\ \A i \in Index : node[i].k = c => i = p
          /\ node[p].k \in {c, NoKey}
      BY <1>1, <1>4 DEF KeyWalk, HasKey
    <2>2. /\ \A i \in Index : ~Hidden(i)'
          /\ \A i \in Index : Hidden(i) <=> i = p
      BY <1>2, <1>4 DEF Hidden
    <2>3. ASSUME NEW k \in Key, k # c PROVE At(k)' = At(k)
      <3>1. \A i \in Index : node[i].k = k => i # p
        BY <1>1, <2>1, <2>3
      <3> QED BY <1>2, <2>2, <3>1, AtStays
    <2>4. At(c) = Absent
      BY <2>1, <2>2, AtNone
    <2>5. CASE node[p].k = NoKey
      <3>1. At(c)' = Absent
        BY <1>1, <1>2, <2>1, <2>5, AtNoneNext
      <3>2. Mapped' = Mapped
        BY <2>3, <2>4, <3>1, MappedStays
      <3> QED BY <1>2, <3>2, MapIsKilled
    <2>6. CASE node[p].k = c
      <3>1. At(c)' = node'[p].v
        BY <1>2, <2>2, <2>6, AtIsNext
      <3>2. Mapped' = [Mapped EXCEPT ![c] = node[p].v] /\ Mapped[c] = Absent
        BY <1>2, <2>3, <2>4, <3>1, MappedBut
      <3>3. node[p].v \in Value
        BY <1>1, <1>2, FieldsOf
      <3> QED BY <1>2, <3>2, <3>3, MapIsKilled
    <2> QED BY <2>1, <2>5, <2>6
  <1> QED BY <1>3, <1>4

(* No room: a file that is not there is not put.                           *)
LEMMA AddStepMaps ==
  ASSUME TableInv, AddStep
  PROVE  Map!Next \/ UNCHANGED Map!vars
  <1>1. TypeInv /\ KeyWalk
    BY DEF TableInv, Tables
  <1>2. node' = node /\ w.pc = "walk" /\ w.key \in Key
    BY <1>1, AddStepDoes DEF AddStep
  <1>3. w'.pc # "val" /\ (PartDone \/ line' = line)
    BY <1>1, <1>2, AddStepDoes, PartDoneDoes
  <1>4. Mapped' = Mapped
    BY <1>2, <1>3, WayStutters
  <1>5. CASE PartDone
    <2>1. At(w.key) = Absent
      BY <1>1, <1>2, AtNone DEF KeyWalk, HasKey, Adding
    <2>2. Mapped[w.key] = Absent
      BY <1>2, <2>1 DEF Mapped
    <2>3. line \in Report /\ line.key = w.key /\ line' = Rest(line)
      BY <1>1, <1>2, <1>5, PartDoneDoes
    <2> QED BY <1>2, <1>4, <2>2, <2>3, MapPuts
  <1> QED BY <1>3, <1>4, <1>5, MapStutters

LEMMA MapSteps ==
  TableInv /\ TableInv' /\ [Next]_vars => [Map!Next]_(Map!vars)
  <1> SUFFICES ASSUME TableInv, TableInv', [Next]_vars
               PROVE  Map!Next \/ UNCHANGED Map!vars
    OBVIOUS
  <1>1. TypeInv /\ KeyOnce'
    BY DEF TableInv, Tables, KeyTable
  <1>2. ASSUME NEW l \in Report, Line(l) PROVE Map!Next
    <2>1. w.pc = "idle" /\ w'.pc = "find" /\ line' = l /\ node' = node
      BY <1>2, LineIs, SeekIs DEF Line
    <2>2. line = NoLine
      BY <1>1, <2>1 DEF TypeInv
    <2>3. Mapped' = Mapped
      BY <2>1, WayStutters
    <2> QED BY <2>1, <2>2, <2>3, MapBegins
  <1>3. CASE FindStep
    <2>1. w.pc = "find" /\ w'.pc # "val" /\ line' = line /\ node' = node
      BY <1>1, <1>3, WalkOfDaemon DEF FindStep
    <2> QED BY <2>1, WayStutters, MapStutters
  <1>4. CASE AddHead
    <2>1. w.pc = "add" /\ w'.pc # "val" /\ line' = line /\ node' = node
      BY <1>1, <1>4, AddHeadDoes DEF AddHead
    <2> QED BY <2>1, WayStutters, MapStutters
  <1>5. CASE AddLink
    <2>1. /\ w.pc = "link" /\ w'.pc # "val" /\ line' = line
          /\ \A i \in Index : node'[i].k = node[i].k /\ node'[i].v = node[i].v
      BY <1>1, <1>5, AddLinkDoes DEF AddLink
    <2> QED BY <2>1, WayStutters, MapStutters
  <1>6. CASE AddUsed
    <2>1. w.pc = "used" /\ w'.pc # "val" /\ line' = line /\ node' = node
      BY <1>1, <1>6, AddUsedDoes DEF AddUsed
    <2> QED BY <2>1, WayStutters, MapStutters
  <1>7. CASE UNCHANGED <<node, w, line>>
    BY <1>7 DEF Map!vars, NodeOf
  <1>8. ASSUME NEW k \in Key, Ask(k) PROVE Map!Next \/ UNCHANGED Map!vars
    BY <1>7, <1>8 DEF Ask
  <1>9. CASE Choose \/ AskStep \/ Read \/ UNCHANGED vars
    BY <1>7, <1>9 DEF Choose, AskStep, Read, vars
  <1> QED BY <1>1, <1>2, <1>3, <1>4, <1>5, <1>6, <1>8, <1>9, ClearMaps, AddKeyMaps, ValueMaps,
             CrashMaps, AddStepMaps DEF Next, Daemon

LEMMA MapAtFirst == Init => Map!Init
  <1> SUFFICES ASSUME Init PROVE Map!Init
    OBVIOUS
  <1>1. line = NoLine /\ \A i \in Index : node[i].k = NoKey
    BY DEF Init
  <1>2. \A k \in Key : At(k) = Absent
    BY <1>1, AtNone, Sizes
  <1>3. Mapped = [k \in Key |-> Absent]
    BY <1>2 DEF Mapped
  <1> QED BY <1>1, <1>3, MapOps DEF Map!Init, Mapped, At, Absent

(* Seen file by file, the table does what CdcMap does: a line changes one  *)
(* part of its file, then another, and of the file there is nothing else   *)
(* changed; or there is no room for it, or it is forgotten; a daemon killed*)
(* while it puts a new file may leave that file with another's parts, which*)
(* stay until they are replaced, and no other file is touched.             *)
THEOREM TableImplementsMap == Spec => MapSpec
  <1>1. Init => TableInv /\ Map!Init
    BY TableInvAtFirst, MapAtFirst
  <1>2. TableInv /\ [Next]_vars => TableInv' /\ [Map!Next]_(Map!vars)
    BY TableInvKept, MapSteps
  <1> QED BY <1>1, <1>2, PTL DEF Spec, MapSpec, Map!Spec
=============================================================================
