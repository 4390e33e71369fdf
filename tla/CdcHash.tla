------------------------------- MODULE CdcHash -------------------------------
(***************************************************************************)
(* The hash table the CDC keeps in shared memory (cdc/lib/cdc_hash.c), and *)
(* the three kinds of process that share it without a lock: the daemon     *)
(* that enters what the servers report (cdc/src/cdc_sub.c), cdctool that   *)
(* discards old files (cdc/src/cdctool.c), and the HTTP front ends that    *)
(* look a file up (network/cdc_http, network/cdc_so).                      *)
(*                                                                         *)
(* Keys, values and lines are those of CdcEntry.  A walk is a step per     *)
(* node, and each of the stores that follow it is a step.                  *)
(***************************************************************************)
EXTENDS CdcEntry

CONSTANTS
    Head,        \* Head[k]: hash1 % hashsize
    HashSize,    \* heads: nodes 0 .. HashSize - 1
    DataSize,    \* overflow nodes: HashSize .. HashSize + DataSize - 1
    MaxClear,    \* bound on the nodes cdctool clears
    MaxCrash     \* bound on the times the daemon is killed

ASSUME TableAssumption ==
    /\ HashSize \in Nat \ {0} /\ DataSize \in Nat
    /\ Head \in [Key -> 0 .. HashSize - 1]
    /\ MaxClear \in Nat /\ MaxCrash \in Nat

Index == 0 .. (HashSize + DataSize - 1)

VARIABLES
    node,     \* the nodes: k, v and next (0: the last of its chain)
    usedsize, \* overflow nodes handed out
    w,        \* the daemon: where it is, the file of the line, the node it is at
    line,     \* what is left of the line it has read
    d,        \* cdctool: the node it has chosen to clear, or none
    r,        \* a front end: where it is, the file asked for, node, and whose
              \* the parts it was given are
    cleared,  \* history: nodes cdctool has cleared
    torn,     \* history: the daemon was killed between data->next and usedsize++
    crashes

vars == <<node, usedsize, w, line, d, r, cleared, torn, crashes>>

Idle == [pc |-> "idle", key |-> NoKey, pos |-> 0]

Init ==
    /\ node = [i \in Index |-> [k |-> NoKey, v |-> Zero, next |-> 0]]
    /\ usedsize = 0
    /\ w = Idle /\ line = NoLine
    /\ d = [pc |-> "idle", pos |-> 0]
    /\ r = [pc |-> "idle", key |-> NoKey, pos |-> 0, got |-> {}]
    /\ cleared = {}
    /\ torn = FALSE
    /\ crashes = 0

\* The nodes from i to the end of its chain: what is in every set that has i and
\* with each node the one it is linked to.
Closed(S) == \A m \in S : node[m].next # 0 => node[m].next \in S
From(i) == {j \in Index : \A S \in SUBSET Index : i \in S /\ Closed(S) => j \in S}

----------------------------------------------------------------------------
(* The daemon                                                              *)

\* find_cdc_node starts at the head of the chain: for a line that was read, and
\* again for its second part, whatever became of the first.
Seek(k) == [pc |-> "find", key |-> k, pos |-> Head[k]]
Line(l) ==
    /\ w.pc = "idle" /\ line' = l /\ w' = Seek(l.key)
    /\ UNCHANGED <<node, usedsize, d, r, cleared, torn, crashes>>

PartDone ==
    /\ line' = Rest(line)
    /\ w' = IF Rest(line) = NoLine THEN Idle ELSE Seek(w.key)

\* One turn of the loop of find_cdc_node: the node is the one, or the last, or
\* the walk goes on.  Seeded faults: an emptied node ends the walk; only one of
\* the three hashes is compared.
WalkToEmptied(p, found, lost) ==
    IF node[p.pos].k = p.key THEN [p EXCEPT !.pc = found]
    ELSE IF node[p.pos].next = 0 \/ node[p.pos].k = NoKey THEN [p EXCEPT !.pc = lost]
    ELSE [p EXCEPT !.pos = node[p.pos].next]
WalkByOneHash(p, found, lost) ==
    IF node[p.pos].k # NoKey THEN [p EXCEPT !.pc = found]
    ELSE IF node[p.pos].next = 0 THEN [p EXCEPT !.pc = lost]
    ELSE [p EXCEPT !.pos = node[p.pos].next]
Walk(p, found, lost) ==
    IF node[p.pos].k = p.key THEN [p EXCEPT !.pc = found]
    ELSE IF node[p.pos].next = 0 THEN [p EXCEPT !.pc = lost]
    ELSE [p EXCEPT !.pos = node[p.pos].next]

FindStep ==
    /\ w.pc = "find" /\ w' = Walk(w, "update", "add")
    /\ UNCHANGED <<node, usedsize, line, d, r, cleared, torn, crashes>>

\* A line changes its part in place, whatever key the node has by now and
\* whosever the other parts are.  Seeded fault: the whole value is replaced.
WholeValue == Created(line)
PartInPlace == Changed(node[w.pos].v, line)
Update ==
    /\ w.pc = "update" /\ PartDone
    /\ node' = [node EXCEPT ![w.pos].v = PartInPlace]
    /\ UNCHANGED <<usedsize, d, r, cleared, torn, crashes>>

\* add_cdc_node_by_key: the head when it is empty, else the first emptied node
\* of the chain but for its last, else a new node linked after the last.
\* Seeded fault: the overflow area is taken to be one node longer.
AddHead ==
    /\ w.pc = "add"
    /\ w' = [w EXCEPT !.pc = IF node[Head[w.key]].k = NoKey THEN "key" ELSE "walk",
                      !.pos = Head[w.key]]
    /\ UNCHANGED <<node, usedsize, line, d, r, cleared, torn, crashes>>

RoomAndOne == usedsize =< DataSize
Room == usedsize < DataSize
AddStep ==
    /\ w.pc = "walk"
    /\ \/ node[w.pos].next = 0 /\ ~Room /\ PartDone
       \/ /\ node[w.pos].next # 0 \/ Room
          /\ w' = IF node[w.pos].next = 0 THEN [w EXCEPT !.pc = "link"]
                  ELSE IF node[w.pos].k = NoKey THEN [w EXCEPT !.pc = "key"]
                  ELSE [w EXCEPT !.pos = node[w.pos].next]
          /\ UNCHANGED line
    /\ UNCHANGED <<node, usedsize, d, r, cleared, torn, crashes>>

NewIndex == HashSize + usedsize
AddLink ==
    /\ w.pc = "link" /\ w' = [w EXCEPT !.pc = "used"]
    /\ node' = [node EXCEPT ![w.pos].next = NewIndex]
    /\ UNCHANGED <<usedsize, line, d, r, cleared, torn, crashes>>

\* Seeded fault: usedsize is left as it is.
UsedAsIs == usedsize
UsedOneMore == usedsize + 1
AddUsed ==
    /\ w.pc = "used" /\ w' = [w EXCEPT !.pc = "key", !.pos = NewIndex]
    /\ usedsize' = UsedOneMore
    /\ UNCHANGED <<node, line, d, r, cleared, torn, crashes>>

AddKey ==
    /\ w.pc = "key" /\ w' = [w EXCEPT !.pc = "val"]
    /\ node' = [node EXCEPT ![w.pos].k = w.key]
    /\ UNCHANGED <<usedsize, line, d, r, cleared, torn, crashes>>

AddVal ==
    /\ w.pc = "val" /\ PartDone
    /\ node' = [node EXCEPT ![w.pos].v = Created(line)]
    /\ UNCHANGED <<usedsize, d, r, cleared, torn, crashes>>

\* The daemon is killed; the memory stays and the next daemon attaches to it
\* (init_shm).
Crash ==
    /\ crashes < MaxCrash /\ crashes' = crashes + 1
    /\ w.pc # "idle" /\ w' = Idle /\ line' = NoLine
    /\ torn' = (torn \/ w.pc = "used")
    /\ UNCHANGED <<node, usedsize, d, r, cleared>>

----------------------------------------------------------------------------
(* cdctool and the front ends                                              *)

\* do_discard sorts the nodes in use by their times and clears the oldest by
\* their index, whatever they hold by then.
Choose ==
    /\ d.pc = "idle" /\ Cardinality(cleared) < MaxClear
    /\ \E i \in 0 .. (HashSize + usedsize - 1) :
        node[i].k # NoKey /\ d' = [pc |-> "clear", pos |-> i]
    /\ UNCHANGED <<node, usedsize, w, line, r, cleared, torn, crashes>>

\* clear_index_node: the key goes, the value and the link stay.  Seeded
\* fault: the link goes too.
ZeroLink == [node[d.pos] EXCEPT !.k = NoKey, !.next = 0]
ZeroKey == [node[d.pos] EXCEPT !.k = NoKey]
Clear ==
    /\ d.pc = "clear" /\ d' = [pc |-> "idle", pos |-> 0]
    /\ node' = [node EXCEPT ![d.pos] = ZeroKey]
    /\ cleared' = cleared \union {d.pos}
    /\ UNCHANGED <<usedsize, w, line, r, torn, crashes>>

\* A request for k, the walk, and what the front end then reads of the node.
Ask(k) ==
    /\ r.pc \in {"idle", "done"}
    /\ r' = [pc |-> "find", key |-> k, pos |-> Head[k], got |-> {}]
    /\ UNCHANGED <<node, usedsize, w, line, d, cleared, torn, crashes>>

AskStep ==
    /\ r.pc = "find" /\ r' = Walk(r, "read", "idle")
    /\ UNCHANGED <<node, usedsize, w, line, d, cleared, torn, crashes>>

Read ==
    /\ r.pc = "read"
    /\ r' = [r EXCEPT !.pc = "done", !.got = {node[r.pos].v[p].of : p \in Part}]
    /\ UNCHANGED <<node, usedsize, w, line, d, cleared, torn, crashes>>

----------------------------------------------------------------------------
Daemon == FindStep \/ Update \/ AddHead \/ AddStep \/ AddLink \/ AddUsed \/ AddKey \/ AddVal

Next ==
    \/ \E l \in Report : Line(l)
    \/ \E k \in Key : Ask(k)
    \/ Daemon
    \/ Crash
    \/ Choose \/ Clear
    \/ AskStep \/ Read

Spec == Init /\ [][Next]_vars

----------------------------------------------------------------------------
(* Properties                                                              *)

TypeOK ==
    /\ node \in [Index -> [k : Key \union {NoKey}, v : Value, next : Index]]
    /\ usedsize \in 0 .. DataSize
    /\ line \in Report \union {NoLine}
    /\ w.pos \in Index /\ d.pos \in Index /\ r.pos \in Index
    /\ cleared \subseteq Index

Linked == {i \in Index : i >= HashSize /\ \E j \in Index : node[j].next = i}

\* As long as the daemon was never killed between its two stores, every overflow
\* node handed out is on one chain, no chain comes back on itself, and a file is
\* in the chain of its hash: find_cdc_node always ends, and at the right node.
ChainsSound ==
    ~torn =>
        /\ \A i, j \in Index : node[i].next = node[j].next /\ i # j => node[i].next = 0
        /\ \A i \in Index : \E j \in From(i) : node[j].next = 0
        /\ Linked = HashSize .. (HashSize + usedsize - 1 + IF w.pc = "used" THEN 1 ELSE 0)
        /\ \A i \in Index : node[i].k # NoKey => i \in From(Head[node[i].k])

\* A file has one node at most, however cdctool empties nodes while the daemon
\* walks and adds.
KeyOnce ==
    \A i, j \in Index : node[i].k = node[j].k /\ node[i].k # NoKey => i = j

\* A front end is given the source or the servers of another file only where
\* cdctool has emptied a node and the daemon has put a new key over the old value.
\* In the table that lasts only if the daemon was killed before it put the new value.
ForeignOnlyAfterClear ==
    /\ r.pc = "done" /\ ~(r.got \subseteq {r.key, NoKey}) => r.pos \in cleared
    /\ \A i \in Index : node[i].k # NoKey =>
        \/ \A p \in Part : node[i].v[p].of \in {node[i].k, NoKey}
        \/ i \in cleared /\ (crashes > 0 \/ (w.pc = "val" /\ w.pos = i))

\* What every process that maps the table may rely on between any two stores of
\* the others, which take no lock.
TableSound == TypeOK /\ ChainsSound /\ KeyOnce /\ ForeignOnlyAfterClear

\* The table implements the map of files the front ends rely on.
NodeOf(k) == {i \in Index : node[i].k = k /\ ~(w.pc = "val" /\ w.pos = i)}
Map == INSTANCE CdcMap WITH
    map <- [k \in Key |-> IF NodeOf(k) = {} THEN [p \in {} |-> NoPart]
                          ELSE node[CHOOSE i \in NodeOf(k) : TRUE].v]
MapSpec == Map!Spec
=============================================================================
