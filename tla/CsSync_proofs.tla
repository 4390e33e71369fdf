--------------------------- MODULE CsSync_proofs ---------------------------
(***************************************************************************)
(* Theorems about CsSync: for any directories, servers and faults, its     *)
(* variables stay in their domains, a CS that waits for an answer          *)
(* (sync_para.flag = 1) is owed one, no directory is forgotten, and a CS   *)
(* goes on line only in sync.  At the end, for Config: the two tables of   *)
(* servers, from which the CS takes its peers, agree.                      *)
(***************************************************************************)
EXTENDS CsSync, Config, FiniteSetTheorems, WellFoundedInduction, TLAPS

(* An entry is with a connected peer, and is the last directory that one   *)
(* has been asked for.                                                     *)
EntryIsOwed ==
    \A p \in Peer : asked[p] # NoDir =>
        p \in up /\ owed[p] # <<>> /\ Last(owed[p]) = asked[p]

(* While flag is 1 some peer has an entry.                                 *)
BusyHasEntry == flag = 1 => \E p \in Peer : asked[p] # NoDir

IInv == TypeOK /\ behind \in Int /\ EntryIsOwed /\ BusyHasEntry

----------------------------------------------------------------------------
(* Sequences                                                               *)

(* A finite set put in some order, as init_sync_list puts the directories. *)
LEMMA SetToSeqIsSeq ==
  ASSUME NEW S, IsFiniteSet(S) PROVE SetToSeq(S) \in Seq(S)
  <1>1. Cardinality(S) \in Nat /\ ExistsBijection(1 .. Cardinality(S), S)
    BY FS_CardinalityType
  <1>2. PICK f \in [1 .. Cardinality(S) -> S] :
            \A a, b \in 1 .. Cardinality(S) : f[a] = f[b] => a = b
    BY <1>1, Zenon DEF ExistsBijection, Bijection, Injection, IsInjective
  <1>3. IsInjective(f)
    BY <1>2 DEF IsInjective
  <1>4. SetToSeq(S) \in [1 .. Cardinality(S) -> S]
    BY <1>2, <1>3, Zenon DEF SetToSeq
  <1> QED BY <1>1, <1>4

(* The last element of a sequence is the one appended to it.               *)
LEMMA AppendLast ==
  ASSUME NEW S, NEW s \in Seq(S), NEW e \in S
  PROVE  Append(s, e) \in Seq(S) /\ Append(s, e) # <<>> /\ Last(Append(s, e)) = e
  BY DEF Last

(* Head and tail of a sequence that is not empty.                          *)
LEMMA HeadTail ==
  ASSUME NEW S, NEW s \in Seq(S), s # <<>>
  PROVE  Tail(s) \in Seq(S) /\ Head(s) \in S
  OBVIOUS

(* One sequence after the other.                                           *)
LEMMA ConcatIsSeq ==
  ASSUME NEW S, NEW s \in Seq(S), NEW t \in Seq(S) PROVE s \o t \in Seq(S)
  OBVIOUS

(* What is left of a sequence without one of its elements.                 *)
LEMMA RemoveAtIsSeq ==
  ASSUME NEW S, NEW s \in Seq(S), NEW i \in DOMAIN s
  PROVE  RemoveAt(s, i) \in Seq(S)
  <1>1. i \in 1 .. Len(s) /\ Len(s) \in Nat
    OBVIOUS
  <1>2. SubSeq(s, 1, i - 1) \in Seq(S) /\ SubSeq(s, i + 1, Len(s)) \in Seq(S)
    BY <1>1
  <1> QED BY <1>2 DEF RemoveAt

----------------------------------------------------------------------------
(* A CS starts with nothing asked for.                                     *)
LEMMA InitIInv == Init => IInv
  <1> SUFFICES ASSUME Init PROVE IInv
    OBVIOUS
  <1>1. crossed \in BOOLEAN /\ archive \in BOOLEAN
    BY DEF Init
  <1>2. TypeOK
    BY <1>1, GroupAssumption DEF Init, TypeOK, ServerStat
  <1> QED BY <1>2 DEF Init, IInv, EntryIsOwed, BusyHasEntry

(* The state after a step in which the peers' entries, connections and     *)
(* requests stay and flag does not become 1.                               *)
LEMMA QuietStep ==
  ASSUME EntryIsOwed, BusyHasEntry, UNCHANGED <<asked, up, owed>>, flag' = 1 => flag = 1
  PROVE  EntryIsOwed' /\ BusyHasEntry'
  BY DEF EntryIsOwed, BusyHasEntry

(* A connected peer is asked for a directory.                              *)
LEMMA SubSyncType ==
  ASSUME TypeOK, NEW p \in Peer, NEW d \in Dir, SubSync(p, d)
  PROVE  /\ flag' = 1
         /\ asked' \in [Peer -> Dir \union {NoDir}]
         /\ owed' \in [Peer -> Seq(Dir)]
  <1>1. Append(owed[p], d) \in Seq(Dir)
    BY DEF TypeOK
  <1> QED BY <1>1 DEF TypeOK, SubSync

(* The peer has the entry then, and the request last of those it owes.     *)
LEMMA SubSyncStep ==
  ASSUME TypeOK, EntryIsOwed, NEW p \in up, NEW d \in Dir, SubSync(p, d), up' = up
  PROVE  EntryIsOwed' /\ BusyHasEntry'
  <1>1. p \in Peer /\ d # NoDir
    BY GroupAssumption DEF TypeOK
  <1>2. /\ Append(owed[p], d) \in Seq(Dir)
        /\ Append(owed[p], d) # <<>>
        /\ Last(Append(owed[p], d)) = d
    BY <1>1, AppendLast DEF TypeOK
  <1>3. /\ asked' = [asked EXCEPT ![p] = d]
        /\ owed' = [owed EXCEPT ![p] = Append(@, d)]
    BY DEF SubSync
  <1> QED BY <1>1, <1>2, <1>3 DEF TypeOK, EntryIsOwed, BusyHasEntry

(* Each step of the CS, of its peers and of operators keeps IInv.          *)
LEMMA NextIInv == IInv /\ [Next]_vars => IInv'
  <1> SUFFICES ASSUME IInv, [Next]_vars PROVE IInv'
    OBVIOUS
  <1>t. TypeOK /\ behind \in Int /\ EntryIsOwed /\ BusyHasEntry
    BY DEF IInv
  <1>d. Origin \in Peer /\ Mate \subseteq Peer /\ Far \subseteq Peer /\ Cs \subseteq Peer
    BY DEF Peer, Cs
  <1> USE GroupAssumption DEF IInv, TypeOK, ServerStat, syncVars, peerVars, taskVars, Fault
  <1>1. CASE TickBegin
    <2>1. list' \in Seq(Entry)
      <3>1. DirList \in Seq(Entry)
        <4>1. IsFiniteSet(Dir \X {Nobody})
          BY FS_Product, FS_Singleton
        <4>2. DirList \in Seq(Dir \X {Nobody})
          BY <4>1, SetToSeqIsSeq DEF DirList
        <4> QED BY <4>2 DEF Entry
      <3>2. DirList \o list \in Seq(Entry)
        BY <1>t, <3>1
      <3>3. list' = DirList \o list \/ list' = list
        BY <1>1 DEF TickBegin, Restart
      <3> QED BY <1>t, <3>2, <3>3
    <2>b. crossed' \in BOOLEAN
      BY <1>1, <1>t, Zenon DEF TickBegin, Restart, TypeOK
    <2>2. TypeOK' /\ behind' \in Int
      <3>1. /\ self' \in ServerStat /\ flag' \in 0 .. 2 /\ faults' \in 0 .. MaxFault
            /\ answered' \subseteq Dir \X Peer /\ pc' = "sync"
            /\ UNCHANGED <<archive, asked, peerVars, taskVars>>
        BY <1>1, <1>t DEF TickBegin, Restart
      <3> QED BY <1>t, <2>1, <2>b, <3>1
    <2>3. UNCHANGED <<asked, up, owed>> /\ (flag' = 1 => flag = 1)
      BY <1>1 DEF TickBegin, Restart
    <2> QED BY <1>t, <2>2, <2>3, QuietStep
  <1>2. CASE NoSync \/ TooLong \/ NotNow \/ NoMore
    <2>b. crossed' \in BOOLEAN
      BY <1>2, <1>t, Zenon DEF NoSync, TooLong, NotNow, NoMore, TypeOK
    <2>1. TypeOK' /\ behind' \in Int
      <3>1. /\ flag' \in 0 .. 2 /\ faults' \in 0 .. MaxFault
            /\ pc' \in {"sync", "online", "tasks"}
            /\ UNCHANGED <<archive, self, list, asked, answered, peerVars, taskVars>>
        BY <1>2, <1>t DEF NoSync, TooLong, NotNow, NoMore, MayAsk
      <3> QED BY <1>t, <2>b, <3>1
    <2>2. UNCHANGED <<asked, up, owed>> /\ (flag' = 1 => flag = 1)
      BY <1>2 DEF NoSync, TooLong, NotNow, NoMore, MayAsk
    <2> QED BY <1>t, <2>1, <2>2, QuietStep
  <1>3. ASSUME NEW p \in Peer, Ask(p) PROVE IInv'
    <2>1. Head(list) \in Entry /\ Tail(list) \in Seq(Entry)
      BY <1>3, <1>t, HeadTail DEF Ask
    <2>2. Head(list)[1] \in Dir
      BY <2>1 DEF Entry
    <2>3. p \in up
      BY <1>3 DEF Ask, Source, ReadyCs, ReadyIn
    <2>4. SubSync(p, Head(list)[1])
      BY <1>3 DEF Ask
    <2>5. TypeOK' /\ behind' \in Int
      BY <1>3, <1>t, <2>1, <2>2, <2>4, SubSyncType DEF Ask, MayAsk
    <2>6. up' = up
      BY <1>3 DEF Ask
    <2>7. EntryIsOwed' /\ BusyHasEntry'
      BY <1>t, <2>2, <2>3, <2>4, <2>6, SubSyncStep
    <2> QED BY <2>5, <2>7
  <1>4. CASE NoSource
    <2>1. list' \in Seq(Entry)
      <3>1. Head(list) \in Entry /\ Tail(list) \in Seq(Entry)
        BY <1>4, <1>t, HeadTail DEF NoSource
      <3> QED BY <1>4, <1>t, <3>1, AppendLast DEF NoSource
    <2>2. TypeOK' /\ behind' \in Int
      BY <1>4, <1>t, <2>1 DEF NoSource, MayAsk
    <2>3. UNCHANGED <<asked, up, owed, flag>>
      BY <1>4 DEF NoSource
    <2> QED BY <1>t, <2>2, <2>3, QuietStep
  <1>5. CASE GoOnline \/ FinTask \/ Expire \/ TickEnd
    <2>1. TypeOK' /\ behind' \in Int
      BY <1>5, <1>t DEF GoOnline, FinTask, Expire, TickEnd
    <2>2. UNCHANGED <<asked, up, owed, flag>>
      BY <1>5 DEF GoOnline, FinTask, Expire, TickEnd
    <2> QED BY <1>t, <2>1, <2>2, QuietStep
  <1>6. ASSUME NEW d \in Dir, VossSyncDir(d) PROVE IInv'
    <2>1. <<<<d, Nobody>>>> \o list \in Seq(Entry)
      <3>1. <<d, Nobody>> \in Entry
        BY DEF Entry
      <3>2. <<<<d, Nobody>>>> \in Seq(Entry)
        BY <3>1
      <3> QED BY <1>t, <3>2
    <2>b. crossed' \in BOOLEAN
      BY <1>6, <1>t, Zenon DEF VossSyncDir, TypeOK
    <2>2. TypeOK' /\ behind' \in Int
      BY <1>6, <1>t, <2>1, <2>b DEF VossSyncDir
    <2>3. UNCHANGED <<asked, up, owed>> /\ (flag' = 1 => flag = 1)
      BY <1>6 DEF VossSyncDir
    <2> QED BY <1>t, <2>2, <2>3, QuietStep
  <1>7. ASSUME NEW p \in Peer, NewTask(p) PROVE IInv'
    <2>1. TypeOK' /\ behind' \in Int
      BY <1>7, <1>t DEF NewTask
    <2>2. UNCHANGED <<asked, up, owed, flag>>
      BY <1>7 DEF NewTask
    <2> QED BY <1>t, <2>1, <2>2, QuietStep
  <1>8. ASSUME NEW p \in Peer, SyncDirRsp(p) PROVE IInv'
    <2>1. Head(owed[p]) \in Dir /\ Tail(owed[p]) \in Seq(Dir)
      BY <1>8, <1>t, HeadTail DEF SyncDirRsp
    <2>2. TypeOK' /\ behind' \in Int
      BY <1>8, <1>t, <2>1 DEF SyncDirRsp, Idle
    <2>3. /\ up' = up /\ flag' = 0
          /\ asked' = [asked EXCEPT ![p] = NoDir]
          /\ owed' = [owed EXCEPT ![p] = Tail(@)]
      BY <1>8 DEF SyncDirRsp, Idle
    <2>4. EntryIsOwed' /\ BusyHasEntry'
      BY <1>t, <2>3 DEF EntryIsOwed, BusyHasEntry
    <2> QED BY <2>2, <2>4
  <1>9. ASSUME NEW p \in Peer, Connect(p) PROVE IInv'
    <2>1. TypeOK' /\ behind' \in Int
      BY <1>9, <1>t DEF Connect
    <2>2. up' = up \union {p} /\ UNCHANGED <<asked, owed, flag>>
      BY <1>9 DEF Connect
    <2>3. EntryIsOwed' /\ BusyHasEntry'
      BY <1>t, <2>2 DEF EntryIsOwed, BusyHasEntry
    <2> QED BY <2>1, <2>3
  <1>10. ASSUME NEW p \in Peer, NEW s \in ServerStat, Hear(p, s) PROVE IInv'
    <2>1. TypeOK' /\ behind' \in Int
      BY <1>10, <1>t DEF Hear
    <2>2. UNCHANGED <<asked, up, owed, flag>>
      BY <1>10 DEF Hear
    <2> QED BY <1>t, <2>1, <2>2, QuietStep
  <1>11. ASSUME NEW p \in Peer, Close(p) PROVE IInv'
    <2>1. list' \in Seq(Entry)
      <3>1. CASE asked[p] = NoDir
        BY <1>11, <1>t, <3>1 DEF Close, PutBack
      <3>2. CASE asked[p] # NoDir
        <4>1. asked[p] \in Dir
          BY <1>t, <3>2
        <4>2. list' = Append(list, Back(p))
          BY <1>11, <3>2 DEF Close, PutBack
        <4>3. Back(p) \in Entry
          BY <4>1 DEF Back, Entry
        <4> QED BY <1>t, <4>2, <4>3, AppendLast
      <3> QED BY <3>1, <3>2
    <2>2. /\ up' = up \ {p} /\ owed' = owed
          /\ flag' = (IF asked[p] = NoDir THEN flag ELSE 0)
          /\ asked' = [asked EXCEPT ![p] = NoDir]
      BY <1>11 DEF Close, FlagOnClose
    <2>3. TypeOK' /\ behind' \in Int
      BY <1>11, <1>t, <2>1, <2>2 DEF Close
    <2>4. EntryIsOwed' /\ BusyHasEntry'
      BY <1>t, <2>2 DEF EntryIsOwed, BusyHasEntry
    <2> QED BY <2>3, <2>4
  <1>12. ASSUME NEW p \in Peer, ServerForgets(p) PROVE IInv'
    <2>1. Tail(owed[p]) \in Seq(Dir)
      BY <1>12, <1>t, HeadTail DEF ServerForgets
    <2>2. TypeOK' /\ behind' \in Int
      BY <1>12, <1>t, <2>1 DEF ServerForgets
    <2>3. /\ p \notin up /\ UNCHANGED <<asked, up, flag>>
          /\ owed' = [owed EXCEPT ![p] = Tail(@)]
      BY <1>12 DEF ServerForgets
    <2>4. EntryIsOwed' /\ BusyHasEntry'
      BY <1>t, <2>3 DEF EntryIsOwed, BusyHasEntry
    <2> QED BY <2>2, <2>4
  <1>13. CASE SetOffline \/ SetOnline
    <2>1. TypeOK' /\ behind' \in Int
      BY <1>13, <1>t DEF SetOffline, SetOnline
    <2>2. UNCHANGED <<asked, up, owed, flag>>
      BY <1>13 DEF SetOffline, SetOnline
    <2> QED BY <1>t, <2>1, <2>2, QuietStep
  <1>14. CASE ArchiveBegin \/ ArchiveEnd
    <2>1. TypeOK' /\ behind' \in Int
      BY <1>14, <1>t DEF ArchiveBegin, ArchiveEnd
    <2>2. UNCHANGED <<asked, up, owed, flag>>
      BY <1>14 DEF ArchiveBegin, ArchiveEnd
    <2> QED BY <1>t, <2>1, <2>2, QuietStep
  <1>15. CASE ArchiveAsk
    <2>1. PICK i \in First(Askable) :
              SubSync(list[i][2], list[i][1]) /\ list' = RemoveAt(list, i)
      BY <1>15 DEF ArchiveAsk
    <2>2. i \in DOMAIN list /\ list[i][2] \in up
      BY DEF First, Askable
    <2>3. list[i] \in Entry /\ RemoveAt(list, i) \in Seq(Entry)
      BY <1>t, <2>2, RemoveAtIsSeq
    <2>4. list[i][1] \in Dir
      BY <2>3 DEF Entry
    <2>5. TypeOK' /\ behind' \in Int
      BY <1>15, <1>t, <2>1, <2>2, <2>3, <2>4, SubSyncType DEF ArchiveAsk
    <2>6. up' = up
      BY <1>15 DEF ArchiveAsk
    <2>7. EntryIsOwed' /\ BusyHasEntry'
      BY <1>t, <2>1, <2>2, <2>4, <2>6, SubSyncStep
    <2> QED BY <2>5, <2>7
  <1>16. CASE Decompose
    <2> DEFINE each(i) == SetToSeq({list[i][1]} \X Sources)
               rest(i) == RemoveAt(list, i)
    <2>1. PICK i \in First(Whole) :
              /\ list' = each(i) \o rest(i) \/ list' = rest(i) \o each(i)
              /\ pc' = "online" \/ pc' = pc
      BY <1>16 DEF Decompose
    <2>2. i \in DOMAIN list
      BY DEF First, Whole
    <2>3. list[i] \in Entry /\ rest(i) \in Seq(Entry)
      BY <1>t, <2>2, RemoveAtIsSeq
    <2>4. each(i) \in Seq(Entry)
      <3>1. Sources \subseteq Cs /\ IsFiniteSet(Cs)
        BY DEF Sources, Cs
      <3>2. IsFiniteSet({list[i][1]} \X Sources)
        BY <3>1, FS_Product, FS_Singleton, FS_Subset
      <3>3. {list[i][1]} \X Sources \subseteq Entry
        BY <1>d, <2>3, <3>1 DEF Entry
      <3>4. each(i) \in Seq({list[i][1]} \X Sources)
        BY <3>2, SetToSeqIsSeq
      <3> QED BY <3>3, <3>4
    <2>5. list' \in Seq(Entry)
      <3>1. each(i) \o rest(i) \in Seq(Entry) /\ rest(i) \o each(i) \in Seq(Entry)
        BY <2>3, <2>4, ConcatIsSeq
      <3> QED BY <2>1, <3>1, Zenon
    <2>6. /\ pc' \in {"online", "asking"}
          /\ UNCHANGED <<archive, self, flag, asked, peerVars, taskVars, answered, crossed, faults>>
      BY <1>16, <2>1 DEF Decompose
    <2>7. TypeOK' /\ behind' \in Int
      BY <1>t, <2>5, <2>6
    <2>8. UNCHANGED <<asked, up, owed, flag>>
      BY <2>6
    <2> QED BY <1>t, <2>7, <2>8, QuietStep
  <1>17. CASE UNCHANGED vars
    BY <1>17, <1>t DEF vars, EntryIsOwed, BusyHasEntry
  <1> QED
    BY <1>1, <1>2, <1>3, <1>4, <1>5, <1>6, <1>7, <1>8, <1>9, <1>10, <1>11, <1>12,
       <1>13, <1>14, <1>15, <1>16, <1>17 DEF Next, AskSome

----------------------------------------------------------------------------
(* The inductive invariant holds in every reachable state.                 *)
THEOREM Invariance == Spec => []IInv
  BY InitIInv, NextIInv, PTL DEF Spec

(* Every variable of a CS that catches up stays in its domain; in          *)
(* particular total_synced_task never passes total_sync_task.              *)
THEOREM TypeCorrect == Spec => []TypeOK
  BY Invariance, PTL DEF IInv

(* A CS that waits for an answer is owed it: the entry is with a connected *)
(* peer, and it is the last that peer has been asked for.                  *)
THEOREM WaitIsForSomeone == Spec => []WaitsForSomeone
  <1>1. IInv => WaitsForSomeone
    BY DEF IInv, TypeOK, EntryIsOwed, BusyHasEntry, WaitsForSomeone
  <1> QED BY <1>1, Invariance, PTL

----------------------------------------------------------------------------
(* Whom a CS that is no archive asks                                       *)

(* Only an archive goes through the list, and only an archive's mates have *)
(* entries.                                                                *)
AskInv == TypeOK /\ (pc = "asking" => archive) /\ OriginIsAsked

(* No row of csinfo is one do_active_sync looks for.                       *)
LEMMA SourceIsOrigin == Source \subseteq {Origin}
  <1>1. \A S : Row(S) = {}
    BY DEF Row, ArchiveIsp
  <1>2. ReadyCs = {}
    BY <1>1 DEF ReadyCs, ReadyIn
  <1> QED BY <1>2 DEF Source

(* Entries come from Ask and ArchiveAsk only.                              *)
LEMMA NextAskInv == AskInv /\ TypeOK' /\ [Next]_vars => AskInv'
  <1> SUFFICES ASSUME AskInv, TypeOK', [Next]_vars PROVE AskInv'
    OBVIOUS
  <1>t. TypeOK /\ (pc = "asking" => archive) /\ OriginIsAsked
    BY DEF AskInv
  <1>o. Origin \notin Cs
    BY GroupAssumption DEF Cs
  <1>a. archive' = archive
    BY DEF Next, vars, TickBegin, NoSync, TooLong, NotNow, NoMore, AskSome, Ask, NoSource,
       GoOnline, ArchiveBegin, ArchiveAsk, Decompose, ArchiveEnd, FinTask, Expire, TickEnd,
       VossSyncDir, NewTask, SyncDirRsp, Connect, Close, ServerForgets, Hear, SetOffline,
       SetOnline
  <1>p. pc' = "asking" => archive
    <2>1. CASE ArchiveBegin
      BY <2>1 DEF ArchiveBegin
    <2>2. CASE ~ArchiveBegin
      <3>1. pc' = "asking" => pc = "asking"
        BY <2>2 DEF Next, vars, TickBegin, NoSync, TooLong, NotNow, NoMore, AskSome, Ask,
           MayAsk, NoSource, GoOnline, ArchiveAsk, Decompose, ArchiveEnd, FinTask, Expire,
           TickEnd, VossSyncDir, NewTask, SyncDirRsp, Connect, Close, ServerForgets, Hear,
           SetOffline, SetOnline
      <3> QED BY <1>t, <3>1
    <2> QED BY <2>1, <2>2
  <1>1. CASE AskSome
    <2>1. PICK p \in Peer : Ask(p)
      BY <1>1 DEF AskSome
    <2>2. p = Origin
      BY <2>1, SourceIsOrigin DEF Ask
    <2>3. \A q \in Cs : asked'[q] = asked[q]
      BY <1>o, <1>t, <2>1, <2>2 DEF Ask, SubSync, TypeOK, Peer
    <2> QED BY <1>t, <1>a, <1>p, <2>3 DEF AskInv, OriginIsAsked
  <1>2. CASE ArchiveAsk
    BY <1>2, <1>t, <1>a, <1>p DEF ArchiveAsk, AskInv, OriginIsAsked
  <1>3. ASSUME NEW p \in Peer, SyncDirRsp(p) \/ Close(p) PROVE AskInv'
    <2>1. asked' = [asked EXCEPT ![p] = NoDir]
      BY <1>3 DEF SyncDirRsp, Close
    <2>2. \A q \in Cs : asked[q] = NoDir => asked'[q] = NoDir
      BY <1>t, <2>1 DEF TypeOK, Peer
    <2> QED BY <1>t, <1>a, <1>p, <2>2 DEF AskInv, OriginIsAsked
  <1>4. CASE UNCHANGED asked
    BY <1>4, <1>t, <1>a, <1>p DEF AskInv, OriginIsAsked
  <1> QED
    BY <1>1, <1>2, <1>3, <1>4
    DEF Next, vars, syncVars, TickBegin, Restart, NoSync, TooLong, NotNow, NoMore, NoSource,
        GoOnline, ArchiveBegin, Decompose, ArchiveEnd, FinTask, Expire, TickEnd, VossSyncDir,
        NewTask, Connect, ServerForgets, Hear, SetOffline, SetOnline

(* A CS that is no archive asks nobody but the FCS, so that none of the    *)
(* servers of its group, which do_active_sync is written to prefer, ever   *)
(* has an entry.                                                           *)
THEOREM NoMateIsAsked == Spec => []OriginIsAsked
  <1>1. Init => (pc = "asking" => archive) /\ OriginIsAsked
    BY DEF Init, OriginIsAsked, Peer
  <1>2. Init /\ TypeOK => AskInv
    BY <1>1 DEF AskInv
  <1>3. AskInv => OriginIsAsked
    BY DEF AskInv
  <1> QED BY <1>2, <1>3, NextAskInv, TypeCorrect, PTL DEF Spec

----------------------------------------------------------------------------
(* No directory is forgotten                                               *)

(* The list has not been begun: nothing is asked for, nothing is fetched.  *)
NotBegun ==
    /\ self \in {"UNKOWN_STAT", "OFF_LINE"} /\ fetching = 0
    /\ pc \in {"event", "sync", "tasks"}
    /\ \A p \in Peer : owed[p] = <<>>

(* Each directory is in the list, or asked for, or answered; of an archive *)
(* so for each server to ask.                                              *)
Remembered ==
    \A d \in Dir :
        \/ Listed(d, Nobody)
        \/ ~archive /\ \E p \in Peer : <<d, p>> \in answered \/ asked[p] = d
        \/ archive /\ \A p \in Sources : <<d, p>> \in answered \/ asked[p] = d \/ Listed(d, p)

(* A connected peer owes the directory of its entry and no other.          *)
OneAnswer == ~crossed => \A p \in up : owed[p] # <<>> => owed[p] = <<asked[p]>>

(* A CS that is no archive has one entry with a peer while it is busy.     *)
OneAsked ==
    ~crossed /\ ~archive =>
        /\ flag # 1 => \A p \in Peer : asked[p] = NoDir
        /\ \A p, q \in Peer : asked[p] # NoDir /\ asked[q] # NoDir => p = q

(* A flag of 2 says that the list is empty, or has not been begun.         *)
DoneIsEmpty == flag = 2 => list = <<>> /\ (archive => NotBegun)

SyncInv ==
    /\ IInv /\ AskInv /\ OneAnswer /\ OneAsked /\ DoneIsEmpty
    /\ crossed \/ NotBegun \/ Remembered

----------------------------------------------------------------------------
(* What a sequence has                                                     *)
Has(s, e) == \E i \in DOMAIN s : s[i] = e

LEMMA SetToSeqHas ==
  ASSUME NEW S, IsFiniteSet(S), NEW e \in S PROVE Has(SetToSeq(S), e)
  <1> DEFINE n == Cardinality(S)
             f == SetToSeq(S)
  <1>1. n \in Nat /\ ExistsBijection(1 .. n, S)
    BY FS_CardinalityType
  <1>2. PICK g \in [1 .. n -> S] : \A a, b \in 1 .. n : g[a] = g[b] => a = b
    BY <1>1, Zenon DEF ExistsBijection, Bijection, Injection, IsInjective
  <1>3. IsInjective(g)
    BY <1>2 DEF IsInjective
  <1>4. f \in [1 .. n -> S] /\ IsInjective(f)
    BY <1>2, <1>3, Zenon DEF SetToSeq
  <1> HIDE DEF f
  <1>5. f \in Injection(1 .. n, S)
    BY <1>4 DEF Injection, IsInjective
  <1>6. Cardinality(1 .. n) = n
    BY <1>1, FS_Interval
  <1>7. f \in Surjection(1 .. n, S)
    BY <1>1, <1>5, <1>6, FS_Injection
  <1>8. \E i \in 1 .. n : f[i] = e
    BY <1>7 DEF Surjection
  <1>9. DOMAIN f = 1 .. n
    BY <1>4
  <1> QED BY <1>8, <1>9 DEF Has, f

LEMMA AppendHas ==
  ASSUME NEW S, NEW s \in Seq(S), NEW e \in S
  PROVE  Has(Append(s, e), e) /\ \A x : Has(s, x) => Has(Append(s, e), x)
  <1>1. Append(s, e)[Len(s) + 1] = e /\ Len(s) + 1 \in DOMAIN Append(s, e)
    OBVIOUS
  <1>2. \A i \in DOMAIN s : i \in DOMAIN Append(s, e) /\ Append(s, e)[i] = s[i]
    OBVIOUS
  <1> HIDE DEF Has
  <1> QED BY <1>1, <1>2 DEF Has

LEMMA ConcatHas ==
  ASSUME NEW S, NEW s \in Seq(S), NEW t \in Seq(S), NEW x, Has(s, x) \/ Has(t, x)
  PROVE  Has(s \o t, x)
  <1>1. CASE Has(s, x)
    <2>1. PICK i \in DOMAIN s : s[i] = x
      BY <1>1 DEF Has
    <2>2. i \in DOMAIN (s \o t) /\ (s \o t)[i] = x
      BY <2>1
    <2> QED BY <2>2 DEF Has
  <1>2. CASE Has(t, x)
    <2>1. PICK i \in DOMAIN t : t[i] = x
      BY <1>2 DEF Has
    <2>2. Len(s) + i \in DOMAIN (s \o t) /\ (s \o t)[Len(s) + i] = x
      BY <2>1
    <2> QED BY <2>2 DEF Has
  <1> QED BY <1>1, <1>2

LEMMA TailHas ==
  ASSUME NEW S, NEW s \in Seq(S), s # <<>>, NEW x, Has(s, x), x # Head(s)
  PROVE  Has(Tail(s), x)
  <1>1. PICK i \in DOMAIN s : s[i] = x
    BY DEF Has
  <1>2. i # 1
    BY <1>1
  <1>3. i - 1 \in DOMAIN Tail(s) /\ Tail(s)[i - 1] = s[i]
    BY <1>1, <1>2
  <1> QED BY <1>1, <1>3 DEF Has

LEMMA RemoveAtHas ==
  ASSUME NEW S, NEW s \in Seq(S), NEW i \in DOMAIN s, NEW x, Has(s, x), x # s[i]
  PROVE  Has(RemoveAt(s, i), x)
  <1> DEFINE a == SubSeq(s, 1, i - 1)
             b == SubSeq(s, i + 1, Len(s))
  <1>0. i \in 1 .. Len(s) /\ Len(s) \in Nat
    OBVIOUS
  <1>1. PICK j \in DOMAIN s : s[j] = x /\ j # i
    BY DEF Has
  <1>2. a \in Seq(S) /\ b \in Seq(S) /\ Len(a) = i - 1 /\ Len(b) = Len(s) - i
    BY <1>0
  <1>5. Has(a, x) \/ Has(b, x) => Has(RemoveAt(s, i), x)
    <2> HIDE DEF a, b
    <2>1. Has(a, x) \/ Has(b, x) => Has(a \o b, x)
      BY <1>2, ConcatHas
    <2> QED BY <2>1 DEF a, b, RemoveAt
  <1>3. CASE j < i
    <2>1. j \in DOMAIN a /\ a[j] = s[j]
      BY <1>0, <1>1, <1>3
    <2>2. Has(a, x)
      BY <1>1, <2>1 DEF Has
    <2> QED BY <1>5, <2>2
  <1>4. CASE j > i
    <2>1. j - i \in DOMAIN b /\ b[j - i] = s[j]
      BY <1>0, <1>1, <1>4
    <2>2. Has(b, x)
      BY <1>1, <2>1 DEF Has
    <2> QED BY <1>5, <2>2
  <1> QED BY <1>0, <1>1, <1>3, <1>4

----------------------------------------------------------------------------
(* The steps                                                               *)

(* What is remembered stays so when each entry of the list and each one    *)
(* asked for is still there, or has become one of the next kind.           *)
LEMMA RememberedStays ==
  ASSUME Remembered, archive' = archive, answered \subseteq answered',
         \A d \in Dir, p \in Sources : Listed(d, p) => Listed(d, p)' \/ asked'[p] = d,
         \A d \in Dir : Listed(d, Nobody) =>
           \/ Listed(d, Nobody)'
           \/ ~archive /\ \E p \in Peer : asked'[p] = d
           \/ archive /\ \A p \in Sources : Listed(d, p)',
         \A d \in Dir, p \in Peer : asked[p] = d =>
           \/ asked'[p] = d \/ <<d, p>> \in answered'
           \/ ~archive /\ Listed(d, Nobody)'
           \/ archive /\ Listed(d, p)'
  PROVE  Remembered'
  <1>0. Sources \subseteq Peer
    BY DEF Sources, Peer
  <1> SUFFICES ASSUME NEW d \in Dir
               PROVE  \/ Listed(d, Nobody)'
                      \/ ~archive /\ \E p \in Peer : <<d, p>> \in answered' \/ asked'[p] = d
                      \/ archive /\ \A p \in Sources :
                            <<d, p>> \in answered' \/ asked'[p] = d \/ Listed(d, p)'
    BY DEF Remembered
  <1> HIDE DEF Listed
  <1>1. CASE Listed(d, Nobody)
    BY <1>1
  <1>2. CASE ~archive /\ \E p \in Peer : <<d, p>> \in answered \/ asked[p] = d
    BY <1>2
  <1>3. CASE archive /\ \A p \in Sources : <<d, p>> \in answered \/ asked[p] = d \/ Listed(d, p)
    BY <1>0, <1>3
  <1> QED BY <1>1, <1>2, <1>3 DEF Remembered

LEMMA ArchiveStays == ASSUME Next PROVE archive' = archive
  BY DEF Next, TickBegin, NoSync, TooLong, NotNow, NoMore, AskSome, Ask, NoSource,
       GoOnline, ArchiveBegin, ArchiveAsk, Decompose, ArchiveEnd, FinTask, Expire, TickEnd,
       VossSyncDir, NewTask, SyncDirRsp, Connect, Close, ServerForgets, Hear, SetOffline,
       SetOnline

LEMMA CrossedStays == ASSUME Next, crossed PROVE crossed'
  BY DEF Next, TickBegin, Restart, NoSync, TooLong, NotNow, NoMore, AskSome, Ask, NoSource,
       GoOnline, ArchiveBegin, ArchiveAsk, Decompose, ArchiveEnd, FinTask, Expire, TickEnd,
       VossSyncDir, NewTask, SyncDirRsp, Connect, Close, ServerForgets, Hear, SetOffline,
       SetOnline

(* An entry is asked of a peer that owes nothing and had no entry.         *)
LEMMA AskIsFree ==
  ASSUME SyncInv, ~crossed, NEW p \in up, asked[p] = NoDir
  PROVE  p \in Peer /\ owed[p] = <<>>
  <1>1. p \in Peer /\ owed[p] \in Seq(Dir) /\ NoDir \notin Dir
    BY GroupAssumption DEF SyncInv, IInv, TypeOK
  <1>2. ASSUME owed[p] # <<>> PROVE FALSE
    <2>1. owed[p] = <<asked[p]>>
      BY <1>2 DEF SyncInv, OneAnswer
    <2>2. owed[p][1] \in Dir
      BY <1>1, <2>1
    <2> QED BY <1>1, <2>1, <2>2
  <1> QED BY <1>1, <1>2

(* The answer a peer gives is about the directory of its entry.            *)
LEMMA AnswerIsAsked ==
  ASSUME SyncInv, ~crossed, NEW p \in Peer, SyncDirRsp(p)
  PROVE  asked[p] \in Dir /\ Head(owed[p]) = asked[p] /\ Tail(owed[p]) = <<>>
  <1>1. p \in up /\ owed[p] # <<>> /\ owed[p] \in Seq(Dir)
    BY DEF SyncDirRsp, SyncInv, IInv, TypeOK
  <1>2. owed[p] = <<asked[p]>>
    BY <1>1 DEF SyncInv, OneAnswer
  <1>3. owed[p][1] \in Dir
    BY <1>1
  <1> QED BY <1>2, <1>3

LEMMA OneAnswerStep == ASSUME SyncInv, IInv', Next PROVE OneAnswer'
  <1>0. /\ TypeOK /\ OneAnswer /\ owed \in [Peer -> Seq(Dir)] /\ up \subseteq Peer
        /\ asked \in [Peer -> Dir \union {NoDir}]
    BY DEF SyncInv, IInv, TypeOK
  <1> SUFFICES ASSUME ~crossed', NEW p \in up', owed'[p] # <<>>
               PROVE  owed'[p] = <<asked'[p]>>
    BY DEF OneAnswer
  <1>1. ~crossed /\ p \in Peer
    BY CrossedStays DEF IInv, TypeOK
  <1>2. p \in up /\ owed[p] # <<>> => owed[p] = <<asked[p]>>
    BY <1>1, <1>0 DEF OneAnswer
  <1>3. ASSUME NEW q \in up, NEW d \in Dir, SubSync(q, d), up' = up, asked[q] = NoDir
        PROVE  owed'[p] = <<asked'[p]>>
    <2>1. owed[q] = <<>> /\ q \in Peer
      BY <1>1, <1>3, AskIsFree
    <2>2. owed' = [owed EXCEPT ![q] = Append(@, d)] /\ asked' = [asked EXCEPT ![q] = d]
      BY <1>3 DEF SubSync
    <2>3. Append(<<>>, d) = <<d>>
      OBVIOUS
    <2> QED BY <1>0, <1>1, <1>2, <1>3, <2>1, <2>2, <2>3
  <1>4. ASSUME NEW q \in Peer, Ask(q) PROVE owed'[p] = <<asked'[p]>>
    <2>1. /\ q \in up /\ Head(list)[1] \in Dir /\ SubSync(q, Head(list)[1]) /\ up' = up
          /\ flag = 0 /\ ~archive
      <3>1. Head(list) \in Entry
        BY <1>4, HeadTail DEF Ask, SyncInv, IInv, TypeOK
      <3> QED BY <1>4, <3>1 DEF Ask, MayAsk, Source, ReadyCs, ReadyIn, Entry
    <2>2. asked[q] = NoDir
      BY <1>1, <2>1 DEF SyncInv, OneAsked
    <2> QED BY <1>3, <2>1, <2>2
  <1>5. ASSUME ArchiveAsk PROVE owed'[p] = <<asked'[p]>>
    <2>1. PICK i \in First(Askable) : SubSync(list[i][2], list[i][1]) /\ up' = up
      BY <1>5 DEF ArchiveAsk
    <2>2. /\ i \in DOMAIN list /\ list[i] \in Entry
          /\ list[i][2] \in up /\ asked[list[i][2]] = NoDir
      BY <1>0 DEF First, Askable, TypeOK
    <2>3. list[i][1] \in Dir
      BY <2>2 DEF Entry
    <2> QED BY <1>3, <2>1, <2>2, <2>3
  <1>6. ASSUME NEW q \in Peer, SyncDirRsp(q) PROVE owed'[p] = <<asked'[p]>>
    <2>1. /\ owed' = [owed EXCEPT ![q] = Tail(@)] /\ asked' = [asked EXCEPT ![q] = NoDir] /\ up' = up
      BY <1>6 DEF SyncDirRsp
    <2>2. owed'[q] = <<>>
      BY <1>0, <1>1, <1>6, <2>1, AnswerIsAsked DEF SyncInv
    <2> QED BY <1>0, <1>1, <1>2, <2>1, <2>2
  <1>7. ASSUME NEW q \in Peer, Close(q) PROVE owed'[p] = <<asked'[p]>>
    BY <1>0, <1>1, <1>2, <1>7 DEF Close
  <1>8. ASSUME NEW q \in Peer, Connect(q) PROVE owed'[p] = <<asked'[p]>>
    BY <1>0, <1>1, <1>2, <1>8 DEF Connect, syncVars
  <1>9. ASSUME NEW q \in Peer, ServerForgets(q) PROVE owed'[p] = <<asked'[p]>>
    BY <1>0, <1>1, <1>2, <1>9 DEF ServerForgets, syncVars
  <1>10. UNCHANGED <<up, owed, asked>> => owed'[p] = <<asked'[p]>>
    BY <1>2
  <1> QED BY <1>4, <1>5, <1>6, <1>7, <1>8, <1>9, <1>10
     DEF Next, AskSome, TickBegin, Restart, NoSync, TooLong, NotNow, NoMore, NoSource, syncVars, peerVars,
         GoOnline, ArchiveBegin, Decompose, ArchiveEnd, FinTask, Expire, TickEnd, VossSyncDir,
         NewTask, Hear, SetOffline, SetOnline

LEMMA OneAskedStep == ASSUME SyncInv, Next PROVE OneAsked'
  <1>0. /\ TypeOK /\ EntryIsOwed /\ OneAsked
        /\ asked \in [Peer -> Dir \union {NoDir}] /\ NoDir \notin Dir
    BY GroupAssumption DEF SyncInv, IInv, TypeOK
  <1> SUFFICES ASSUME ~crossed', ~archive'
               PROVE  /\ flag' # 1 => \A p \in Peer : asked'[p] = NoDir
                      /\ \A p, q \in Peer : asked'[p] # NoDir /\ asked'[q] # NoDir => p = q
    BY DEF OneAsked
  <1> DEFINE Alone == /\ flag' # 1 => \A p \in Peer : asked'[p] = NoDir
                      /\ \A p, q \in Peer : asked'[p] # NoDir /\ asked'[q] # NoDir => p = q
  <1>1. ~crossed /\ ~archive /\ ~ArchiveAsk
    BY CrossedStays, ArchiveStays DEF SyncInv, AskInv, ArchiveAsk
  <1>2. /\ flag # 1 => \A p \in Peer : asked[p] = NoDir
        /\ \A p, q \in Peer : asked[p] # NoDir /\ asked[q] # NoDir => p = q
    BY <1>0, <1>1 DEF OneAsked
  <1>3. ASSUME ~Pending, asked' = asked PROVE Alone
    <2>1. \A p \in Peer : asked[p] = NoDir
      BY <1>0, <1>3 DEF EntryIsOwed, Pending
    <2> QED BY <1>3, <2>1
  <1>4. ASSUME NEW q \in Peer, Ask(q) PROVE Alone
    <2>1. flag = 0 /\ flag' = 1 /\ asked' = [asked EXCEPT ![q] = Head(list)[1]]
      BY <1>4 DEF Ask, MayAsk, SubSync
    <2> QED BY <1>0, <1>2, <2>1
  <1>5. ASSUME NEW q \in Peer, SyncDirRsp(q) PROVE Alone
    <2>1. asked' = [asked EXCEPT ![q] = NoDir] /\ asked[q] # NoDir
      BY <1>0, <1>1, <1>5, AnswerIsAsked DEF SyncDirRsp
    <2> QED BY <1>0, <1>2, <2>1
  <1>6. ASSUME NEW q \in Peer, Close(q) PROVE Alone
    <2>1. asked' = [asked EXCEPT ![q] = NoDir] /\ flag' = IF asked[q] = NoDir THEN flag ELSE 0
      BY <1>6 DEF Close, FlagOnClose
    <2> QED BY <1>0, <1>2, <2>1
  <1>7. ASSUME TooLong \/ \E d \in Dir : VossSyncDir(d) PROVE ~Pending /\ asked' = asked
    BY <1>7 DEF TooLong, VossSyncDir
  <1>8. ASSUME TickBegin PROVE Alone
    <2>1. CASE Restart
      BY <1>3, <2>1 DEF Restart
    <2>2. CASE UNCHANGED syncVars
      BY <1>2, <2>2 DEF syncVars
    <2> QED BY <1>8, <2>1, <2>2 DEF TickBegin
  <1>9. ASSUME NoMore PROVE Alone
    BY <1>2, <1>9 DEF NoMore, MayAsk
  <1>10. UNCHANGED <<flag, asked>> => Alone
    BY <1>2
  <1> HIDE DEF Alone
  <1>11. Alone
    BY <1>1, <1>3, <1>4, <1>5, <1>6, <1>7, <1>8, <1>9, <1>10
     DEF Next, AskSome, NoSync, NotNow, NoSource, syncVars, GoOnline, ArchiveBegin, ArchiveAsk,
         Decompose, ArchiveEnd, FinTask, Expire, TickEnd, NewTask, Connect, ServerForgets, Hear,
         SetOffline, SetOnline
  <1> QED BY <1>11 DEF Alone

(* A CS that has not begun its list does not begin it but by Restart.      *)
LEMMA NotBegunStays ==
  ASSUME IInv, NotBegun, Next
  PROVE  \/ NotBegun' /\ list' = list
         \/ TickBegin /\ Restart
         \/ \E p \in Peer : NotBegun' /\ Close(p)
         \/ \E d \in Dir : VossSyncDir(d) /\ crossed'
  <1>0. /\ self \in {"UNKOWN_STAT", "OFF_LINE"} /\ fetching = 0
        /\ pc \in {"event", "sync", "tasks"} /\ \A p \in Peer : owed[p] = <<>>
    BY DEF NotBegun
  <1>1. CASE TickBegin
    <2>1. CASE ~Restart
      BY <1>0, <1>1, <2>1 DEF TickBegin, NotBegun, syncVars, peerVars, taskVars
    <2> QED BY <1>1, <2>1
  <1>2. CASE NoSync \/ TickEnd
    BY <1>0, <1>2 DEF NoSync, TickEnd, NotBegun, syncVars, peerVars, taskVars
  <1>3. ~TooLong /\ ~NotNow /\ ~NoMore /\ ~AskSome /\ ~NoSource /\ ~GoOnline /\ ~ArchiveBegin
        /\ ~ArchiveAsk /\ ~Decompose /\ ~ArchiveEnd
    BY <1>0 DEF TooLong, NotNow, NoMore, AskSome, Ask, NoSource, GoOnline, ArchiveBegin,
                ArchiveAsk, Decompose, ArchiveEnd, MayAsk
  <1>4. ~FinTask /\ ~Expire /\ \A p \in Peer : ~NewTask(p) /\ ~SyncDirRsp(p) /\ ~ServerForgets(p)
    BY <1>0 DEF FinTask, Expire, NewTask, SyncDirRsp, ServerForgets
  <1>5. ASSUME NEW d \in Dir, VossSyncDir(d) PROVE crossed'
    BY <1>0, <1>5 DEF VossSyncDir, Serving
  <1>6. ASSUME NEW p \in Peer, Close(p) PROVE NotBegun'
    BY <1>0, <1>6 DEF Close, NotBegun, taskVars
  <1>7. ASSUME NEW p \in Peer, NEW s \in ServerStat, Connect(p) \/ Hear(p, s)
        PROVE  NotBegun' /\ list' = list
    BY <1>0, <1>7 DEF Connect, Hear, NotBegun, syncVars, taskVars
  <1>8. CASE SetOffline \/ SetOnline
    BY <1>0, <1>8 DEF SetOffline, SetOnline, NotBegun, syncVars, peerVars, taskVars
  <1> QED BY <1>1, <1>2, <1>3, <1>4, <1>5, <1>6, <1>7, <1>8 DEF Next, ServerStat

LEMMA DoneIsEmptyStep == ASSUME SyncInv, Next PROVE DoneIsEmpty'
  <1> SUFFICES ASSUME flag' = 2 PROVE list' = <<>> /\ (archive => NotBegun')
    BY ArchiveStays DEF DoneIsEmpty
  <1>1. CASE NoMore
    BY <1>1 DEF NoMore, MayAsk
  <1>2. CASE flag # 2 /\ ~NoMore
    <2>1. UNCHANGED flag \/ flag' = 0 \/ flag' = 1
      BY <1>2 DEF Next, AskSome, Ask, SubSync, TickBegin, Restart, NoSync, TooLong, NotNow, NoSource,
         syncVars, GoOnline, ArchiveBegin, ArchiveAsk, Decompose, ArchiveEnd, FinTask, Expire,
         TickEnd, VossSyncDir, NewTask, SyncDirRsp, Idle, Connect, Close, FlagOnClose,
         ServerForgets, Hear, SetOffline, SetOnline
    <2> QED BY <1>2, <2>1
  <1>3. CASE flag = 2 /\ ~NoMore
    <2>1. list = <<>> /\ (archive => NotBegun)
      BY <1>3 DEF SyncInv, DoneIsEmpty
    <2>2. ASSUME NEW p \in Peer, Close(p) PROVE list' = <<>>
      BY <2>1, <2>2 DEF Close, FlagOnClose, PutBack
    <2>3. CASE archive
      <3>1. NotBegun /\ ~Restart /\ \A d \in Dir : ~VossSyncDir(d)
        BY <2>1, <2>3 DEF Restart, VossSyncDir
      <3> QED BY <2>1, <2>2, <3>1, NotBegunStays DEF SyncInv
    <2>4. CASE ~archive
      <3>2. ~ArchiveAsk /\ ~Decompose
        BY <2>4 DEF SyncInv, AskInv, ArchiveAsk, Decompose
      <3>1. list' = list \/ \E p \in Peer : Close(p)
        BY <1>3, <2>1, <2>4, <3>2 DEF Next, AskSome, Ask, MayAsk, TickBegin, Restart, NoSync, TooLong, NotNow,
         NoSource, syncVars, GoOnline, ArchiveBegin, ArchiveEnd, FinTask, Expire, TickEnd,
         VossSyncDir, NewTask, SyncDirRsp, Connect, ServerForgets, Hear, SetOffline, SetOnline
      <3> QED BY <2>1, <2>2, <2>4, <3>1
    <2> QED BY <2>3, <2>4
  <1> QED BY <1>1, <1>2, <1>3

(* The whole list is queued again when it is begun.                        *)
LEMMA RestartRemembers ==
  ASSUME IInv, TickBegin, Restart PROVE Remembered'
  <1> DEFINE S == Dir \X {Nobody}
  <1>1. IsFiniteSet(S)
    BY GroupAssumption, FS_Product, FS_Singleton
  <1>2. SetToSeq(S) \in Seq(S) /\ S \subseteq Entry
    BY <1>1, SetToSeqIsSeq DEF Entry
  <1>3. DirList \in Seq(Entry) /\ list \in Seq(Entry)
    BY <1>2 DEF DirList, IInv, TypeOK
  <1>4. ASSUME NEW d \in Dir PROVE Listed(d, Nobody)'
    <2>1. <<d, Nobody>> \in S
      OBVIOUS
    <2>2. Has(DirList, <<d, Nobody>>)
      BY <1>1, <2>1, SetToSeqHas DEF DirList
    <2>3. Has(DirList \o list, <<d, Nobody>>)
      BY <1>3, <2>2, ConcatHas
    <2> QED BY <2>3 DEF Restart, Has, Listed
  <1> QED BY <1>4 DEF Remembered

(* An entry without a server is replaced by one for each to ask.           *)
LEMMA DecomposeRemembers ==
  ASSUME IInv, Decompose, archive, archive' = archive, Remembered PROVE Remembered'
  <1>1. UNCHANGED <<asked, answered>>
    BY DEF Decompose
  <1> DEFINE each(i) == SetToSeq({list[i][1]} \X Sources)
             rest(i) == RemoveAt(list, i)
  <1>2. PICK i \in First(Whole) : list' = each(i) \o rest(i) \/ list' = rest(i) \o each(i)
    BY DEF Decompose
  <1>3. i \in DOMAIN list /\ list[i][2] = Nobody /\ list \in Seq(Entry)
    BY DEF First, Whole, IInv, TypeOK
  <1>4. PICK c \in Dir : list[i] = <<c, Nobody>>
    <2>1. list[i] \in Entry
      BY <1>3
    <2> QED BY <1>3, <2>1 DEF Entry
  <1> DEFINE S == {c} \X Sources
  <1>5. IsFiniteSet(S) /\ S \subseteq Entry
    <2>1. Sources \subseteq Cs /\ IsFiniteSet(Cs) /\ Cs \subseteq Peer
      BY GroupAssumption DEF Sources, Cs, Peer
    <2>2. IsFiniteSet(S)
      BY <2>1, FS_Product, FS_Singleton, FS_Subset
    <2> QED BY <2>1, <2>2 DEF Entry
  <1>6. each(i) = SetToSeq(S)
    BY <1>4
  <1>7. SetToSeq(S) \in Seq(Entry)
    <2>1. SetToSeq(S) \in Seq(S)
      BY <1>5, SetToSeqIsSeq
    <2> QED BY <1>5, <2>1
  <1>8. rest(i) \in Seq(Entry)
    BY <1>3, RemoveAtIsSeq
  <1>9. \A x : Has(SetToSeq(S), x) \/ Has(rest(i), x) => Has(list', x)
    <2> HIDE DEF each, rest, S
    <2>1. ASSUME NEW x, Has(SetToSeq(S), x) \/ Has(rest(i), x)
          PROVE  Has(SetToSeq(S) \o rest(i), x) /\ Has(rest(i) \o SetToSeq(S), x)
      BY <1>7, <1>8, <2>1, ConcatHas
    <2> QED BY <1>2, <1>6, <2>1
  <1>10. \A x : Has(list, x) /\ x # <<c, Nobody>> => Has(list', x)
    BY <1>3, <1>4, <1>9, RemoveAtHas
  <1>11. \A p \in Sources : Has(list', <<c, p>>)
    BY <1>5, <1>9, SetToSeqHas
  <1>12. Nobody \notin Sources
    BY GroupAssumption DEF Sources, Cs
  <1>13. \A d \in Dir, p \in Sources : Listed(d, p) => Listed(d, p)'
    BY <1>10, <1>12 DEF Listed, Has
  <1>14. \A d \in Dir : Listed(d, Nobody) => Listed(d, Nobody)' \/ \A p \in Sources : Listed(d, p)'
    BY <1>10, <1>11 DEF Listed, Has
  <1> QED BY <1>1, <1>13, <1>14, RememberedStays

(* The entry <<c, x>> goes from the list to the peer q that is asked.      *)
Moved(q, c, x) ==
    /\ answered' = answered /\ asked' = [asked EXCEPT ![q] = c] /\ asked[q] = NoDir
    /\ archive => x = q
    /\ \A y : Has(list, y) /\ y # <<c, x>> => Has(list', y)

LEMMA AskRemembers ==
  ASSUME SyncInv, ~crossed, Remembered, archive' = archive, AskSome \/ ArchiveAsk
  PROVE  Remembered'
  <1>0. /\ list \in Seq(Entry) /\ asked \in [Peer -> Dir \union {NoDir}] /\ NoDir \notin Dir
        /\ up \subseteq Peer /\ Nobody \notin Peer
    BY GroupAssumption DEF SyncInv, IInv, TypeOK, Peer, Cs
  <1>1. PICK q \in Peer, c \in Dir, x \in Peer \union {Nobody} : Moved(q, c, x)
    <2>1. ASSUME NEW q \in Peer, Ask(q)
          PROVE  \E c \in Dir, x \in Peer \union {Nobody} : Moved(q, c, x)
      <3>1. list # <<>> /\ list' = Tail(list) /\ answered' = answered /\ ~archive /\ flag = 0
            /\ asked' = [asked EXCEPT ![q] = Head(list)[1]]
        BY <2>1 DEF Ask, MayAsk, SubSync
      <3>2. PICK c \in Dir, x \in Peer \union {Nobody} : Head(list) = <<c, x>>
        BY <1>0, <3>1, HeadTail DEF Entry
      <3>3. \A y : Has(list, y) /\ y # <<c, x>> => Has(list', y)
        BY <1>0, <3>1, <3>2, TailHas
      <3>4. asked[q] = NoDir
        BY <3>1 DEF SyncInv, OneAsked
      <3>6. Head(list)[1] = c
        BY <3>2
      <3>5. Moved(q, c, x)
        <4> HIDE DEF Has
        <4> QED BY <3>1, <3>3, <3>4, <3>6 DEF Moved
      <3> QED BY <3>5
    <2>2. ASSUME ArchiveAsk
          PROVE  \E q \in Peer, c \in Dir, x \in Peer \union {Nobody} : Moved(q, c, x)
      <3>1. PICK i \in First(Askable) :
              SubSync(list[i][2], list[i][1]) /\ list' = RemoveAt(list, i) /\ answered' = answered
        BY <2>2 DEF ArchiveAsk
      <3>2. i \in DOMAIN list /\ list[i] \in Entry /\ list[i][2] \in up /\ asked[list[i][2]] = NoDir
        BY <1>0 DEF First, Askable
      <3>3. PICK c \in Dir, q \in Peer : list[i] = <<c, q>>
        BY <1>0, <3>2 DEF Entry
      <3>4. \A y : Has(list, y) /\ y # <<c, q>> => Has(list', y)
        BY <1>0, <3>1, <3>2, <3>3, RemoveAtHas
      <3>5. asked' = [asked EXCEPT ![q] = c]
        BY <3>1, <3>3 DEF SubSync
      <3>6. Moved(q, c, q)
        BY <3>1, <3>2, <3>3, <3>4, <3>5 DEF Moved
      <3> QED BY <3>6
    <2> QED BY <2>1, <2>2 DEF AskSome
  <1>2. \A d \in Dir, p \in Peer \union {Nobody} :
           Listed(d, p) => Listed(d, p)' \/ (d = c /\ p = x)
    BY <1>1 DEF Listed, Has, Moved
  <1>3. asked'[q] = c /\ \A p \in Peer : p # q => asked'[p] = asked[p]
    BY <1>0, <1>1 DEF Moved
  <1>4. Sources \subseteq Peer /\ Nobody \notin Peer
    BY <1>0 DEF Sources, Peer
  <1>5. CASE archive
    <2>1. \A d \in Dir, p \in Sources : Listed(d, p) => Listed(d, p)' \/ asked'[p] = d
      BY <1>1, <1>2, <1>3, <1>4, <1>5 DEF Moved
    <2>2. \A d \in Dir : Listed(d, Nobody) => Listed(d, Nobody)'
      BY <1>1, <1>2, <1>4, <1>5 DEF Moved
    <2>3. \A d \in Dir, p \in Peer : asked[p] = d => asked'[p] = d
      BY <1>0, <1>1, <1>3 DEF Moved
    <2> QED BY <1>1, <2>1, <2>2, <2>3, RememberedStays DEF Moved
  <1>6. CASE ~archive
    <2>1. ASSUME NEW d \in Dir
          PROVE \/ Listed(d, Nobody)' \/ \E p \in Peer : <<d, p>> \in answered' \/ asked'[p] = d
      <3>1. CASE Listed(d, Nobody)
        BY <1>2, <1>3, <3>1
      <3>2. CASE \E p \in Peer : <<d, p>> \in answered \/ asked[p] = d
        BY <1>0, <1>1, <1>3, <3>2 DEF Moved
      <3> QED BY <1>6, <3>1, <3>2 DEF Remembered
    <2> QED BY <1>6, <2>1 DEF Remembered
  <1> QED BY <1>5, <1>6

(* The answer of the directory asked for, and the entry put back.          *)
LEMMA AnswerRemembers ==
  ASSUME SyncInv, ~crossed, Remembered, archive' = archive, NEW q \in Peer, SyncDirRsp(q)
  PROVE  Remembered'
  <1>1. /\ list' = list /\ answered' = answered \union {<<asked[q], q>>}
        /\ asked' = [asked EXCEPT ![q] = NoDir]
    BY AnswerIsAsked DEF SyncDirRsp
  <1>2. asked \in [Peer -> Dir \union {NoDir}]
    BY DEF SyncInv, IInv, TypeOK
  <1>3. \A d \in Dir, p \in Peer : asked[p] = d => asked'[p] = d \/ <<d, p>> \in answered'
    BY <1>1, <1>2
  <1>4. \A d, p : Listed(d, p) => Listed(d, p)'
    BY <1>1 DEF Listed
  <1> QED BY <1>1, <1>3, <1>4, RememberedStays

LEMMA CloseRemembers ==
  ASSUME SyncInv, Remembered, archive' = archive, NEW q \in Peer, Close(q)
  PROVE  Remembered'
  <1>1. /\ list' = PutBack(q) /\ answered' = answered /\ asked' = [asked EXCEPT ![q] = NoDir]
    BY DEF Close
  <1>2. asked \in [Peer -> Dir \union {NoDir}] /\ list \in Seq(Entry)
    BY DEF SyncInv, IInv, TypeOK
  <1>3. asked[q] # NoDir => Back(q) \in Entry
    BY <1>2 DEF Back, Entry
  <1>4. /\ \A x : Has(list, x) => Has(list', x)
        /\ asked[q] # NoDir => Has(list', Back(q))
    BY <1>1, <1>2, <1>3, AppendHas DEF PutBack
  <1>5. \A d, p : Listed(d, p) => Listed(d, p)'
    BY <1>4 DEF Listed, Has
  <1>6. ASSUME NEW d \in Dir, NEW p \in Peer, asked[p] = d
        PROVE  \/ asked'[p] = d \/ (~archive /\ Listed(d, Nobody)') \/ (archive /\ Listed(d, p)')
    <2>1. CASE p # q
      BY <1>1, <1>2, <1>6, <2>1
    <2>2. CASE p = q
      <3>1. Has(list', Back(q)) /\ Back(q) = <<d, IF archive THEN p ELSE Nobody>>
        BY <1>4, <1>6, <2>2, GroupAssumption DEF Back
      <3> QED BY <3>1 DEF Has, Listed
    <2> QED BY <2>1, <2>2
  <1> QED BY <1>1, <1>5, <1>6, RememberedStays

(* An operator's directory goes to the head of the list.                   *)
LEMMA VossRemembers ==
  ASSUME IInv, Remembered, archive' = archive, NEW c \in Dir, VossSyncDir(c)
  PROVE  Remembered'
  <1>1. /\ list' = <<<<c, Nobody>>>> \o list /\ asked' = asked
        /\ answered' = answered \ ({c} \X Peer)
    BY DEF VossSyncDir
  <1>2. list \in Seq(Entry) /\ <<c, Nobody>> \in Entry
    BY DEF IInv, TypeOK, Entry
  <1>3. <<<<c, Nobody>>>> \in Seq(Entry) /\ Has(<<<<c, Nobody>>>>, <<c, Nobody>>)
    BY <1>2 DEF Has
  <1>4. Has(list', <<c, Nobody>>) /\ \A x : Has(list, x) => Has(list', x)
    BY <1>1, <1>2, <1>3, ConcatHas
  <1>5. Listed(c, Nobody)' /\ \A d, p : Listed(d, p) => Listed(d, p)'
    BY <1>4 DEF Listed, Has
  <1>6. \A d \in Dir, p \in Peer : d # c /\ <<d, p>> \in answered => <<d, p>> \in answered'
    BY <1>1
  <1>7. Sources \subseteq Peer
    BY DEF Sources, Peer
  <1> HIDE DEF Listed
  <1> QED BY <1>1, <1>5, <1>6, <1>7 DEF Remembered

(* The entry at the head goes to the tail.                                 *)
LEMMA NoSourceRemembers ==
  ASSUME IInv, Remembered, archive' = archive, NoSource
  PROVE  Remembered'
  <1>1. /\ UNCHANGED <<asked, answered>> /\ list # <<>> /\ list \in Seq(Entry)
        /\ list' = list \/ list' = Append(Tail(list), Head(list))
    BY DEF NoSource, IInv, TypeOK
  <1>2. Tail(list) \in Seq(Entry) /\ Head(list) \in Entry
    BY <1>1, HeadTail
  <1>3. ASSUME NEW x, Has(list, x) PROVE Has(Append(Tail(list), Head(list)), x)
    <2>1. CASE x = Head(list)
      BY <1>2, <2>1, AppendHas
    <2>2. CASE x # Head(list)
      BY <1>1, <1>2, <1>3, <2>2, TailHas, AppendHas
    <2> QED BY <2>1, <2>2
  <1>4. \A d, p : Listed(d, p) => Listed(d, p)'
    BY <1>1, <1>3 DEF Listed, Has
  <1> QED BY <1>1, <1>4, RememberedStays

LEMMA RememberedStep ==
  ASSUME SyncInv, Next, ~crossed', Remembered PROVE Remembered'
  <1>1. ~crossed /\ archive' = archive /\ IInv /\ (pc = "asking" => archive)
    BY CrossedStays, ArchiveStays DEF SyncInv, AskInv
  <1>2. UNCHANGED <<list, asked, answered>> => Remembered'
    BY <1>1 DEF Remembered, Listed
  <1>3. TickBegin => (Restart \/ UNCHANGED <<list, asked, answered>>)
    BY DEF TickBegin, syncVars
  <1>4. Decompose => archive
    BY <1>1 DEF Decompose
  <1> QED BY <1>1, <1>2, <1>3, <1>4, RestartRemembers, DecomposeRemembers, AskRemembers,
       AnswerRemembers, CloseRemembers, VossRemembers, NoSourceRemembers
     DEF Next, NoSync, TooLong, NotNow, NoMore, syncVars, GoOnline, ArchiveBegin,
         ArchiveEnd, FinTask, Expire, TickEnd, NewTask, Connect, ServerForgets, Hear,
         SetOffline, SetOnline

LEMMA InitSyncInv == Init => SyncInv
  <1> SUFFICES ASSUME Init PROVE SyncInv
    OBVIOUS
  <1>1. IInv
    BY InitIInv
  <1>2. AskInv
    BY <1>1 DEF Init, AskInv, IInv, OriginIsAsked, Peer
  <1>3. NotBegun
    BY DEF Init, NotBegun
  <1> QED BY <1>1, <1>2, <1>3 DEF Init, SyncInv, OneAnswer, OneAsked, DoneIsEmpty

LEMMA NextSyncInv == SyncInv /\ [Next]_vars => SyncInv'
  <1> SUFFICES ASSUME SyncInv, [Next]_vars PROVE SyncInv'
    OBVIOUS
  <1>1. IInv' /\ AskInv'
    BY NextIInv, NextAskInv DEF SyncInv, IInv
  <1>2. CASE Next
    <2>1. crossed' \/ NotBegun' \/ Remembered'
      <3>1. CASE Remembered
        BY <1>2, <3>1, RememberedStep
      <3>2. CASE NotBegun
        BY <1>2, <3>2, NotBegunStays, RestartRemembers DEF SyncInv
      <3>3. CASE crossed
        BY <1>2, <3>3, CrossedStays
      <3> QED BY <3>1, <3>2, <3>3 DEF SyncInv
    <2> QED BY <1>1, <1>2, <2>1, OneAnswerStep, OneAskedStep, DoneIsEmptyStep DEF SyncInv
  <1>3. CASE UNCHANGED vars
    <2> USE <1>3 DEF vars, syncVars, peerVars, taskVars
    <2>1. OneAnswer' /\ OneAsked'
      BY DEF SyncInv, OneAnswer, OneAsked
    <2>2. NotBegun' <=> NotBegun
      BY DEF NotBegun
    <2>3. Remembered' <=> Remembered
      BY DEF Remembered, Listed
    <2>4. DoneIsEmpty'
      BY <2>2 DEF SyncInv, DoneIsEmpty
    <2> QED BY <1>1, <2>1, <2>2, <2>3, <2>4 DEF SyncInv
  <1> QED BY <1>2, <1>3

(* The strengthening of the invariant holds in every reachable state.      *)
THEOREM SyncInvariance == Spec => []SyncInv
  BY InitSyncInv, NextSyncInv, PTL DEF Spec

(* No directory is forgotten while no answer crosses a new connection:     *)
(* over closed and late peers, requeued lists and decomposed entries, each *)
(* is in the list, asked of a peer or answered.                            *)
THEOREM NothingIsForgotten == Spec => []NoDirForgotten
  <1>1. SyncInv => NoDirForgotten
    BY DEF SyncInv, NotBegun, Serving, Remembered, NoDirForgotten
  <1> QED BY <1>1, SyncInvariance, PTL

(* A CS goes ON_LINE only with nothing left to fetch and, with the same    *)
(* exceptions, every directory answered: an archive never does.            *)
THEOREM OnlineIsEarned == Spec => OnlineIsSynced
  <1> DEFINE Earned == self # "ON_LINE" /\ self' = "ON_LINE" =>
                         /\ fetching' = 0 /\ ~archive
                         /\ crossed \/ \A d \in Dir : \E p \in Peer : <<d, p>> \in answered
  <1>1. ASSUME SyncInv, Next PROVE Earned
    <2> SUFFICES ASSUME self # "ON_LINE", self' = "ON_LINE"
                 PROVE  /\ fetching' = 0 /\ ~archive
                        /\ crossed \/ \A d \in Dir : \E p \in Peer : <<d, p>> \in answered
      OBVIOUS
    <2>1. GoOnline \/ FinTask
      BY <1>1 DEF Next, TickBegin, Restart, NoSync, TooLong, NotNow, NoMore, AskSome, Ask,
         NoSource, ArchiveBegin, ArchiveAsk, Decompose, ArchiveEnd, Expire, TickEnd,
         VossSyncDir, NewTask, SyncDirRsp, Connect, Close, ServerForgets, Hear, SetOffline,
         SetOnline
    <2>2. flag = 2 /\ behind' =< 0 /\ pc \in {"online", "tasks"} /\ (pc = "tasks" => fetching > 0)
      BY <2>1 DEF GoOnline, CaughtUp, FinTask, taskVars
    <2>3. fetching' \in Nat /\ behind' - fetching' \in Nat /\ behind' \in Int
      BY <1>1, NextIInv DEF SyncInv, IInv, TypeOK
    <2>4. fetching' = 0
      <3>1. \A b \in Int, n \in Nat : b =< 0 /\ b - n \in Nat => n = 0
        OBVIOUS
      <3> QED BY <2>2, <2>3, <3>1
    <2>5. ~NotBegun /\ ~archive /\ list = <<>>
      BY <1>1, <2>2 DEF SyncInv, DoneIsEmpty, NotBegun
    <2>6. ASSUME ~crossed, NEW d \in Dir PROVE \E p \in Peer : <<d, p>> \in answered
      <3>1. \A p \in Peer : asked[p] = NoDir
        BY <1>1, <2>2, <2>5, <2>6 DEF SyncInv, OneAsked
      <3>2. ~Listed(d, Nobody)
        BY <2>5 DEF Listed
      <3> QED BY <1>1, <2>5, <2>6, <3>1, <3>2, GroupAssumption DEF SyncInv, Remembered
    <2> QED BY <2>4, <2>5, <2>6
  <1>2. UNCHANGED vars => Earned
    BY DEF vars
  <1>3. SyncInv /\ [Next]_vars => [Earned]_vars
    BY <1>1, <1>2
  <1> QED BY <1>3, SyncInvariance, PTL DEF Spec, OnlineIsSynced

----------------------------------------------------------------------------
(* The table of servers                                                    *)

Arch == {"FCS", "ARCHIVE", "ARCHIVE2"}
CsRow == [ip : Host, isp : {"TEL", "CNC"}, real : {"TEL", "CNC"}, arch : Arch]
IspName == {"TEL", "CNC", "FCS", "ARCHIVE", "TRACKER", "VOSS"}
Server ==
    [role : {"FCS", "TRACKER", "VOSS", "CS"}, isp : IspName, real : IspName,
     arch : Arch \union {NoIsp}, archive : BOOLEAN, list : Arch \union {NoIsp},
     hot : BOOLEAN, dirs : Seq(CsDir), offline : BOOLEAN]

HasDir(e, d) == \E k \in 1 .. Len(e.dirs) : e.dirs[k] = d
IsFull(e) == Len(e.dirs) = MaxDir
OnItsList(e) == e.role = "CS" => e.list = IF e.arch = "FCS" THEN NoIsp ELSE e.arch
ServerOK(e) ==
    /\ e \in Server /\ Len(e.dirs) =< MaxDir
    /\ \A i, j \in 1 .. Len(e.dirs) : e.dirs[i] = e.dirs[j] => i = j

CellsTyped(cells) ==
    /\ cells \in [CsDir -> Seq(CsRow)]
    /\ \A d \in CsDir :
          /\ Len(cells[d]) < MaxCell
          /\ \A i, j \in DOMAIN cells[d] : cells[d][i].ip = cells[d][j].ip => i = j
TabTyped(tab) ==
    /\ DOMAIN tab \subseteq Host /\ tab \in [DOMAIN tab -> Server]
    /\ \A h \in DOMAIN tab : ServerOK(tab[h])

(* Rows and entries tell the same.                                         *)
Known(tab, d, row) ==
    /\ row.ip \in DOMAIN tab
    /\ HasDir(tab[row.ip], d) \/ IsFull(tab[row.ip])
    /\ row.arch # "FCS" => tab[row.ip].archive
RowIn(cells, d, h) == \E i \in DOMAIN cells[d] : cells[d][i].ip = h
Candidates(tab, d) == {h \in DOMAIN tab : HasDir(tab[h], d) \/ IsFull(tab[h])}
Agree(cells, tab) ==
    /\ \A d \in CsDir : \A i \in DOMAIN cells[d] : Known(tab, d, cells[d][i])
    /\ \A d \in CsDir, h \in DOMAIN tab : HasDir(tab[h], d) =>
          RowIn(cells, d, h) \/ Cardinality(Candidates(tab, d)) >= MaxCell
    /\ \A h \in DOMAIN tab : OnItsList(tab[h])
SelfIsCs(tab) == Self \in DOMAIN tab => Len(tab[Self].dirs) > 0

Fit(cells, tab) ==
    CellsTyped(cells) /\ TabTyped(tab) /\ Agree(cells, tab) /\ SelfIsCs(tab)

(* A line of a list.                                                       *)
CsLine == {"cs", "archive"} \X LineOf
OtherLine == {"tracker", "fcs", "afcs", "voss"} \X (Host \ {Self})
ListLine == CsLine \union ({"hot"} \X Host) \union OtherLine

(* A server once in the table stays; it gets more directories, up to       *)
(* MaxDir, and what is an archive stays one.                               *)
Grows(tab, new) ==
    /\ DOMAIN tab \subseteq DOMAIN new
    /\ \A h \in DOMAIN tab :
          /\ \A d \in CsDir : HasDir(tab[h], d) => HasDir(new[h], d)
          /\ IsFull(tab[h]) => IsFull(new[h])
          /\ tab[h].archive => new[h].archive

LEMMA KnownStays ==
  ASSUME NEW tab, NEW new, Grows(tab, new), NEW d \in CsDir, NEW row, Known(tab, d, row)
  PROVE  Known(new, d, row)
  BY DEF Grows, Known

LEMMA CandidatesStay ==
  ASSUME NEW tab, NEW new, TabTyped(new), Grows(tab, new), NEW d \in CsDir
  PROVE  /\ IsFiniteSet(Candidates(new, d)) /\ Cardinality(Candidates(new, d)) \in Nat
         /\ Cardinality(Candidates(tab, d)) >= MaxCell => Cardinality(Candidates(new, d)) >= MaxCell
  <1>1. Candidates(tab, d) \subseteq Candidates(new, d) /\ Candidates(new, d) \subseteq Host
    BY DEF Grows, Candidates, TabTyped
  <1>2. IsFiniteSet(Host) /\ MaxCell \in Nat
    BY ListAssumption
  <1>3. IsFiniteSet(Candidates(new, d)) /\ IsFiniteSet(Candidates(tab, d))
    BY <1>1, <1>2, FS_Subset, Zenon
  <1>4. Cardinality(Candidates(tab, d)) =< Cardinality(Candidates(new, d))
    BY <1>1, <1>3, FS_Subset
  <1>5. Cardinality(Candidates(tab, d)) \in Nat /\ Cardinality(Candidates(new, d)) \in Nat
    BY <1>3, FS_CardinalityType
  <1> QED BY <1>2, <1>3, <1>4, <1>5

(* add_ip_info, and the flag of the hot ones.                              *)
LEMMA AddKeeps ==
  ASSUME NEW cells, NEW tab, Fit(cells, tab),
         NEW name \in {"tracker", "fcs", "afcs", "voss"}, NEW h \in Host \ {Self}
  PROVE  Fit(cells, AddIpInfo(tab, h, OfList(name)))
  <1> DEFINE e == OfList(name)
             new == AddIpInfo(tab, h, e)
  <1>1. e \in Server /\ e.dirs = << >> /\ OnItsList(e)
    BY DEF OfList, IpInfo, Server, IspName, Arch, OnItsList
  <1>2. MaxDir \in Nat \ {0} /\ MaxCell \in Nat
    BY ListAssumption
  <1>3. ServerOK(e) /\ \A d \in CsDir : ~HasDir(e, d)
    BY <1>1, <1>2 DEF ServerOK, HasDir
  <1> HIDE DEF e
  <1>4. DOMAIN new = DOMAIN tab \union {h} /\ \A g \in DOMAIN tab : new[g] = tab[g]
    BY DEF AddIpInfo
  <1>5. h \notin DOMAIN tab => new[h] = e
    BY DEF AddIpInfo
  <1>6. new = [g \in DOMAIN new |-> new[g]]
    BY DEF AddIpInfo
  <1> HIDE DEF new
  <1>7. TabTyped(new)
    BY <1>1, <1>3, <1>4, <1>5, <1>6 DEF TabTyped, Fit
  <1>8. Grows(tab, new)
    BY <1>4 DEF Grows
  <1>9. Agree(cells, new)
    <2>1. \A d \in CsDir : \A i \in DOMAIN cells[d] : Known(new, d, cells[d][i])
      BY <1>8, KnownStays DEF Fit, Agree
    <2>2. \A d \in CsDir, g \in DOMAIN new : HasDir(new[g], d) =>
             RowIn(cells, d, g) \/ Cardinality(Candidates(new, d)) >= MaxCell
      BY <1>3, <1>4, <1>5, <1>7, <1>8, CandidatesStay DEF Fit, Agree
    <2>3. \A g \in DOMAIN new : OnItsList(new[g])
      BY <1>1, <1>4, <1>5 DEF Fit, Agree
    <2> QED BY <2>1, <2>2, <2>3 DEF Agree
  <1>10. SelfIsCs(new)
    BY <1>4 DEF Fit, SelfIsCs
  <1> QED BY <1>7, <1>9, <1>10 DEF Fit, new, e

(* An entry gets new flags.                                                *)
LEMMA FlagKeeps ==
  ASSUME NEW cells, NEW tab, NEW h \in DOMAIN tab, NEW e \in Server,
         TabTyped(tab), e = [tab[h] EXCEPT !.hot = e.hot, !.offline = e.offline]
  PROVE  LET new == [tab EXCEPT ![h] = e] IN
         /\ TabTyped(new) /\ DOMAIN new = DOMAIN tab
         /\ Agree(cells, tab) => Agree(cells, new)
         /\ SelfIsCs(tab) => SelfIsCs(new)
  <1> DEFINE new == [tab EXCEPT ![h] = e]
  <1>1. tab[h] \in Server /\ ServerOK(tab[h])
    BY DEF TabTyped
  <1>2. /\ e.dirs = tab[h].dirs /\ e.archive = tab[h].archive /\ e.role = tab[h].role
        /\ e.list = tab[h].list /\ e.arch = tab[h].arch
    BY <1>1 DEF Server
  <1>3. ServerOK(e) /\ OnItsList(tab[h]) = OnItsList(e) /\ IsFull(tab[h]) = IsFull(e)
        /\ \A d : HasDir(tab[h], d) = HasDir(e, d)
    BY <1>1, <1>2 DEF ServerOK, OnItsList, IsFull, HasDir
  <1>4. /\ DOMAIN new = DOMAIN tab /\ new[h] = e
        /\ \A g \in DOMAIN tab : g # h => new[g] = tab[g]
        /\ new \in [DOMAIN new -> Server]
    BY DEF TabTyped
  <1> HIDE DEF new
  <1>5. TabTyped(new)
    BY <1>3, <1>4 DEF TabTyped
  <1>6. \A d : Candidates(new, d) = Candidates(tab, d)
    BY <1>3, <1>4 DEF Candidates
  <1>7. Agree(cells, tab) => Agree(cells, new)
    <2> SUFFICES ASSUME Agree(cells, tab) PROVE Agree(cells, new)
      OBVIOUS
    <2>1. \A d \in CsDir : \A i \in DOMAIN cells[d] : Known(new, d, cells[d][i])
      BY <1>2, <1>3, <1>4 DEF Agree, Known
    <2>2. \A d \in CsDir, g \in DOMAIN new : HasDir(new[g], d) =>
             RowIn(cells, d, g) \/ Cardinality(Candidates(new, d)) >= MaxCell
      BY <1>3, <1>4, <1>6 DEF Agree
    <2>3. \A g \in DOMAIN new : OnItsList(new[g])
      BY <1>3, <1>4 DEF Agree
    <2> QED BY <2>1, <2>2, <2>3 DEF Agree
  <1>8. SelfIsCs(tab) => SelfIsCs(new)
    BY <1>2, <1>4 DEF SelfIsCs
  <1> QED BY <1>4, <1>5, <1>7, <1>8 DEF new

(* The flag of the hot ones.                                               *)
IsAcc(acc) == acc = [cells |-> acc.cells, tab |-> acc.tab] /\ Fit(acc.cells, acc.tab)

LEMMA HotKeeps ==
  ASSUME NEW acc, IsAcc(acc), NEW h \in Host
  PROVE  IsAcc(PushHot(acc, h))
  <1>1. CASE h \notin DOMAIN acc.tab
    BY <1>1 DEF PushHot
  <1>2. CASE h \in DOMAIN acc.tab
    <2> DEFINE cells == acc.cells
               tab == acc.tab
               e == [tab[h] EXCEPT !.hot = TRUE]
               new == [tab EXCEPT ![h] = e]
    <2>1. acc = [cells |-> cells, tab |-> tab] /\ Fit(cells, tab)
      BY DEF IsAcc
    <2>2. tab[h] \in Server /\ TabTyped(tab)
      BY <1>2, <2>1 DEF Fit, TabTyped
    <2>3. e \in Server /\ e = [tab[h] EXCEPT !.hot = e.hot, !.offline = e.offline]
      BY <2>2 DEF Server
    <2>4. Fit(cells, new)
      <3> HIDE DEF e, cells, tab
      <3>1. h \in DOMAIN tab
        BY <1>2 DEF tab
      <3> QED BY <2>1, <2>2, <2>3, <3>1, FlagKeeps DEF Fit
    <2>5. PushHot(acc, h) = [cells |-> cells, tab |-> new]
      BY <1>2, <2>1 DEF PushHot
    <2> QED BY <2>4, <2>5 DEF IsAcc
  <1> QED BY <1>1, <1>2

(* pushcs on the table by address.                                         *)
Pushed(tab, ln, reuse) ==
    IF ln.ip \in DOMAIN tab
      THEN [tab EXCEPT ![ln.ip] = MoreCs(@, ln, reuse)]
      ELSE AddIpInfo(tab, ln.ip, NewCs(ln))

(* What becomes of the entry the line is about.                            *)
LEMMA MoreCsIs ==
  ASSUME NEW e, ServerOK(e), OnItsList(e), NEW ln \in LineOf,
         NEW reuse \in BOOLEAN, ~(reuse /\ ln.arch = "FCS"),
         NEW new, new = MoreCs(e, ln, reuse)
  PROVE  /\ ServerOK(new) /\ OnItsList(new) /\ Len(new.dirs) >= Len(e.dirs)
         /\ HasDir(new, ln.d) \/ IsFull(new)
         /\ \A d \in CsDir : HasDir(e, d) => HasDir(new, d)
         /\ \A d \in CsDir : HasDir(new, d) => d = ln.d \/ HasDir(e, d)
         /\ IsFull(e) => IsFull(new)
         /\ (e.archive \/ ln.arch # "FCS") => new.archive
  <1> DEFINE H == \E k \in 1 .. Len(e.dirs) : e.dirs[k] = ln.d
  <1>1. e \in Server /\ e.dirs \in Seq(CsDir) /\ Len(e.dirs) \in Nat /\ Len(e.dirs) =< MaxDir
        /\ MaxDir \in Nat \ {0} /\ ln.d \in CsDir /\ ln.arch \in Arch
        /\ ln.isp \in {"TEL", "CNC"}
    BY ListAssumption DEF ServerOK, Server, LineOf, Arch
  <1>2. Contains(e.dirs, ln.d) = H
    BY <1>1 DEF Contains
  <1>3. /\ new.dirs = IF H \/ Len(e.dirs) = MaxDir THEN e.dirs ELSE Append(e.dirs, ln.d)
        /\ new.archive = (e.archive \/ ln.arch # "FCS") /\ new.role = e.role
        /\ new.arch = IF reuse THEN ln.arch ELSE e.arch
        /\ new.list = IF reuse THEN ln.arch ELSE e.list
        /\ new \in Server
    <2>0. e.archive \in BOOLEAN
      BY <1>1 DEF Server
    <2>1. (e.archive \/ ln.arch # "FCS") \in BOOLEAN
      OBVIOUS
    <2>2. (IF H \/ Len(e.dirs) = MaxDir THEN e.dirs ELSE Append(e.dirs, ln.d)) \in Seq(CsDir)
      BY <1>1
    <2>3. /\ MoreCs(e, ln, reuse).dirs
                = IF H \/ Len(e.dirs) = MaxDir THEN e.dirs ELSE Append(e.dirs, ln.d)
          /\ MoreCs(e, ln, reuse).archive = (e.archive \/ ln.arch # "FCS")
          /\ MoreCs(e, ln, reuse).role = e.role
          /\ MoreCs(e, ln, reuse).arch = IF reuse THEN ln.arch ELSE e.arch
          /\ MoreCs(e, ln, reuse).list = IF reuse THEN ln.arch ELSE e.list
      BY <1>1, <1>2 DEF MoreCs, Server
    <2>4. new \in Server
      <3> DEFINE dirs == IF H \/ Len(e.dirs) = MaxDir THEN e.dirs ELSE Append(e.dirs, ln.d)
                 arc == e.archive \/ ln.arch # "FCS"
                 line == IF reuse THEN ln.arch ELSE e.arch
                 lst == IF reuse THEN ln.arch ELSE e.list
      <3>1. new = [e EXCEPT !.real = ln.isp, !.archive = arc, !.arch = line,
                            !.list = lst, !.dirs = dirs]
        BY <1>1, <1>2 DEF MoreCs, Server
      <3>2. arc \in BOOLEAN /\ dirs \in Seq(CsDir) /\ ln.isp \in IspName
        BY <1>1, <2>1, <2>2 DEF IspName
      <3>3. line \in Arch \union {NoIsp} /\ lst \in Arch \union {NoIsp}
        BY <1>1 DEF Server
      <3> HIDE DEF dirs, arc, line, lst
      <3> QED BY <1>1, <3>1, <3>2, <3>3 DEF Server
    <2> QED BY <2>3, <2>4
  <1>4. OnItsList(new) /\ ((e.archive \/ ln.arch # "FCS") => new.archive)
    <2>1. OnItsList(new)
      BY <1>3 DEF OnItsList
    <2>2. (e.archive \/ ln.arch # "FCS") => new.archive
      BY <1>3, Zenon
    <2> QED BY <2>1, <2>2
  <1>5. CASE H \/ Len(e.dirs) = MaxDir
    <2>1. new.dirs = e.dirs
      BY <1>3, <1>5
    <2>2. ServerOK(new)
      BY <1>3, <2>1 DEF ServerOK
    <2>3. HasDir(new, ln.d) \/ IsFull(new)
      BY <1>5, <2>1 DEF HasDir, IsFull
    <2>4. /\ \A d \in CsDir : HasDir(e, d) => HasDir(new, d)
          /\ \A d \in CsDir : HasDir(new, d) => HasDir(e, d)
      BY <2>1 DEF HasDir
    <2>5. IsFull(e) => IsFull(new)
      BY <2>1 DEF IsFull
    <2> QED BY <1>1, <1>4, <2>1, <2>2, <2>3, <2>4, <2>5
  <1>6. CASE ~H /\ Len(e.dirs) # MaxDir
    <2>1. /\ new.dirs = Append(e.dirs, ln.d) /\ Len(new.dirs) = Len(e.dirs) + 1
          /\ \A k \in 1 .. Len(e.dirs) : new.dirs[k] = e.dirs[k]
          /\ new.dirs[Len(e.dirs) + 1] = ln.d
      BY <1>1, <1>3, <1>6
    <2>2. ServerOK(new)
      <3>1. Len(new.dirs) =< MaxDir
        BY <1>1, <1>6, <2>1
      <3>2. \A i, j \in 1 .. Len(new.dirs) : new.dirs[i] = new.dirs[j] => i = j
        BY <1>1, <1>6, <2>1 DEF ServerOK
      <3> QED BY <1>3, <3>1, <3>2 DEF ServerOK
    <2>3. HasDir(new, ln.d) /\ \A d \in CsDir : HasDir(e, d) => HasDir(new, d)
      BY <1>1, <2>1 DEF HasDir
    <2>4. \A d \in CsDir : HasDir(new, d) => d = ln.d \/ HasDir(e, d)
      BY <1>1, <2>1 DEF HasDir
    <2>5. ~IsFull(e) /\ Len(new.dirs) >= Len(e.dirs)
      BY <1>1, <1>6, <2>1 DEF IsFull
    <2> QED BY <1>4, <2>2, <2>3, <2>4, <2>5
  <1> QED BY <1>5, <1>6

LEMMA NewCsIs ==
  ASSUME NEW ln \in LineOf, NEW new, new = NewCs(ln)
  PROVE  /\ ServerOK(new) /\ OnItsList(new) /\ Len(new.dirs) = 1
         /\ HasDir(new, ln.d) /\ \A d \in CsDir : HasDir(new, d) => d = ln.d
         /\ ln.arch # "FCS" => new.archive
  <1>1. MaxDir \in Nat \ {0} /\ ln.d \in CsDir /\ ln.arch \in Arch /\ ln.isp \in {"TEL", "CNC"}
    BY ListAssumption DEF LineOf, Arch
  <1>2. /\ new.dirs = <<ln.d>> /\ new.archive = (ln.arch # "FCS") /\ new.role = "CS"
        /\ new.arch = ln.arch /\ new.list = IF ln.arch = "FCS" THEN NoIsp ELSE ln.arch
        /\ new \in Server
    <2>1. (ln.arch # "FCS") \in BOOLEAN /\ <<ln.d>> \in Seq(CsDir)
      BY <1>1
    <2> QED BY <1>1, <2>1 DEF NewCs, IpInfo, Server, IspName
  <1>3. ServerOK(new) /\ OnItsList(new) /\ Len(new.dirs) = 1
    BY <1>1, <1>2 DEF ServerOK, OnItsList
  <1>4. HasDir(new, ln.d) /\ \A d \in CsDir : HasDir(new, d) => d = ln.d
    BY <1>1, <1>2 DEF HasDir
  <1>5. ln.arch # "FCS" => new.archive
    BY <1>2, Zenon
  <1> QED BY <1>3, <1>4, <1>5

(* The directories of the entries are the old ones, and d for the server   *)
(* ip.                                                                     *)
OnlyGets(tab, new, ip, d) ==
    \A h \in DOMAIN new, c \in CsDir : HasDir(new[h], c) =>
        (h = ip /\ c = d) \/ (h \in DOMAIN tab /\ HasDir(tab[h], c))

LEMMA PushedTab ==
  ASSUME NEW tab, TabTyped(tab), SelfIsCs(tab),
         \A h \in DOMAIN tab : OnItsList(tab[h]),
         NEW ln \in LineOf, NEW reuse \in BOOLEAN, ~(reuse /\ ln.arch = "FCS"),
         NEW new, new = Pushed(tab, ln, reuse)
  PROVE  /\ TabTyped(new) /\ Grows(tab, new) /\ SelfIsCs(new)
         /\ ln.ip \in DOMAIN new
         /\ HasDir(new[ln.ip], ln.d) \/ IsFull(new[ln.ip])
         /\ ln.arch # "FCS" => new[ln.ip].archive
         /\ \A h \in DOMAIN new : OnItsList(new[h])
         /\ OnlyGets(tab, new, ln.ip, ln.d)
  <1>1. ln.ip \in Host
    BY DEF LineOf
  <1>2. CASE ln.ip \in DOMAIN tab
    <2> DEFINE e == tab[ln.ip]
               m == MoreCs(e, ln, reuse)
    <2>1. /\ DOMAIN new = DOMAIN tab /\ new[ln.ip] = m
          /\ \A h \in DOMAIN tab : h # ln.ip => new[h] = tab[h]
          /\ new = [g \in DOMAIN new |-> new[g]]
      BY <1>2 DEF Pushed, TabTyped
    <2>2. ServerOK(e) /\ OnItsList(e) /\ Len(e.dirs) \in Nat
      BY <1>2 DEF TabTyped, ServerOK, Server
    <2>3. /\ ServerOK(m) /\ OnItsList(m) /\ Len(m.dirs) >= Len(e.dirs)
          /\ HasDir(m, ln.d) \/ IsFull(m)
          /\ \A d \in CsDir : HasDir(e, d) => HasDir(m, d)
          /\ \A d \in CsDir : HasDir(m, d) => d = ln.d \/ HasDir(e, d)
          /\ IsFull(e) => IsFull(m)
          /\ (e.archive \/ ln.arch # "FCS") => m.archive
      BY <2>2, MoreCsIs
    <2>4. m \in Server /\ Len(m.dirs) \in Nat
      BY <2>3 DEF ServerOK, Server
    <2> HIDE DEF m
    <2>5. TabTyped(new)
      BY <2>1, <2>3, <2>4 DEF TabTyped
    <2>6. Grows(tab, new)
      BY <1>2, <2>1, <2>3 DEF Grows
    <2>7. SelfIsCs(new)
      BY <2>1, <2>2, <2>3, <2>4 DEF SelfIsCs
    <2>8. OnlyGets(tab, new, ln.ip, ln.d)
      BY <2>1, <2>3 DEF OnlyGets
    <2> QED BY <1>2, <2>1, <2>3, <2>5, <2>6, <2>7, <2>8
  <1>3. CASE ln.ip \notin DOMAIN tab
    <2> DEFINE m == NewCs(ln)
    <2>1. /\ DOMAIN new = DOMAIN tab \union {ln.ip} /\ new[ln.ip] = m
          /\ \A h \in DOMAIN tab : new[h] = tab[h]
          /\ new = [g \in DOMAIN new |-> new[g]]
      BY <1>3 DEF Pushed, AddIpInfo
    <2>2. /\ ServerOK(m) /\ OnItsList(m) /\ Len(m.dirs) = 1
          /\ HasDir(m, ln.d) /\ \A d \in CsDir : HasDir(m, d) => d = ln.d
          /\ ln.arch # "FCS" => m.archive
      BY NewCsIs
    <2>3. m \in Server
      BY <2>2 DEF ServerOK
    <2> HIDE DEF m
    <2>4. TabTyped(new)
      BY <1>1, <2>1, <2>2, <2>3 DEF TabTyped
    <2>5. Grows(tab, new)
      BY <2>1 DEF Grows
    <2>6. SelfIsCs(new)
      BY <2>1, <2>2 DEF SelfIsCs
    <2>7. OnlyGets(tab, new, ln.ip, ln.d)
      BY <2>1, <2>2 DEF OnlyGets
    <2> QED BY <2>1, <2>2, <2>4, <2>5, <2>6, <2>7
  <1> QED BY <1>2, <1>3

(* The servers of a directory that begins again, and the one that made it  *)
(* do so, are MaxCell.                                                     *)
LEMMA BeganAgain ==
  ASSUME NEW cells, CellsTyped(cells), NEW new, TabTyped(new),
         NEW d \in CsDir, Len(cells[d]) + 1 = MaxCell,
         \A i \in DOMAIN cells[d] : Known(new, d, cells[d][i]),
         NEW h \in DOMAIN new, HasDir(new[h], d) \/ IsFull(new[h]), ~RowIn(cells, d, h)
  PROVE  Cardinality(Candidates(new, d)) >= MaxCell
  <1> DEFINE n == Len(cells[d])
             f == [i \in 1 .. MaxCell |-> IF i = MaxCell THEN h ELSE cells[d][i].ip]
  <1>1. cells[d] \in Seq(CsRow) /\ n \in Nat /\ MaxCell = n + 1 /\ DOMAIN cells[d] = 1 .. n
    BY DEF CellsTyped
  <1>2. IsFiniteSet(Candidates(new, d)) /\ Cardinality(Candidates(new, d)) \in Nat
    <2>1. Grows(new, new)
      BY DEF Grows
    <2> QED BY <2>1, CandidatesStay
  <1>3. \A i \in 1 .. MaxCell : f[i] \in Candidates(new, d)
    BY <1>1 DEF Known, Candidates
  <1>4. \A i, j \in 1 .. MaxCell : f[i] = f[j] => i = j
    <2>1. \A i \in 1 .. n : f[i] = cells[d][i].ip /\ f[i] # h
      BY <1>1 DEF RowIn
    <2>2. f[MaxCell] = h
      BY <1>1
    <2>3. \A i, j \in 1 .. n : f[i] = f[j] => i = j
      BY <1>1, <2>1 DEF CellsTyped
    <2>4. \A i \in 1 .. MaxCell : i = MaxCell \/ i \in 1 .. n
      BY <1>1
    <2> HIDE DEF f, n
    <2> QED BY <2>1, <2>2, <2>3, <2>4, Zenon
  <1>5. f \in Injection(1 .. MaxCell, Candidates(new, d))
    <2> HIDE DEF f
    <2>1. f \in [1 .. MaxCell -> Candidates(new, d)]
      BY <1>3 DEF f
    <2> QED BY <1>4, <2>1 DEF Injection, IsInjective
  <1>6. Cardinality(1 .. MaxCell) =< Cardinality(Candidates(new, d))
    <2> HIDE DEF f
    <2> QED BY <1>2, <1>5, FS_Injection
  <1>7. Cardinality(1 .. MaxCell) = MaxCell
    <2>1. 1 \in Int /\ MaxCell \in Int /\ ~(1 > MaxCell) /\ MaxCell - 1 + 1 = MaxCell
      BY <1>1
    <2> HIDE DEF f, n
    <2>2. Cardinality(1 .. MaxCell) = IF 1 > MaxCell THEN 0 ELSE MaxCell - 1 + 1
      BY <2>1, FS_Interval
    <2> QED BY <2>1, <2>2
  <1> QED BY <1>1, <1>2, <1>6, <1>7

(* A directory gets other rows.                                            *)
Distinct(rows) == \A i, j \in DOMAIN rows : rows[i].ip = rows[j].ip => i = j

LEMMA RowsPut ==
  ASSUME NEW cells, CellsTyped(cells), NEW d \in CsDir, NEW rows \in Seq(CsRow),
         Len(rows) < MaxCell, Distinct(rows)
  PROVE  CellsTyped([cells EXCEPT ![d] = rows])
  <1> DEFINE next == [cells EXCEPT ![d] = rows]
  <1>1. /\ next \in [CsDir -> Seq(CsRow)] /\ next[d] = rows
        /\ \A c \in CsDir \ {d} : next[c] = cells[c]
    BY DEF CellsTyped
  <1> HIDE DEF next
  <1>2. \A c \in CsDir : Len(next[c]) < MaxCell
    BY <1>1 DEF CellsTyped
  <1>3. \A c \in CsDir : \A i, j \in DOMAIN next[c] : next[c][i].ip = next[c][j].ip => i = j
    <2> TAKE c \in CsDir
    <2>1. CASE c = d
      BY <1>1, <2>1, Zenon DEF Distinct
    <2>2. CASE c # d
      <3>1. next[c] = cells[c]
        BY <1>1, <2>2
      <3>2. \A i, j \in DOMAIN cells[c] : cells[c][i].ip = cells[c][j].ip => i = j
        BY DEF CellsTyped
      <3> QED BY <3>1, <3>2, Zenon
    <2> QED BY <2>1, <2>2
  <1>4. CellsTyped(next)
    BY <1>1, <1>2, <1>3 DEF CellsTyped
  <1> QED BY <1>4 DEF next

(* The servers with a row keep it, and ip has one.                         *)
RowsKept(old, rows, ip) ==
    /\ \E i \in DOMAIN rows : rows[i].ip = ip
    /\ \A i \in DOMAIN old : \E j \in DOMAIN rows : rows[j].ip = old[i].ip

LEMMA RowsAgree ==
  ASSUME NEW cells, CellsTyped(cells), NEW d \in CsDir, NEW rows,
         NEW tab, NEW new, Agree(cells, tab), TabTyped(new), Grows(tab, new),
         \A h \in DOMAIN new : OnItsList(new[h]),
         NEW ip, OnlyGets(tab, new, ip, d),
         \A i \in DOMAIN rows : Known(new, d, rows[i]),
         Cardinality(Candidates(new, d)) >= MaxCell \/ RowsKept(cells[d], rows, ip)
  PROVE  Agree([cells EXCEPT ![d] = rows], new)
  <1> DEFINE next == [cells EXCEPT ![d] = rows]
  <1>0. next[d] = rows /\ \A c \in CsDir \ {d} : next[c] = cells[c]
    BY DEF CellsTyped
  <1> HIDE DEF next
  <1>1. \A c \in CsDir : \A i \in DOMAIN next[c] : Known(new, c, next[c][i])
    <2> SUFFICES ASSUME NEW c \in CsDir, NEW i \in DOMAIN next[c] PROVE Known(new, c, next[c][i])
      OBVIOUS
    <2>1. CASE c = d
      BY <1>0, <2>1
    <2>2. CASE c # d
      <3>1. next[c] = cells[c]
        BY <1>0, <2>2
      <3>2. Known(tab, c, cells[c][i])
        BY <3>1 DEF Agree
      <3> QED BY <3>1, <3>2, KnownStays
    <2> QED BY <2>1, <2>2
  <1>2. \A c \in CsDir, h \in DOMAIN new : HasDir(new[h], c) =>
           RowIn(next, c, h) \/ Cardinality(Candidates(new, c)) >= MaxCell
    <2> SUFFICES ASSUME NEW c \in CsDir, NEW h \in DOMAIN new, HasDir(new[h], c),
                        ~(Cardinality(Candidates(new, c)) >= MaxCell)
                 PROVE  RowIn(next, c, h)
      OBVIOUS
    <2>1. ~(Cardinality(Candidates(tab, c)) >= MaxCell)
      BY CandidatesStay
    <2>2. (h = ip /\ c = d) \/ RowIn(cells, c, h)
      BY <2>1 DEF Agree, OnlyGets
    <2>3. CASE c # d
      <3>1. next[c] = cells[c]
        BY <1>0, <2>3
      <3> QED BY <2>2, <2>3, <3>1 DEF RowIn
    <2>4. CASE c = d
      BY <1>0, <2>2, <2>4 DEF RowIn, RowsKept
    <2> QED BY <2>3, <2>4
  <1>3. Agree(next, new)
    BY <1>1, <1>2 DEF Agree
  <1> QED BY <1>3 DEF next

(* The row of a server the directory has already.                          *)
Again(cell, ln) ==
    [i \in DOMAIN cell |->
       IF cell[i].ip = ln.ip THEN [cell[i] EXCEPT !.arch = ln.arch, !.real = ln.isp]
       ELSE cell[i]]

LEMMA AgainIs ==
  ASSUME NEW cell \in Seq(CsRow), NEW ln \in LineOf
  PROVE  /\ Again(cell, ln) \in Seq(CsRow) /\ Len(Again(cell, ln)) = Len(cell)
         /\ DOMAIN Again(cell, ln) = DOMAIN cell
         /\ \A i \in DOMAIN cell :
               /\ Again(cell, ln)[i].ip = cell[i].ip
               /\ \/ Again(cell, ln)[i] = cell[i]
                  \/ cell[i].ip = ln.ip /\ Again(cell, ln)[i].arch = ln.arch
  <1>1. ln.arch \in Arch /\ ln.isp \in {"TEL", "CNC"}
    BY DEF LineOf, Arch
  <1>2. Len(cell) \in Nat /\ DOMAIN cell = 1 .. Len(cell)
    OBVIOUS
  <1>3. ASSUME NEW i \in DOMAIN cell
        PROVE  /\ Again(cell, ln)[i] \in CsRow
               /\ Again(cell, ln)[i].ip = cell[i].ip
               /\ \/ Again(cell, ln)[i] = cell[i]
                  \/ cell[i].ip = ln.ip /\ Again(cell, ln)[i].arch = ln.arch
    <2> DEFINE c == cell[i]
               e == [c EXCEPT !.arch = ln.arch, !.real = ln.isp]
    <2>1. c \in CsRow
      BY <1>2
    <2>2. e \in CsRow /\ e.ip = c.ip /\ e.arch = ln.arch
      BY <1>1, <2>1 DEF CsRow
    <2>3. Again(cell, ln)[i] = IF c.ip = ln.ip THEN e ELSE c
      BY <1>3 DEF Again
    <2> HIDE DEF e
    <2> QED BY <2>1, <2>2, <2>3
  <1>4. DOMAIN Again(cell, ln) = 1 .. Len(cell)
    BY <1>2 DEF Again
  <1>5. Again(cell, ln) = [i \in 1 .. Len(cell) |-> Again(cell, ln)[i]]
    BY <1>2 DEF Again
  <1>6. Again(cell, ln) \in Seq(CsRow) /\ Len(Again(cell, ln)) = Len(cell)
    <2> DEFINE f == Again(cell, ln)
    <2> HIDE DEF f
    <2>1. f = [i \in 1 .. Len(cell) |-> f[i]] /\ \A i \in 1 .. Len(cell) : f[i] \in CsRow
      BY <1>2, <1>3, <1>5 DEF f
    <2>2. f \in [1 .. Len(cell) -> CsRow]
      BY <2>1
    <2>3. f \in Seq(CsRow)
      BY <1>2, <2>2
    <2>4. Len(f) = Len(cell)
      BY <1>2, <2>2, <2>3
    <2> QED BY <2>3, <2>4 DEF f
  <1> QED BY <1>2, <1>3, <1>4, <1>6

(* pushcs, on both tables.                                                 *)
LEMMA PushCsKeeps ==
  ASSUME NEW acc, IsAcc(acc), NEW ln \in LineOf
  PROVE  IsAcc(PushCs(acc, ln))
  <1> DEFINE cells == acc.cells
             tab == acc.tab
             d == ln.d
             cell == cells[d]
             reuse == \E i \in DOMAIN cell : cell[i].ip = ln.ip
             row == [ip |-> ln.ip, isp |-> ln.isp, real |-> ln.isp, arch |-> ln.arch]
             grown == IF Len(cell) + 1 = MaxCell THEN <<>> ELSE Append(cell, row)
             rows == IF reuse THEN Again(cell, ln) ELSE grown
             new == Pushed(tab, ln, reuse)
             next == [cells EXCEPT ![d] = rows]
  <1>1. d \in CsDir /\ ln.ip \in Host /\ ln.arch \in Arch /\ row \in CsRow
    BY DEF LineOf, Arch, CsRow
  <1>2. /\ CellsTyped(cells) /\ TabTyped(tab) /\ SelfIsCs(tab) /\ Agree(cells, tab)
        /\ acc = [cells |-> cells, tab |-> tab]
    BY DEF IsAcc, Fit
  <1>3. cell \in Seq(CsRow) /\ Len(cell) \in Nat /\ Len(cell) < MaxCell /\ MaxCell \in Nat
        /\ DOMAIN cell = 1 .. Len(cell) /\ MaxCell > 0
        /\ \A i, j \in DOMAIN cell : cell[i].ip = cell[j].ip => i = j
    BY <1>1, <1>2, ListAssumption DEF CellsTyped
  <1>4. CASE reuse /\ ln.arch = "FCS"
    BY <1>4 DEF PushCs
  <1>5. CASE ~(reuse /\ ln.arch = "FCS")
    <2>1. PushCs(acc, ln) = [cells |-> next, tab |-> new]
      BY <1>5 DEF PushCs, Pushed, Again
    <2>2. /\ TabTyped(new) /\ Grows(tab, new) /\ SelfIsCs(new)
          /\ ln.ip \in DOMAIN new
          /\ HasDir(new[ln.ip], d) \/ IsFull(new[ln.ip])
          /\ ln.arch # "FCS" => new[ln.ip].archive
          /\ \A h \in DOMAIN new : OnItsList(new[h])
          /\ OnlyGets(tab, new, ln.ip, d)
      <3>1. \A h \in DOMAIN tab : OnItsList(tab[h])
        BY <1>2 DEF Agree
      <3>2. reuse \in BOOLEAN
        OBVIOUS
      <3> HIDE DEF new, tab, reuse
      <3>3. new = Pushed(tab, ln, reuse)
        BY DEF new
      <3> QED BY <1>2, <1>5, <3>1, <3>2, <3>3, PushedTab
    <2> HIDE DEF new, tab
    <2>3. \A c \in CsDir : \A i \in DOMAIN cells[c] : Known(new, c, cells[c][i])
      BY <1>2, <2>2, KnownStays DEF Agree
    <2>4. ASSUME rows \in Seq(CsRow), Len(rows) < MaxCell, Distinct(rows),
                 \A i \in DOMAIN rows : Known(new, d, rows[i]),
                 Cardinality(Candidates(new, d)) >= MaxCell \/ RowsKept(cell, rows, ln.ip)
          PROVE  IsAcc(PushCs(acc, ln))
      <3> HIDE DEF rows, cells, d, cell
      <3>1. CellsTyped(next)
        BY <1>1, <1>2, <2>4, RowsPut
      <3>2. Agree(next, new)
        <4>1. \A i \in DOMAIN rows : Known(new, d, rows[i])
          BY <2>4
        <4>2. Cardinality(Candidates(new, d)) >= MaxCell \/ RowsKept(cells[d], rows, ln.ip)
          BY <2>4 DEF cell
        <4> QED BY <1>1, <1>2, <2>2, <4>1, <4>2, RowsAgree
      <3> QED BY <2>1, <2>2, <3>1, <3>2 DEF IsAcc, Fit
    <2>5. CASE reuse
      <3>1. rows = Again(cell, ln)
        BY <2>5
      <3> HIDE DEF rows
      <3>2. /\ rows \in Seq(CsRow) /\ Len(rows) = Len(cell) /\ DOMAIN rows = DOMAIN cell
            /\ \A i \in DOMAIN cell :
                  /\ rows[i].ip = cell[i].ip
                  /\ rows[i] = cell[i] \/ (cell[i].ip = ln.ip /\ rows[i].arch = ln.arch)
        BY <1>3, <3>1, AgainIs
      <3>3. Distinct(rows)
        BY <1>3, <3>2 DEF Distinct
      <3>4. \A i \in DOMAIN rows : Known(new, d, rows[i])
        BY <1>1, <2>2, <2>3, <3>2 DEF Known
      <3>5. \E i \in DOMAIN rows : rows[i].ip = ln.ip
        BY <2>5, <3>2
      <3>6. RowsKept(cell, rows, ln.ip)
        BY <3>2, <3>5 DEF RowsKept
      <3> QED BY <1>3, <2>4, <3>2, <3>3, <3>4, <3>6
    <2>6. CASE ~reuse /\ Len(cell) + 1 # MaxCell
      <3> DEFINE n == Len(cell) + 1
      <3>1. rows = Append(cell, row)
        BY <2>6
      <3>2. row.ip = ln.ip /\ row.arch = ln.arch
        OBVIOUS
      <3>3. \A i \in 1 .. Len(cell) : cell[i].ip # ln.ip
        BY <1>3, <2>6
      <3> HIDE DEF rows, row, cell
      <3>4. /\ rows \in Seq(CsRow) /\ Len(rows) = n /\ DOMAIN rows = 1 .. n
            /\ \A i \in 1 .. Len(cell) : rows[i] = cell[i]
            /\ rows[n] = row /\ n < MaxCell
        BY <1>1, <1>3, <2>6, <3>1
      <3>5. Distinct(rows)
        BY <1>3, <3>2, <3>3, <3>4 DEF Distinct
      <3>6. \A i \in DOMAIN rows : Known(new, d, rows[i])
        <4>1. Known(new, d, row)
          BY <2>2, <3>2 DEF Known
        <4>2. \A i \in DOMAIN cell : Known(new, d, cell[i])
          BY <1>1, <2>3 DEF cell
        <4> QED BY <1>3, <3>4, <4>1, <4>2
      <3>7. \E i \in DOMAIN rows : rows[i].ip = ln.ip
        BY <1>3, <3>2, <3>4
      <3>8. \A i \in DOMAIN cell : \E j \in DOMAIN rows : rows[j].ip = cell[i].ip
        BY <1>3, <3>4
      <3>9. RowsKept(cell, rows, ln.ip)
        BY <3>7, <3>8 DEF RowsKept
      <3> QED BY <2>4, <3>4, <3>5, <3>6, <3>9
    <2>7. CASE ~reuse /\ Len(cell) + 1 = MaxCell
      <3>1. rows = << >>
        BY <2>7
      <3>2. ~RowIn(cells, d, ln.ip)
        BY <2>7 DEF RowIn
      <3>3. Cardinality(Candidates(new, d)) >= MaxCell
        BY <1>1, <1>2, <2>2, <2>3, <2>7, <3>2, BeganAgain
      <3> HIDE DEF rows
      <3>4. rows \in Seq(CsRow) /\ Len(rows) < MaxCell /\ DOMAIN rows = {}
        BY <1>3, <3>1
      <3>5. Distinct(rows)
        BY <3>4 DEF Distinct
      <3> QED BY <2>4, <3>3, <3>4, <3>5
    <2> QED BY <2>5, <2>6, <2>7
  <1> QED BY <1>4, <1>5

(* A line of any list.                                                     *)
LEMMA TakeKeeps ==
  ASSUME NEW acc, IsAcc(acc), NEW it \in ListLine
  PROVE  IsAcc(Take(acc, it[1], it[2]))
  <1>1. CASE it \in CsLine
    <2>1. it[1] \in {"cs", "archive"} /\ it[2] \in LineOf
      BY <1>1 DEF CsLine
    <2>2. Take(acc, it[1], it[2]) = PushCs(acc, it[2])
      BY <2>1 DEF Take
    <2> QED BY <2>1, <2>2, PushCsKeeps
  <1>2. CASE it \in {"hot"} \X Host
    <2>1. it[1] = "hot" /\ it[2] \in Host
      BY <1>2
    <2>2. Take(acc, it[1], it[2]) = PushHot(acc, it[2])
      BY <2>1 DEF Take
    <2> QED BY <2>1, <2>2, HotKeeps
  <1>3. CASE it \in OtherLine
    <2>1. it[1] \in {"tracker", "fcs", "afcs", "voss"} /\ it[2] \in Host \ {Self}
      BY <1>3 DEF OtherLine
    <2>2. Take(acc, it[1], it[2]) =
            [acc EXCEPT !.tab = AddIpInfo(@, it[2], OfList(it[1]))]
      BY <2>1 DEF Take
    <2>3. Take(acc, it[1], it[2]) =
            [cells |-> acc.cells, tab |-> AddIpInfo(acc.tab, it[2], OfList(it[1]))]
      BY <2>2 DEF IsAcc
    <2>4. Fit(acc.cells, AddIpInfo(acc.tab, it[2], OfList(it[1])))
      BY <2>1, AddKeeps DEF IsAcc
    <2> QED BY <2>3, <2>4 DEF IsAcc
  <1> QED BY <1>1, <1>2, <1>3 DEF ListLine

(* All the lines.  What the recursion yields is found with a least         *)
(* counterexample.                                                         *)
LEMMA LeastOf ==
  ASSUME NEW S \in SUBSET Nat, S # {}
  PROVE  \E x \in S : \A y \in S : ~ (y < x)
  <1>1. \E x \in S : \A y \in S : ~ (<<y, x>> \in OpToRel(<, Nat))
    BY WFMin, NatLessThanWellFounded, Zenon
  <1> QED BY <1>1, Zenon DEF OpToRel

TakenBy(all, k, g) ==
    g = [n \in 0 .. k |-> IF n = 0 THEN Nothing
                          ELSE Take(g[n - 1], all[n][1], all[n][2])]

LEMMA TakenExists ==
  ASSUME NEW all, NEW k \in Nat
  PROVE  \E g : TakenBy(all, k, g)
  <1> DEFINE S == {n \in Nat : ~ \E g : TakenBy(all, n, g)}
  <1> SUFFICES S = {}
    OBVIOUS
  <1> SUFFICES ASSUME S # {} PROVE FALSE
    OBVIOUS
  <1>1. PICK m \in S : \A y \in S : ~ (y < m)
    BY LeastOf
  <1>2. m \in Nat /\ ~ \E g : TakenBy(all, m, g)
    OBVIOUS
  <1>3. m # 0
    <2>1. TakenBy(all, 0, [n \in 0 .. 0 |-> Nothing])
      BY DEF TakenBy
    <2> QED BY <1>2, <2>1
  <1>4. m - 1 \in Nat /\ m - 1 < m
    BY <1>2, <1>3
  <1>5. PICK g : TakenBy(all, m - 1, g)
    BY <1>1, <1>4
  <1> DEFINE F(f, n) == Take(f[n - 1], all[n][1], all[n][2])
             h == [n \in 0 .. m |-> IF n = m THEN F(g, m) ELSE g[n]]
  <1> HIDE DEF F
  <1>6. g = [n \in 0 .. m - 1 |-> IF n = 0 THEN Nothing ELSE F(g, n)]
    BY <1>5 DEF TakenBy, F
  <1>7. \A n \in 0 .. m - 1 : h[n] = g[n] /\ g[n] = IF n = 0 THEN Nothing ELSE F(g, n)
    BY <1>4, <1>6
  <1>8. \A n \in 1 .. m : F(h, n) = F(g, n)
    <2> TAKE n \in 1 .. m
    <2>1. n - 1 \in 0 .. m - 1
      BY <1>2
    <2>2. h[n - 1] = g[n - 1]
      BY <1>7, <2>1
    <2> QED BY <2>2, Zenon DEF F
  <1>9. \A n \in 0 .. m : h[n] = IF n = 0 THEN Nothing ELSE F(h, n)
    <2> TAKE n \in 0 .. m
    <2>1. CASE n = m
      <3>1. h[n] = F(g, n) /\ n \in 1 .. m
        BY <1>2, <1>3, <2>1
      <3> QED BY <1>3, <1>8, <2>1, <3>1
    <2>2. CASE n # m
      <3>1. n \in 0 .. m - 1 /\ (n # 0 => n \in 1 .. m)
        BY <1>2, <2>2
      <3> QED BY <1>7, <1>8, <3>1
    <2> QED BY <2>1, <2>2
  <1>10. h = [n \in 0 .. m |-> IF n = 0 THEN Nothing ELSE F(h, n)]
    <2>1. h = [n \in 0 .. m |-> h[n]]
      OBVIOUS
    <2> HIDE DEF h
    <2> QED BY <1>9, <2>1
  <1>11. TakenBy(all, m, h)
    <2> HIDE DEF h
    <2> QED BY <1>10, Zenon DEF TakenBy, F
  <1> QED BY <1>2, <1>11

LEMMA TakeAllIs ==
  ASSUME NEW all, Len(all) \in Nat
  PROVE  \E g : TakenBy(all, Len(all), g) /\ TakeAll(all) = g[Len(all)]
  <1> DEFINE after == CHOOSE g : TakenBy(all, Len(all), g)
  <1>1. TakenBy(all, Len(all), after)
    BY TakenExists, Zenon
  <1>2. TakeAll(all) = after[Len(all)]
    BY Zenon DEF TakeAll, TakenBy
  <1> QED BY <1>1, <1>2, Zenon

LEMMA TakeAllFits ==
  ASSUME NEW all \in Seq(ListLine)
  PROVE  IsAcc(TakeAll(all))
  <1>1. PICK g : TakenBy(all, Len(all), g) /\ TakeAll(all) = g[Len(all)]
    BY TakeAllIs
  <1>2. IsAcc(Nothing)
    <2> DEFINE c == [d \in CsDir |-> <<>>]
               t == <<>>
    <2>1. Nothing = [cells |-> c, tab |-> t]
      BY DEF Nothing
    <2>2. CellsTyped(c)
      BY ListAssumption DEF CellsTyped
    <2>3. TabTyped(t) /\ Agree(c, t) /\ SelfIsCs(t)
      BY DEF TabTyped, Agree, SelfIsCs
    <2> QED BY <2>1, <2>2, <2>3 DEF IsAcc, Fit
  <1> DEFINE S == {n \in 0 .. Len(all) : ~IsAcc(g[n])}
  <1>3. S = {}
    <2> SUFFICES ASSUME S # {} PROVE FALSE
      OBVIOUS
    <2>1. S \in SUBSET Nat
      OBVIOUS
    <2>2. PICK m \in S : \A y \in S : ~ (y < m)
      BY <2>1, LeastOf
    <2>3. m \in 0 .. Len(all) /\ ~IsAcc(g[m]) /\ Len(all) \in Nat
      OBVIOUS
    <2>4. g[m] = IF m = 0 THEN Nothing ELSE Take(g[m - 1], all[m][1], all[m][2])
      BY <1>1, <2>3 DEF TakenBy
    <2>5. m # 0
      BY <1>2, <2>3, <2>4
    <2>6. m - 1 \in 0 .. Len(all) /\ m - 1 < m /\ m \in 1 .. Len(all)
      BY <2>3, <2>5
    <2>7. IsAcc(g[m - 1]) /\ all[m] \in ListLine
      BY <2>2, <2>6
    <2>8. IsAcc(Take(g[m - 1], all[m][1], all[m][2]))
      BY <2>7, TakeKeeps
    <2> QED BY <2>3, <2>4, <2>5, <2>8
  <1> QED BY <1>1, <1>3

LEMMA NamedIs ==
  ASSUME NEW f, NEW name, NEW S, f[name] \in Seq(S)
  PROVE  Named(f, name) \in Seq({name} \X S)
  <1> DEFINE s == f[name]
             g == [i \in 1 .. Len(s) |-> <<name, s[i]>>]
  <1>1. Len(s) \in Nat /\ DOMAIN s = 1 .. Len(s)
    OBVIOUS
  <1>2. \A i \in 1 .. Len(s) : <<name, s[i]>> \in {name} \X S
    OBVIOUS
  <1>3. Named(f, name) = g
    BY <1>1 DEF Named
  <1> HIDE DEF s
  <1>4. g \in Seq({name} \X S)
    BY <1>1, <1>2
  <1> QED BY <1>3, <1>4

LEMMA LinesAre ==
  ASSUME NEW f \in Lists
  PROVE  LinesOf(f) \in Seq(ListLine)
  <1>1. /\ f.cs \in Seq(LineOf) /\ f.archive \in Seq(LineOf) /\ f.hot \in Seq(Host)
        /\ f.tracker \in Seq(Host \ {Self}) /\ f.fcs \in Seq(Host \ {Self})
        /\ f.afcs \in Seq(Host \ {Self}) /\ f.voss \in Seq(Host \ {Self})
    BY ListAssumption
  <1>2. \A S \in SUBSET ListLine : \A s \in Seq(S) : s \in Seq(ListLine)
    OBVIOUS
  <1>3. /\ {"cs"} \X LineOf \in SUBSET ListLine
        /\ {"archive"} \X LineOf \in SUBSET ListLine
        /\ {"hot"} \X Host \in SUBSET ListLine
        /\ {"tracker"} \X (Host \ {Self}) \in SUBSET ListLine
        /\ {"fcs"} \X (Host \ {Self}) \in SUBSET ListLine
        /\ {"afcs"} \X (Host \ {Self}) \in SUBSET ListLine
        /\ {"voss"} \X (Host \ {Self}) \in SUBSET ListLine
    BY DEF ListLine, CsLine, OtherLine
  <1>4. /\ Named(f, "cs") \in Seq(ListLine)
        /\ Named(f, "archive") \in Seq(ListLine)
        /\ Named(f, "hot") \in Seq(ListLine)
    BY <1>1, <1>2, <1>3, NamedIs
  <1>5. /\ Named(f, "tracker") \in Seq(ListLine)
        /\ Named(f, "fcs") \in Seq(ListLine)
        /\ Named(f, "afcs") \in Seq(ListLine)
        /\ Named(f, "voss") \in Seq(ListLine)
    BY <1>1, <1>2, <1>3, NamedIs
  <1> QED BY <1>4, <1>5 DEF LinesOf

LEMMA LoadedFits ==
  ASSUME NEW f \in Lists
  PROVE  Fit(Loaded(f).cells, Loaded(f).tab)
  <1>1. Loaded(f) = ReadLists(f)
    <2> DEFINE r == CHOOSE r \in Readings : r.lists = f
    <2>1. [lists |-> f, result |-> ReadLists(f)] \in Readings
      BY DEF Readings
    <2>2. r \in Readings /\ r.lists = f
      BY <2>1
    <2>3. PICK g \in Lists : r = [lists |-> g, result |-> ReadLists(g)]
      BY <2>2 DEF Readings
    <2>4. Loaded(f) = r.result
      BY Zenon DEF Loaded
    <2> HIDE DEF r
    <2>5. r.lists = g /\ r.result = ReadLists(g)
      BY <2>3
    <2>6. g = f
      BY <2>2, <2>5
    <2> QED BY <2>4, <2>5, <2>6
  <1> QED BY <1>1, LinesAre, TakeAllFits DEF ReadLists, IsAcc

LEMMA SelfInfoIs ==
  ASSUME NEW f \in Lists, Self \in DOMAIN Loaded(f).tab
  PROVE  Head(Loaded(f).tab[Self].dirs) \in CsDir
  <1>1. Len(Loaded(f).tab[Self].dirs) > 0 /\ Loaded(f).tab[Self].dirs \in Seq(CsDir)
    BY LoadedFits DEF Fit, SelfIsCs, TabTyped, Server
  <1> QED BY <1>1

----------------------------------------------------------------------------
(* The invariant of the process: the tables fit whenever no reload is at   *)
(* them; a thread that walks the table keeps the reloads out and has only  *)
(* entries of it before it; and the key sync is away only while CONFUPDA   *)
(* replaces it.                                                            *)
CommandKind == {"OFFLINE", "ONLINE", "SYNCDIR", "CONFUPDA", "NEWVOSS"}
OpStep == {"idle", "self", "flag", "list", "task", "delete", "put", "dump", "close",
           "config"}
KeyInv ==
    /\ files \in Lists /\ conf \in {"yes", "no", "torn"} /\ gsync \in BOOLEAN
    /\ key \in [sync : {"yes", "no", "none"}, voss : BOOLEAN]
    /\ key.sync = "none" => op.at = "put" /\ op.kind # "NEWVOSS"
OpInv ==
    /\ op \in [at : OpStep, kind : CommandKind, host : Host \union {NoHost}]
    /\ op.at \in {"self", "flag", "list"} => op.host \in Host
    /\ want \in [Host -> {"ONLINE", "OFFLINE"}] /\ lost \subseteq Host
    /\ offlinehome \subseteq Host /\ told \in BOOLEAN

MainStep == {"top", "loop", "load", "failed", "unlock", "refresh", "flag", "listed",
             "unlisted"}
SigStep == {"idle", "lock", "walk", "stat", "begin", "again", "syncing", "task"}
TableInv ==
    /\ CellsTyped(csinfo) /\ TabTyped(table)
    /\ main.at \notin {"load", "failed"} => Agree(csinfo, table)
TodoInv ==
    /\ main \in [at : MainStep, todo : Seq(Host)]
    /\ Len(main.todo) =< Cardinality(Host)
    /\ main.at = "flag" => Len(main.todo) > 0
WalkInv ==
    /\ sig \in [at : SigStep, todo : Seq(Host)]
    /\ Len(sig.todo) =< Cardinality(Host)
    /\ sig.at = "walk" =>
          /\ main.at \notin {"load", "failed"}
          /\ \A i \in 1 .. Len(sig.todo) : sig.todo[i] \in DOMAIN table
    /\ conn \subseteq Host \ {Self}
LifeInv ==
    /\ selfdir \in CsDir
    /\ self_stat \in {"UNKOWN_STAT", "WAIT_SYNC", "ON_LINE", "OFF_LINE"}
    /\ ended \subseteq {"main", "agent", "sig"}
    /\ hung \in {"main", "agent", "sig", "none"} /\ badcnt \in 0 .. DeadlockCount
    /\ proc \in {"up", "exited", "killed", "asleep", "down"}
    /\ stop \in BOOLEAN /\ term \in BOOLEAN /\ waits \in BOOLEAN /\ deeds \in 0 .. MaxDeed

CfgInv == KeyInv /\ OpInv /\ TableInv /\ TodoInv /\ WalkInv /\ LifeInv

LEMMA HostsAreFinite ==
  IsFiniteSet(Host) /\ Cardinality(Host) \in Nat
  <1>1. IsFiniteSet(Host)
    BY ListAssumption
  <1> QED BY <1>1, FS_CardinalityType

LEMMA TodoOf ==
  ASSUME NEW S \in SUBSET Host
  PROVE  /\ SetToSeq(S) \in Seq(Host) /\ Len(SetToSeq(S)) =< Cardinality(Host)
         /\ \A i \in 1 .. Len(SetToSeq(S)) : SetToSeq(S)[i] \in S
  <1> DEFINE n == Cardinality(S)
             f == SetToSeq(S)
  <1>1. IsFiniteSet(Host) /\ IsFiniteSet(S) /\ n =< Cardinality(Host)
    BY HostsAreFinite, FS_Subset
  <1>2. n \in Nat /\ ExistsBijection(1 .. n, S) /\ Cardinality(Host) \in Nat
    BY <1>1, FS_CardinalityType
  <1>3. PICK g \in [1 .. n -> S] : \A i, j \in 1 .. n : g[i] = g[j] => i = j
    BY <1>2, Zenon DEF ExistsBijection, Bijection, Injection, IsInjective
  <1>4. IsInjective(g)
    BY <1>3 DEF IsInjective
  <1>6. f \in [1 .. n -> S]
    BY <1>3, <1>4, Zenon DEF SetToSeq
  <1> HIDE DEF f
  <1>7. f \in Seq(S) /\ Len(f) = n /\ \A i \in 1 .. n : f[i] \in S
    <2> HIDE DEF n
    <2>1. f \in Seq(S)
      BY <1>2, <1>6
    <2> QED BY <1>2, <1>6, <2>1
  <1> QED BY <1>1, <1>2, <1>7 DEF f

----------------------------------------------------------------------------
(* The start and the steps                                                 *)

LEMMA InitCfgInv == ASSUME ConfigInit PROVE CfgInv
  <1> USE DEF ConfigInit, Startable, MainAt, OpIdle, OpAt, SigIdle
  <1>1. KeyInv
    BY DEF KeyInv, ReadConf, IntVal
  <1>2. OpInv
    BY DEF OpInv, OpStep, CommandKind
  <1>3. Fit(csinfo, table)
    BY LoadedFits
  <1>4. TableInv
    BY <1>3 DEF TableInv, Fit
  <1>5. TodoInv /\ WalkInv
    <2>1. Cardinality(Host) \in Nat
      BY HostsAreFinite
    <2> QED BY <2>1 DEF TodoInv, WalkInv, MainStep, SigStep
  <1>6. LifeInv
    <2>1. selfdir \in CsDir
      BY SelfInfoIs DEF SelfInfo
    <2>2. badcnt \in 0 .. DeadlockCount /\ deeds \in 0 .. MaxDeed
      <3>1. badcnt = 0 /\ deeds = 0 /\ DeadlockCount \in Nat /\ MaxDeed \in Nat
        BY ListAssumption
      <3> QED BY <3>1
    <2>3. /\ self_stat = "UNKOWN_STAT" /\ stop = FALSE /\ ended = {} /\ hung = "none"
          /\ proc = "up" /\ term = FALSE /\ waits = FALSE
      OBVIOUS
    <2> QED BY <2>1, <2>2, <2>3 DEF LifeInv
  <1> QED BY <1>1, <1>2, <1>4, <1>5, <1>6 DEF CfgInv

LEMMA QuietIsCfg == ASSUME CfgInv, UNCHANGED configVars PROVE CfgInv'
  BY DEF CfgInv, configVars, KeyInv, OpInv, TableInv, TodoInv, WalkInv, LifeInv

(* What the agent thread writes.                                           *)
LEMMA KeyStep == ASSUME KeyInv, OpInv, ConfigNext PROVE KeyInv' /\ OpInv'
  <1> USE DEF KeyInv, OpInv
  <1>1. ASSUME UNCHANGED <<files, conf, key, gsync, op, want, lost, offlinehome, told>>
        PROVE  KeyInv' /\ OpInv'
    BY <1>1
  <1>2. CASE Reload \/ Main
    BY <1>1, <1>2 DEF Reload, Main, Turn, LastTurn, RefreshBegin,
       RefreshSelf, RefreshFlag, CheckSelf, Judge, Load, MainEnds,
       ops
  <1>3. CASE Agent
    <2> USE DEF OpStep, CommandKind, OpIdle, OpAt
    <2>1. CASE OpSelf \/ OpFlag
      BY <2>1 DEF OpSelf, OpFlag
    <2>2. CASE OpList
      <3>1. op.at = "list" /\ op.host \in Host /\ key.sync # "none"
        BY <2>2 DEF OpList
      <3>2. op' = OpIdle /\ UNCHANGED <<files, conf, key, gsync, want, told>>
        BY <2>2 DEF OpList
      <3>3. lost' \subseteq Host /\ offlinehome' \subseteq Host
        BY <2>2, <3>1 DEF OpList
      <3> QED BY <3>1, <3>2, <3>3
    <2>8. CASE OpSyncDir
      BY <2>8 DEF OpSyncDir
    <2>3. CASE OpDelete
      BY <2>3 DEF OpDelete
    <2>4. CASE OpPut
      <3>1. op.at = "put" /\ op' = [op EXCEPT !.at = "dump"]
        BY <2>4 DEF OpPut
      <3>2. PICK v \in {"yes", "no"} :
              key' = IF op.kind = "NEWVOSS" THEN [key EXCEPT !.voss = TRUE]
                     ELSE [key EXCEPT !.sync = v]
        BY <2>4 DEF OpPut
      <3>3. UNCHANGED <<files, conf, gsync, told, want, lost, offlinehome>>
        BY <2>4 DEF OpPut
      <3>4. key' \in [sync : {"yes", "no", "none"}, voss : BOOLEAN]
        BY <3>2
      <3>5. key'.sync # "none"
        BY <3>1, <3>2
      <3>6. KeyInv'
        BY <3>3, <3>4, <3>5
      <3>7. op' \in [at : OpStep, kind : CommandKind, host : Host \union {NoHost}]
        BY <3>1
      <3> QED BY <3>1, <3>3, <3>6, <3>7
    <2>5. CASE OpDump
      BY <2>5 DEF OpDump
    <2>6. CASE ReloadConfig
      BY <2>6 DEF ReloadConfig, IntVal
    <2>7. CASE AgentEnds
      BY <1>1, <2>7 DEF AgentEnds, ops
    <2> QED BY <1>3, <2>1, <2>2, <2>3, <2>4, <2>5, <2>6, <2>7, <2>8 DEF Agent
  <1>4. CASE Sig
    <2>1. CASE SyncBegin
      BY <2>1 DEF SyncBegin, ops
    <2>2. CASE CheckTask
      BY <2>2 DEF CheckTask
    <2>3. CASE ~SyncBegin /\ ~CheckTask
      BY <1>1, <1>4, <2>3 DEF Sig, WalkWanted, WalkBegin, WalkGivesUp,
         WalkOne, WalkEnd, StatRead, StatAgain, Syncing, SigEnds,
         ops
    <2> QED BY <2>1, <2>2, <2>3
  <1>5. CASE Replace
    BY <1>5 DEF Replace, Startable, ReadConf, IntVal, OpIdle, OpAt,
       OpStep, CommandKind
  <1>6. CASE Peers \/ Round \/ Wait \/ Sleep \/ GoDown \/ Hang \/ Term
    BY <1>1, <1>6 DEF Peers, Accept, Lose, Round, Wait, Sleep, GoDown, Hang, Term, ops
  <1>7. CASE EditLists
    BY <1>7 DEF EditLists, ops
  <1>8. ASSUME NEW kind \in CommandKind, NEW h \in Host \union {NoHost},
               Command(kind, h), kind \in {"OFFLINE", "ONLINE"} <=> h # NoHost
        PROVE  KeyInv' /\ OpInv'
    BY <1>8 DEF Command, FirstStep, OpAt, OpStep, CommandKind
  <1>9. CASE \E kind \in {"OFFLINE", "ONLINE"}, h \in Told : Command(kind, h)
    BY <1>8, <1>9, ListAssumption DEF CommandKind
  <1>10. CASE \E kind \in {"SYNCDIR", "CONFUPDA", "NEWVOSS"} : Command(kind, NoHost)
    BY <1>8, <1>10 DEF CommandKind
  <1> QED BY <1>2, <1>3, <1>4, <1>5, <1>6, <1>7, <1>9, <1>10 DEF ConfigNext, Watchdog

(* Who writes the tables.                                                  *)
LEMMA FlaggedIs ==
  ASSUME TabTyped(table), NEW kind, NEW h
  PROVE  /\ TabTyped(Flagged(kind, h)) /\ DOMAIN Flagged(kind, h) = DOMAIN table
         /\ Agree(csinfo, table) => Agree(csinfo, Flagged(kind, h))
  <1>1. CASE h \notin DOMAIN table
    BY <1>1 DEF Flagged
  <1>2. CASE h \in DOMAIN table
    <2> DEFINE e == [table[h] EXCEPT !.offline = (kind = "OFFLINE")]
    <2>1. table[h] \in Server
      BY <1>2 DEF TabTyped
    <2>2. (kind = "OFFLINE") \in BOOLEAN
      OBVIOUS
    <2>3. e \in Server /\ e = [table[h] EXCEPT !.hot = e.hot, !.offline = e.offline]
      BY <2>1, <2>2 DEF Server
    <2>4. Flagged(kind, h) = [table EXCEPT ![h] = e]
      BY <1>2 DEF Flagged
    <2> HIDE DEF e
    <2>5. /\ TabTyped([table EXCEPT ![h] = e])
          /\ DOMAIN [table EXCEPT ![h] = e] = DOMAIN table
          /\ Agree(csinfo, table) => Agree(csinfo, [table EXCEPT ![h] = e])
      BY <1>2, <2>3, FlagKeeps
    <2> QED BY <2>4, <2>5
  <1> QED BY <1>1, <1>2

LEMMA TableStep ==
  ASSUME files \in Lists, TableInv, ConfigNext PROVE TableInv'
  <1>1. ASSUME UNCHANGED cfg,
               main'.at \notin {"load", "failed"} => main.at \notin {"load", "failed"}
        PROVE  TableInv'
    BY <1>1 DEF TableInv, cfg
  <1>2. CASE Reload
    <2>1. csinfo' = csinfo /\ table' = << >> /\ main' = MainAt("load")
      BY <1>2 DEF Reload
    <2>2. TabTyped(table')
      BY <2>1 DEF TabTyped
    <2> QED BY <2>1, <2>2 DEF TableInv, MainAt
  <1>3. CASE Load
    <2>1. CASE UNCHANGED cfg /\ main' = MainAt("failed")
      BY <2>1 DEF MainAt, cfg, TableInv
    <2>2. CASE csinfo' = Loaded(files).cells /\ table' = Loaded(files).tab
      BY <2>2, LoadedFits DEF TableInv, Fit
    <2> QED BY <1>3, <2>1, <2>2 DEF Load
  <1>4. CASE Main /\ ~Load
    <2>1. CASE RefreshFlag
      <3>1. /\ main.at = "flag" /\ csinfo' = csinfo
            /\ table' = Flagged("OFFLINE", Head(main.todo))
        BY <2>1 DEF RefreshFlag
      <3>2. TabTyped(table) /\ CellsTyped(csinfo) /\ Agree(csinfo, table)
        BY <3>1 DEF TableInv
      <3> QED BY <3>1, <3>2, FlaggedIs DEF TableInv
    <2>2. CASE ~RefreshFlag
      BY <1>1, <1>4, <2>2 DEF Main, Turn, LastTurn, RefreshBegin,
         RefreshSelf, CheckSelf, Judge, MainEnds, MainAt, cfg
    <2> QED BY <2>1, <2>2
  <1>5. CASE Agent
    <2>1. CASE OpFlag
      <3>1. /\ UNCHANGED <<csinfo, main>>
            /\ \/ table' = table
               \/ ~CfgWritten /\ table' = Flagged(op.kind, op.host)
        BY <2>1 DEF OpFlag
      <3>2. TabTyped(table) /\ CellsTyped(csinfo)
        BY DEF TableInv
      <3> QED BY <3>1, <3>2, FlaggedIs DEF TableInv, CfgWritten
    <2>2. CASE ~OpFlag
      BY <1>1, <1>5, <2>2 DEF Agent, OpSelf, OpList, OpSyncDir,
         OpDelete, OpPut, OpDump, ReloadConfig, AgentEnds, cfg
    <2> QED BY <2>1, <2>2
  <1>6. CASE Sig
    BY <1>1, <1>6 DEF Sig, WalkWanted, WalkBegin, WalkGivesUp,
       WalkOne, WalkEnd, StatRead, StatAgain, SyncBegin, Syncing,
       CheckTask, SigEnds, cfg
  <1>7. CASE Replace
    <2>1. csinfo' = Loaded(files).cells /\ table' = Loaded(files).tab
      BY <1>7 DEF Replace
    <2> QED BY <2>1, LoadedFits DEF TableInv, Fit
  <1>8. CASE Peers \/ Round \/ Wait \/ Sleep \/ GoDown \/ EditLists \/ Hang \/ Term
    BY <1>1, <1>8 DEF Peers, Accept, Lose, Round, Wait, Sleep, GoDown, EditLists,
       Hang, Term, cfg
  <1>9. CASE \/ \E kind \in {"OFFLINE", "ONLINE"}, h \in Told : Command(kind, h)
             \/ \E kind \in {"SYNCDIR", "CONFUPDA", "NEWVOSS"} : Command(kind, NoHost)
    BY <1>1, <1>9 DEF Command, cfg
  <1> QED BY <1>2, <1>3, <1>4, <1>5, <1>6, <1>7, <1>8, <1>9 DEF ConfigNext, Watchdog

(* What the main thread has before it.                                     *)
LEMMA TodoStep ==
  ASSUME OpInv, TodoInv, ConfigNext PROVE TodoInv'
  <1> USE DEF TodoInv, MainStep
  <1>1. ASSUME UNCHANGED main PROVE TodoInv'
    BY <1>1
  <1>2. ASSUME NEW at \in MainStep, at # "flag", main' = MainAt(at) PROVE TodoInv'
    <2>1. Cardinality(Host) \in Nat
      BY HostsAreFinite
    <2>2. main' = [at |-> at, todo |-> << >>]
      BY <1>2 DEF MainAt
    <2> QED BY <1>2, <2>1, <2>2
  <1>3. CASE Turn \/ LastTurn \/ Reload \/ Load \/ Judge \/ Replace
    BY <1>2, <1>3 DEF Turn, LastTurn, Reload, Load, Judge, Replace
  <1>4. CASE CheckSelf
    BY <1>2, <1>4 DEF CheckSelf
  <1>5. CASE RefreshBegin
    <2>1. main' = [at |-> "refresh", todo |-> SetToSeq(offlinehome)]
      BY <1>5 DEF RefreshBegin, MainAt, Offline
    <2> QED BY <2>1, TodoOf DEF OpInv
  <1>6. CASE RefreshSelf
    <2>1. main.todo # << >> /\ main' = [main EXCEPT !.at = "flag"]
      BY <1>6 DEF RefreshSelf
    <2> QED BY <2>1
  <1>7. CASE RefreshFlag
    <2>1. main.at = "flag" /\ main' = [main EXCEPT !.at = "refresh", !.todo = Tail(@)]
      BY <1>7 DEF RefreshFlag
    <2>2. Tail(main.todo) \in Seq(Host) /\ Len(Tail(main.todo)) = Len(main.todo) - 1
      BY <2>1
    <2>3. main' \in [at : MainStep, todo : Seq(Host)] /\ main'.at = "refresh"
          /\ main'.todo = Tail(main.todo)
      BY <2>1, <2>2
    <2>4. Len(main.todo) \in Nat
      OBVIOUS
    <2>5. Len(main'.todo) =< Cardinality(Host)
      BY <2>2, <2>3, <2>4, HostsAreFinite
    <2> QED BY <2>3, <2>5
  <1>8. CASE MainEnds \/ Agent
    BY <1>1, <1>8 DEF MainEnds, Agent, OpSelf, OpFlag, OpList,
       OpSyncDir, OpDelete, OpPut, OpDump, ReloadConfig, AgentEnds
  <1>9. CASE Sig
    BY <1>1, <1>9 DEF Sig, WalkWanted, WalkBegin, WalkGivesUp,
       WalkOne, WalkEnd, StatRead, StatAgain, SyncBegin, Syncing,
       CheckTask, SigEnds
  <1>10. CASE Peers \/ Round \/ Wait \/ Sleep \/ GoDown \/ EditLists \/ Hang \/ Term
    BY <1>1, <1>10 DEF Peers, Accept, Lose, Round, Wait, Sleep, GoDown, EditLists,
       Hang, Term
  <1>11. CASE \/ \E kind \in {"OFFLINE", "ONLINE"}, h \in Told : Command(kind, h)
              \/ \E kind \in {"SYNCDIR", "CONFUPDA", "NEWVOSS"} : Command(kind, NoHost)
    BY <1>1, <1>11 DEF Command
  <1> QED BY <1>3, <1>4, <1>5, <1>6, <1>7, <1>8, <1>9, <1>10, <1>11
          DEF ConfigNext, Main, Watchdog

(* The walk of the signalling thread.                                      *)
LEMMA WalkStep ==
  ASSUME TableInv, TodoInv, WalkInv, ConfigNext PROVE WalkInv'
  <1> USE DEF WalkInv, SigStep
  <1>1. ASSUME UNCHANGED <<sig, conn>>, DOMAIN table \subseteq DOMAIN table',
               main'.at \in {"load", "failed"} => main.at \in {"load", "failed"}
        PROVE  WalkInv'
    BY <1>1
  <1>2. ASSUME NEW at \in SigStep, at # "walk", sig' = [sig EXCEPT !.at = at], conn' = conn
        PROVE  WalkInv'
    BY <1>2
  <1>3. CASE Reload
    <2>1. sig.at # "walk" /\ UNCHANGED <<sig, conn>>
      BY <1>3 DEF Reload, NoReader
    <2> QED BY <2>1
  <1>4. CASE Load
    <2>1. main.at = "load" /\ UNCHANGED <<sig, conn>>
      BY <1>4 DEF Load
    <2>2. sig.at # "walk"
      BY <2>1
    <2> QED BY <2>1, <2>2
  <1>5. CASE Main /\ ~Load
    <2>1. CASE RefreshFlag
      <3>1. /\ table' = Flagged("OFFLINE", Head(main.todo)) /\ UNCHANGED <<sig, conn>>
            /\ main.at = "flag" /\ main' = [main EXCEPT !.at = "refresh", !.todo = Tail(@)]
        BY <2>1 DEF RefreshFlag
      <3>2. DOMAIN table' = DOMAIN table
        BY <3>1, FlaggedIs DEF TableInv
      <3>3. main'.at = "refresh"
        BY <3>1 DEF TodoInv
      <3> QED BY <1>1, <3>1, <3>2, <3>3
    <2>2. CASE ~RefreshFlag
      <3> USE DEF TodoInv, MainStep
      <3> QED BY <1>1, <1>5, <2>2 DEF Main, Turn, LastTurn, RefreshBegin,
         RefreshSelf, CheckSelf, Judge, MainEnds, MainAt, cfg
    <2> QED BY <2>1, <2>2
  <1>6. CASE Agent
    <2>1. CASE OpFlag
      <3>1. /\ UNCHANGED <<sig, conn, main>>
            /\ table' = table \/ table' = Flagged(op.kind, op.host)
        BY <2>1 DEF OpFlag
      <3>2. DOMAIN table' = DOMAIN table
        BY <3>1, FlaggedIs DEF TableInv
      <3> QED BY <1>1, <3>1, <3>2
    <2>2. CASE ~OpFlag
      BY <1>1, <1>6, <2>2 DEF Agent, OpSelf, OpList, OpSyncDir,
         OpDelete, OpPut, OpDump, ReloadConfig, AgentEnds, cfg
    <2> QED BY <2>1, <2>2
  <1>7. CASE WalkWanted \/ WalkGivesUp \/ WalkEnd \/ StatAgain \/ StatRead
    <2>1. conn' = conn /\ \E at \in SigStep \ {"walk"} : sig' = [sig EXCEPT !.at = at]
      <3>1. CASE WalkWanted
        BY <3>1 DEF WalkWanted
      <3>2. CASE WalkGivesUp
        BY <3>2 DEF WalkGivesUp
      <3>3. CASE WalkEnd
        BY <3>3 DEF WalkEnd
      <3>4. CASE StatAgain
        BY <3>4 DEF StatAgain
      <3>5. CASE StatRead
        BY <3>5 DEF StatRead
      <3> QED BY <1>7, <3>1, <3>2, <3>3, <3>4, <3>5
    <2> QED BY <1>2, <2>1
  <1>8. CASE WalkBegin
    <2>1. /\ ~CfgWritten /\ UNCHANGED <<conn, main, table>>
          /\ sig' = [at |-> "walk", todo |-> SetToSeq(DOMAIN table)]
      BY <1>8 DEF WalkBegin, cfg
    <2>2. DOMAIN table \in SUBSET Host
      BY DEF TableInv, TabTyped
    <2> QED BY <2>1, <2>2, TodoOf DEF CfgWritten
  <1>9. CASE WalkOne
    <2>1. /\ sig.at = "walk" /\ sig.todo # << >> /\ UNCHANGED <<main, table>>
          /\ sig' = [sig EXCEPT !.todo = Tail(@)] /\ conn' = Walked(Head(sig.todo))
      BY <1>9 DEF WalkOne, cfg
    <2>2. Head(sig.todo) \in Host
      BY <2>1
    <2>3. conn' \subseteq Host \ {Self}
      BY <2>1, <2>2 DEF Walked, Near
    <2>4. /\ Tail(sig.todo) \in Seq(Host) /\ Len(Tail(sig.todo)) = Len(sig.todo) - 1
          /\ \A i \in 1 .. Len(Tail(sig.todo)) :
                Tail(sig.todo)[i] = sig.todo[i + 1] /\ i + 1 \in 1 .. Len(sig.todo)
      BY <2>1
    <2>5. sig' \in [at : SigStep, todo : Seq(Host)] /\ sig'.at = "walk"
          /\ sig'.todo = Tail(sig.todo)
      BY <2>1, <2>4
    <2>6. Len(sig'.todo) =< Cardinality(Host)
      <3>1. Len(sig.todo) \in Nat
        OBVIOUS
      <3> QED BY <2>4, <2>5, <3>1, HostsAreFinite
    <2>7. \A i \in 1 .. Len(sig'.todo) : sig'.todo[i] \in DOMAIN table'
      BY <2>1, <2>4, <2>5
    <2> QED BY <2>1, <2>3, <2>5, <2>6, <2>7
  <1>10. CASE SyncBegin \/ Syncing
    BY <1>2, <1>10 DEF SyncBegin, Syncing
  <1>11. CASE CheckTask \/ Replace
    <2>1. sig' = [at |-> "idle", todo |-> << >>] /\ conn' \subseteq conn
      BY <1>11 DEF CheckTask, Replace, SigIdle
    <2> QED BY <2>1, HostsAreFinite
  <1>12. CASE SigEnds \/ Round \/ Wait \/ Sleep \/ GoDown \/ EditLists \/ Hang \/ Term
    BY <1>1, <1>12 DEF SigEnds, Round, Wait, Sleep, GoDown, EditLists, Hang,
       Term, cfg
  <1>13. CASE \/ \E kind \in {"OFFLINE", "ONLINE"}, h \in Told : Command(kind, h)
              \/ \E kind \in {"SYNCDIR", "CONFUPDA", "NEWVOSS"} : Command(kind, NoHost)
    BY <1>1, <1>13 DEF Command, cfg
  <1>14. CASE Peers
    <2>1. UNCHANGED <<sig, main, table>> /\ conn' \subseteq conn \union Dialler
      BY <1>14 DEF Peers, Accept, Lose, cfg
    <2>2. Dialler \subseteq Host \ {Self}
      BY ListAssumption
    <2> QED BY <2>1, <2>2
  <1> QED BY <1>3, <1>4, <1>5, <1>6, <1>7, <1>8, <1>9, <1>10, <1>11, <1>12, <1>13, <1>14
          DEF ConfigNext, Watchdog, Sig

(* The life of the process.                                                *)
LEMMA LifeStep ==
  ASSUME files \in Lists, LifeInv, ConfigNext PROVE LifeInv'
  <1> USE DEF LifeInv
  <1>1. ASSUME UNCHANGED life, UNCHANGED <<selfdir, deeds>>,
               self_stat' \in {"UNKOWN_STAT", "WAIT_SYNC", "ON_LINE", "OFF_LINE"}
        PROVE  LifeInv'
    BY <1>1 DEF life
  <1>2. CASE Reload
    BY <1>1, <1>2 DEF Reload
  <1>3. CASE Load
    <2>1. UNCHANGED <<selfdir, deeds, self_stat, ended, hung, badcnt, proc, term, waits>>
          /\ (stop' = TRUE \/ stop' = stop)
      BY <1>3 DEF Load
    <2> QED BY <2>1
  <1>4. CASE MainEnds
    <2>1. UNCHANGED <<selfdir, deeds, self_stat, hung, badcnt, term, waits, stop>>
          /\ ended' = {"main", "agent", "sig"} /\ proc' = "exited"
      BY <1>4 DEF MainEnds, Thread
    <2> QED BY <2>1
  <1>5. CASE Main /\ ~Load /\ ~MainEnds
    <2>1. /\ UNCHANGED life /\ UNCHANGED <<selfdir, deeds>>
          /\ \/ self_stat' = self_stat
             \/ self_stat' = SelfTold("OFFLINE", Head(main.todo))
             \/ self_stat' = Judged
      BY <1>5 DEF Main, Turn, LastTurn, RefreshBegin,
         RefreshSelf, CheckSelf, Judge, RefreshFlag
    <2> QED BY <1>1, <2>1 DEF SelfTold, Judged
  <1>6. CASE Agent
    <2>1. CASE OpSelf
      BY <1>1, <2>1 DEF OpSelf, SelfTold
    <2>2. CASE AgentEnds
      BY <2>2 DEF AgentEnds
    <2>3. CASE ~OpSelf /\ ~AgentEnds
      BY <1>1, <1>6, <2>3 DEF Agent, OpFlag, OpList, OpSyncDir,
         OpDelete, OpPut, OpDump, ReloadConfig
    <2> QED BY <2>1, <2>2, <2>3
  <1>7. CASE Sig
    <2>1. CASE SyncBegin \/ Syncing \/ CheckTask
      BY <1>1, <2>1 DEF SyncBegin, Syncing, CheckTask
    <2>2. CASE SigEnds
      BY <2>2 DEF SigEnds
    <2>3. CASE ~SyncBegin /\ ~Syncing /\ ~CheckTask /\ ~SigEnds
      BY <1>1, <1>7, <2>3 DEF Sig, WalkWanted, WalkBegin, WalkGivesUp,
         WalkOne, WalkEnd, StatRead, StatAgain
    <2> QED BY <2>1, <2>2, <2>3
  <1>8. CASE Round
    <2>1. /\ UNCHANGED <<selfdir, deeds, self_stat, ended, hung, term, waits, stop>>
          /\ \/ proc' = "killed" /\ badcnt' = badcnt
             \/ ~(badcnt >= DeadlockCount) /\ badcnt' = badcnt + 1 /\ proc' = proc
      BY <1>8 DEF Round
    <2>2. badcnt' \in 0 .. DeadlockCount
      <3>1. DeadlockCount \in Nat
        BY ListAssumption
      <3> QED BY <2>1, <3>1
    <2> QED BY <2>1, <2>2
  <1>9. CASE Replace
    <2>1. /\ UNCHANGED deeds /\ selfdir' = SelfInfo /\ Startable
          /\ self_stat' = "UNKOWN_STAT" /\ stop' = FALSE /\ ended' = {} /\ hung' = "none"
          /\ badcnt' = 0 /\ proc' = "up" /\ term' = FALSE /\ waits' = FALSE
      BY <1>9 DEF Replace
    <2>2. selfdir' \in CsDir
      BY <2>1, SelfInfoIs DEF SelfInfo, Startable
    <2>3. badcnt' \in 0 .. DeadlockCount
      <3>1. DeadlockCount \in Nat
        BY ListAssumption
      <3> QED BY <2>1, <3>1
    <2> QED BY <2>1, <2>2, <2>3
  <1>10. CASE Wait \/ Sleep \/ GoDown
    BY <1>10 DEF Wait, Sleep, GoDown
  <1>11. ASSUME NEW kind, Deed(kind) PROVE deeds' \in 0 .. MaxDeed
    <2>1. MaxDeed \in Nat
      BY ListAssumption
    <2> QED BY <1>11, <2>1 DEF Deed
  <1>12. CASE EditLists
    <2>1. deeds' \in 0 .. MaxDeed
      BY <1>11, <1>12 DEF EditLists
    <2> QED BY <1>12, <2>1 DEF EditLists, life
  <1>13. CASE Hang
    <2>1. deeds' \in 0 .. MaxDeed
      BY <1>11, <1>13 DEF Hang
    <2> QED BY <1>13, <2>1 DEF Hang, Thread
  <1>14. CASE Term
    <2>1. deeds' \in 0 .. MaxDeed
      BY <1>11, <1>14 DEF Term
    <2>2. /\ UNCHANGED <<selfdir, self_stat, ended, hung, badcnt, proc>> /\ term' = TRUE
          /\ stop' \in BOOLEAN /\ waits' \in BOOLEAN
      BY <1>14 DEF Term
    <2> QED BY <2>1, <2>2
  <1>15. CASE \/ \E kind \in {"OFFLINE", "ONLINE"}, h \in Told : Command(kind, h)
              \/ \E kind \in {"SYNCDIR", "CONFUPDA", "NEWVOSS"} : Command(kind, NoHost)
    <2>1. deeds' \in 0 .. MaxDeed
      BY <1>11, <1>15 DEF Command
    <2>2. UNCHANGED life /\ UNCHANGED <<selfdir, self_stat>>
      BY <1>15 DEF Command
    <2> QED BY <2>1, <2>2 DEF life
  <1>16. CASE Peers
    BY <1>1, <1>16 DEF Peers, Accept, Lose
  <1> QED BY <1>2, <1>3, <1>4, <1>5, <1>6, <1>7, <1>8, <1>9, <1>10, <1>12, <1>13, <1>14,
             <1>15, <1>16 DEF ConfigNext, Watchdog

----------------------------------------------------------------------------
(* What the invariant says of the tables                                   *)

LEMMA BoundedIs ==
  ASSUME NEW S, NEW s \in Seq(S), NEW n \in Nat, Len(s) =< n
  PROVE  s \in BoundedSeq(S, n)
  <1>1. Len(s) \in 0 .. n /\ s \in [1 .. Len(s) -> S]
    OBVIOUS
  <1> QED BY <1>1 DEF BoundedSeq, SeqOf

LEMMA CfgIsTyped == ASSUME CfgInv PROVE ConfigTypeOK
  <1> USE DEF CfgInv
  <1>1. \A d \in CsDir : /\ Len(csinfo[d]) < MaxCell
                       /\ \A i \in DOMAIN csinfo[d] : csinfo[d][i].ip \in Host
    <2> TAKE d \in CsDir
    <2>1. csinfo[d] \in Seq(CsRow) /\ Len(csinfo[d]) < MaxCell
      BY DEF TableInv, CellsTyped
    <2>2. \A i \in DOMAIN csinfo[d] : csinfo[d][i] \in CsRow
      BY <2>1
    <2>3. \A row \in CsRow : row.ip \in Host
      BY DEF CsRow
    <2> QED BY <2>1, <2>2, <2>3
  <1>2. DOMAIN table \subseteq Host
    BY DEF TableInv, TabTyped
  <1>3. ASSUME NEW h \in DOMAIN table
        PROVE  /\ table[h].dirs \in BoundedSeq(CsDir, MaxDir)
               /\ IsInjective(table[h].dirs) /\ table[h].offline \in BOOLEAN
    <2>1. table[h] \in Server /\ ServerOK(table[h]) /\ MaxDir \in Nat
      BY ListAssumption DEF TableInv, TabTyped
    <2>2. table[h].dirs \in Seq(CsDir) /\ table[h].offline \in BOOLEAN
      BY <2>1 DEF Server
    <2>3. table[h].dirs \in BoundedSeq(CsDir, MaxDir)
      BY <2>1, <2>2, BoundedIs DEF ServerOK
    <2>4. IsInjective(table[h].dirs)
      BY <2>1, <2>2 DEF ServerOK, IsInjective
    <2> QED BY <2>2, <2>3, <2>4
  <1>4. /\ main.todo \in BoundedSeq(Host, Cardinality(Host))
        /\ sig.todo \in BoundedSeq(Host, Cardinality(Host))
    <2>1. /\ main.todo \in Seq(Host) /\ Len(main.todo) =< Cardinality(Host)
          /\ sig.todo \in Seq(Host) /\ Len(sig.todo) =< Cardinality(Host)
      BY DEF TodoInv, WalkInv
    <2> QED BY <2>1, HostsAreFinite, BoundedIs
  <1>5. /\ files \in Lists /\ conf \in {"yes", "no", "torn"} /\ gsync \in BOOLEAN
        /\ key \in [sync : {"yes", "no", "none"}, voss : BOOLEAN]
    BY DEF KeyInv
  <1>6. /\ offlinehome \subseteq Host /\ op.at \in OpStep
        /\ want \in [Host -> {"ONLINE", "OFFLINE"}] /\ lost \subseteq Host /\ told \in BOOLEAN
    BY DEF OpInv
  <1>7. main.at \in MainStep /\ sig.at \in SigStep /\ conn \subseteq Host \ {Self}
    BY DEF TodoInv, WalkInv
  <1> QED BY <1>1, <1>2, <1>3, <1>4, <1>5, <1>6, <1>7
          DEF ConfigTypeOK, LifeInv, SelfStat, Thread, OpStep, MainStep, SigStep

LEMMA TheTablesAgree == ASSUME TableInv PROVE TablesAgree
  <1> SUFFICES ASSUME ~CfgWritten
               PROVE  /\ \A d \in CsDir : \A i \in DOMAIN csinfo[d] : RowIsKnown(d, i)
                      /\ \A d \in CsDir : \A h \in Owners(d) :
                            \/ HasRow(d, h)
                            \/ Cardinality(MayHaveHadRow(d)) >= MaxCell
                      /\ \A h \in DOMAIN table : table[h].role = "CS" =>
                            table[h].list = IF table[h].arch = "FCS" THEN NoIsp
                                            ELSE table[h].arch
    BY DEF TablesAgree
  <1>1. Agree(csinfo, table)
    BY DEF TableInv, CfgWritten
  <1>2. ASSUME NEW h \in DOMAIN table
        PROVE  /\ Full(h) <=> IsFull(table[h])
               /\ \A d \in CsDir : Contains(table[h].dirs, d) <=> HasDir(table[h], d)
    BY DEF Full, IsFull, Contains, HasDir
  <1>3. \A d \in CsDir : \A i \in DOMAIN csinfo[d] : RowIsKnown(d, i)
    BY <1>1, <1>2 DEF Agree, Known, RowIsKnown
  <1>4. ASSUME NEW d \in CsDir, NEW h \in Owners(d)
        PROVE  HasRow(d, h) \/ Cardinality(MayHaveHadRow(d)) >= MaxCell
    <2>1. h \in DOMAIN table /\ HasDir(table[h], d)
      BY <1>2 DEF Owners
    <2>2. MayHaveHadRow(d) = Candidates(table, d)
      BY <1>2 DEF MayHaveHadRow, Owners, Candidates
    <2>3. Cardinality(MayHaveHadRow(d)) = Cardinality(Candidates(table, d))
      BY <2>2
    <2> QED BY <1>1, <2>1, <2>3 DEF Agree, RowIn, HasRow
  <1>5. \A h \in DOMAIN table : OnItsList(table[h])
    BY <1>1 DEF Agree
  <1> QED BY <1>3, <1>4, <1>5 DEF OnItsList

(* For any servers, directories and lists, as often as these are edited,   *)
(* reloaded and walked, and whatever the operator, a hanging thread or a   *)
(* new process does meanwhile: the variables stay in their domains, the    *)
(* rows of the directories and the table by address tell the same when no  *)
(* reload is at them, and the signalling thread stands on an entry of the  *)
(* table.                                                                  *)
THEOREM TablesAreSound ==
  ConfigSpec => []TablesSound
  <1>1. ConfigInit => CfgInv
    BY InitCfgInv
  <1>2. CfgInv /\ [ConfigNext]_configVars => CfgInv'
    <2>1. CfgInv /\ ConfigNext => CfgInv'
      BY KeyStep, TableStep, TodoStep, WalkStep, LifeStep DEF CfgInv, KeyInv
    <2> QED BY <2>1, QuietIsCfg
  <1>3. CfgInv => TablesSound
    <2> SUFFICES ASSUME CfgInv PROVE TablesSound
      OBVIOUS
    <2>1. WalkIsSafe
      <3> SUFFICES ASSUME sig.at = "walk" PROVE ToSet(sig.todo) \subseteq DOMAIN table
        BY DEF WalkIsSafe
      <3>1. /\ sig.todo \in Seq(Host)
            /\ \A i \in 1 .. Len(sig.todo) : sig.todo[i] \in DOMAIN table
        BY DEF CfgInv, WalkInv
      <3> QED BY <3>1 DEF ToSet
    <2> QED BY <2>1, CfgIsTyped, TheTablesAgree DEF TablesSound, CfgInv
  <1> QED BY <1>1, <1>2, <1>3, PTL DEF ConfigSpec
=============================================================================
