----------------------------- MODULE Fcs_proofs -----------------------------
(***************************************************************************)
(* What holds of an FCS for any files, tasks, trackers and faults, while   *)
(* no change overtakes the one before it (Apart): the lists agree, the     *)
(* stamp is earned, a fetch is silent and no change is let go of.          *)
(*                                                                         *)
(* The inductive invariant has a part for the pool, one for the fetches,   *)
(* one that relates what is under way to the files, one for sync_dir_list; *)
(* the last, for the scan, needs the stamp written and no race with it     *)
(* (Clear).                                                                *)
(***************************************************************************)
EXTENDS Fcs, FiniteSetTheorems, TLAPS

(* No second change of a file while one is dealt with, by a user or by a   *)
(* fetch.                                                                  *)
Apart == ~Resubmits /\ "echo" \notin Windows /\ "twice" \notin Windows

(* And the scan of a start finds every file it should.                     *)
Clear == Windows = {} /\ InitStamp = 1

Change == [file : File, kind : Kind]
Entry == File \X Time
ScanMode == {"none", "start", "first", "again"}
ScanRec == [mode : ScanMode, listed : Seq(Entry), left : 0 .. Cardinality(File)]

TimeTypes == now \in Time \ {0} /\ ctime \in [File -> Time]
MarkTypes == /\ stamp \in Time /\ set \in Time
             /\ answered \subseteq File \X Time /\ expired \subseteq File \X Time
ProcTypes == /\ life \in {"up", "down"} /\ self \in {"ON_LINE", "OFF_LINE", "UNKOWN_STAT"}
             /\ watch \in BOOLEAN /\ started \in Time
EventTypes == events \in Seq(Change)
ScanTypes == scan \in ScanRec /\ scan.left =< Len(scan.listed)
TaskTypes == /\ stat \in [Task -> Status] /\ base \in [Task -> Request \union {Blank}]
             /\ ct \in [Task -> (-TaskTimeout) .. MaxTime] /\ hashed \subseteq Task
             /\ owner \in [Task -> Tracker \union {NoTracker}] /\ met \subseteq File
NetTypes == /\ login \subseteq Tracker /\ load \in [Tracker -> Nat]
            /\ owed \in [Tracker -> [Request -> Nat]]
AskTypes == /\ listed \in BOOLEAN /\ asked \subseteq File /\ adding \in File \union {NoFile}
            /\ fetched \subseteq File \X Time
HideTypes == hidden \in [File -> Nat] /\ stray \subseteq File /\ missed \subseteq File \X Time
SigTypes == /\ pc \in {"event", "check_task"} /\ once \in 0 .. (FcsMaxTask + 1)
            /\ faults \in 0 .. MaxFault

(* A task that is not at rest is about a file.                             *)
LiveIsMade == \A t \in Task : Live(t) => base[t] \in Request

Types == /\ TimeTypes /\ MarkTypes /\ ProcTypes /\ EventTypes /\ ScanTypes /\ TaskTypes
         /\ NetTypes /\ AskTypes /\ HideTypes /\ SigTypes /\ LiveIsMade

LEMMA TypesGiveTypeOK == Types => TypeOK
  BY DEF Types, TypeOK, ScanRec, ScanMode, Change, Entry, TimeTypes, MarkTypes, ProcTypes, EventTypes, ScanTypes,
         TaskTypes, NetTypes, AskTypes, HideTypes, SigTypes

----------------------------------------------------------------------------
(* Types                                                                   *)

(* The event that is next, and the entry the scan is at.                   *)
LEMMA NextEvent ==
  ASSUME Types, events # <<>>
  PROVE  /\ Head(events) \in Change /\ Head(events).file \in File /\ Head(events).kind \in Kind
         /\ Head(events) = events[1] /\ Tail(events) \in Seq(Change)
         /\ 1 \in DOMAIN events /\ Len(Tail(events)) = Len(events) - 1 /\ Len(events) \in Nat
         /\ \A i \in DOMAIN Tail(events) : Tail(events)[i] = events[i + 1] /\ i + 1 \in DOMAIN events
  <1>1. events \in Seq(Change)
    BY DEF Types, EventTypes
  <1>2. \A e \in Change : e.file \in File /\ e.kind \in Kind
    BY DEF Change
  <1> QED BY <1>1, <1>2

LEMMA NextListed ==
  ASSUME Types, scan.listed # <<>>
  PROVE  /\ Head(scan.listed) \in Entry /\ Head(scan.listed) = scan.listed[1]
         /\ Head(scan.listed)[1] \in File /\ Head(scan.listed)[2] \in Time
         /\ Tail(scan.listed) \in Seq(Entry) /\ 1 \in DOMAIN scan.listed
         /\ Len(Tail(scan.listed)) = Len(scan.listed) - 1 /\ Len(scan.listed) \in Nat
         /\ \A i \in DOMAIN Tail(scan.listed) :
               Tail(scan.listed)[i] = scan.listed[i + 1] /\ i + 1 \in DOMAIN scan.listed
  <1> DEFINE s == scan.listed
  <1>1. s \in Seq(Entry)
    BY DEF Types, ScanTypes, ScanRec
  <1>2. \A e \in Entry : e[1] \in File /\ e[2] \in Time
    BY DEF Entry
  <1> HIDE DEF s
  <1>3. s # <<>> => /\ Head(s) \in Entry /\ Head(s) = s[1] /\ Tail(s) \in Seq(Entry)
                    /\ 1 \in DOMAIN s /\ Len(Tail(s)) = Len(s) - 1 /\ Len(s) \in Nat
                    /\ \A i \in DOMAIN Tail(s) : Tail(s)[i] = s[i + 1] /\ i + 1 \in DOMAIN s
    BY <1>1
  <1> QED BY <1>2, <1>3 DEF s

LEMMA InitTypes == Init => Types
  <1> SUFFICES ASSUME Init PROVE Types
    OBVIOUS
  <1>1. IsFiniteSet(File) /\ Cardinality(File) \in Nat
    BY PoolAssumption, FS_CardinalityType
  <1>2. 0 \in Time /\ 1 \in Time /\ 0 \in (-TaskTimeout) .. MaxTime /\ InitStamp \in Time
        /\ 1 # 0
    BY PoolAssumption DEF Time
  <1>3. NoScan \in ScanRec /\ NoScan.left =< Len(NoScan.listed)
    BY <1>1 DEF NoScan, ScanRec, ScanMode
  <1>4. TaskTypes
    BY <1>2 DEF Init, TaskTypes, Status
  <1>5. TimeTypes /\ MarkTypes
    BY <1>2 DEF Init, TimeTypes, MarkTypes
  <1>6. ProcTypes /\ EventTypes /\ ScanTypes
    BY <1>2, <1>3 DEF Init, ProcTypes, EventTypes, ScanTypes
  <1>7. NetTypes /\ AskTypes /\ HideTypes
    BY DEF Init, NetTypes, AskTypes, HideTypes
  <1>8. SigTypes
    BY PoolAssumption DEF Init, SigTypes
  <1>9. LiveIsMade
    BY DEF Init, LiveIsMade, Live
  <1> QED BY <1>4, <1>5, <1>6, <1>7, <1>8, <1>9 DEF Types

LEMMA TimeTypesStep == ASSUME Types, Next PROVE TimeTypes'
  <1>0. now \in Nat \ {0} /\ now <= MaxTime /\ MaxTime \in Nat /\ now + 1 \in Nat \ {0}
        /\ ctime \in [File -> Time] /\ 0 \in Time /\ now \in Time
    BY PoolAssumption DEF Types, TimeTypes, Time
  <1>1. ASSUME Clock PROVE TimeTypes'
    BY <1>0, <1>1 DEF Clock, TimeTypes, diskVars, Time
  <1>2. ASSUME NEW f \in File, Write(f) PROVE TimeTypes'
    BY <1>0, <1>2 DEF Write, TimeTypes
  <1>3. ASSUME NEW f \in File, Unlink(f) PROVE TimeTypes'
    BY <1>0, <1>3 DEF Unlink, TimeTypes, Time
  <1>4. ASSUME NEW t \in Task, FetchOk(t) PROVE TimeTypes'
    BY <1>0, <1>4 DEF FetchOk, TimeTypes
  <1>5. UNCHANGED <<now, ctime>> => TimeTypes'
    BY DEF Types, TimeTypes
  <1> QED BY <1>1, <1>2, <1>3, <1>4, <1>5, ZenonT(30)
     DEF Next, InotifyEvent, ScanBegin, ScanFile, ScanEnd, TickBegin, TickEnd, TryDispatch,
         NoPeer, Dispatch, Expire, AgentReap, Answer, UnknownAnswer, FinalAnswer, Relay,
         TrackerForgets, Login, Close, Crash, Start, AddWatch, SetStartTime, SetOffline,
         SetOnline, SyncCommand, ActiveSync, AddToSyncDirList, NotWanted, Wanted,
         ScanSyncDirList, FetchFails, FinTask, diskVars

LEMMA ProcTypesStep == ASSUME Types, Next PROVE ProcTypes'
  <1>1. ASSUME Crash \/ Start \/ AddWatch \/ SetStartTime \/ SetOffline \/ SetOnline \/ ScanEnd
        PROVE  ProcTypes'
    <2>1. 0 \in Time
      BY PoolAssumption DEF Time
    <2> QED BY <1>1, <2>1 DEF Types, ProcTypes, TimeTypes, Crash, Start, AddWatch, SetStartTime,
              SetOffline, SetOnline, ScanEnd
  <1>2. UNCHANGED procVars => ProcTypes'
    BY DEF Types, ProcTypes, procVars
  <1> QED BY <1>1, <1>2
     DEF Next, Clock, Write, Unlink, InotifyEvent, ScanBegin, ScanFile, TickBegin,
         TickEnd, TryDispatch, NoPeer, Dispatch, Expire, AgentReap, Answer, UnknownAnswer,
         FinalAnswer, TrackerForgets, Login, Close, SyncCommand, ActiveSync, AddToSyncDirList,
         NotWanted, Wanted, ScanSyncDirList, FetchOk, FetchFails, FinTask

LEMMA NotifyTypes ==
  ASSUME EventTypes, NEW f \in File, NEW k \in Kind, Notify([file |-> f, kind |-> k])
  PROVE  EventTypes'
  <1> DEFINE e == [file |-> f, kind |-> k]
  <1>1. e \in Change
    BY DEF Change
  <1>2. events' = Append(events, e) \/ events' = events
    BY DEF Notify
  <1> HIDE DEF e
  <1> QED BY <1>1, <1>2 DEF EventTypes

LEMMA EventTypesStep == ASSUME Types, Next PROVE EventTypes'
  <1>0. EventTypes
    BY DEF Types
  <1>1. ASSUME NEW f \in File, Write(f) \/ Unlink(f) PROVE EventTypes'
    BY <1>0, <1>1, NotifyTypes DEF Write, Unlink, Kind
  <1>2. ASSUME NEW t \in Task, FetchOk(t) PROVE EventTypes'
    <2>1. base[t].file \in File
      BY <1>2 DEF Types, LiveIsMade, Live, FetchOk, Fetched, Request
    <2>2. Notify([file |-> base[t].file, kind |-> "ADD"]) /\ "ADD" \in Kind
      BY <1>2 DEF FetchOk, Kind
    <2> QED BY <1>0, <2>1, <2>2, NotifyTypes
  <1>3. ASSUME InotifyEvent \/ Crash PROVE EventTypes'
    <2>1. CASE InotifyEvent
      BY <2>1, NextEvent DEF InotifyEvent, EventTypes
    <2>2. CASE Crash
      BY <2>2 DEF Crash, EventTypes
    <2> QED BY <1>3, <2>1, <2>2
  <1>4. UNCHANGED events => EventTypes'
    BY <1>0 DEF EventTypes
  <1> QED BY <1>1, <1>2, <1>3, <1>4
     DEF Next, Clock, ScanBegin, ScanFile, ScanEnd, TickBegin, TickEnd, TryDispatch,
         NoPeer, Dispatch, Expire, AgentReap, Answer, UnknownAnswer, FinalAnswer,
         TrackerForgets, Login, Close, Start, AddWatch, SetStartTime, SetOffline,
         SetOnline, SyncCommand, ActiveSync, AddToSyncDirList, NotWanted, Wanted,
         ScanSyncDirList, FetchFails, FinTask
(* A new node.                                                             *)
LEMMA NewNodeTypes ==
  ASSUME Types, NEW t \in Task, NEW b \in Request, NEW s \in Status, NewNode(t, b, s)
  PROVE  /\ stat' \in [Task -> Status] /\ base' \in [Task -> Request \union {Blank}]
         /\ met' \subseteq File /\ LiveIsMade' /\ base'[t] = b /\ stat'[t] = s
         /\ \A u \in Task : u # t => base'[u] = base[u] /\ stat'[u] = stat[u]
  <1>1. stat \in [Task -> Status] /\ base \in [Task -> Request \union {Blank}] /\ met \subseteq File
    BY DEF Types, TaskTypes
  <1>2. /\ stat' = [stat EXCEPT ![t] = s] /\ base' = [base EXCEPT ![t] = b]
        /\ met' = met \union {f \in {b.file} : \E u \in Task : Live(u) /\ base[u].file = f}
    BY DEF NewNode
  <1>3. /\ base'[t] = b /\ stat'[t] = s
        /\ \A u \in Task : u # t => base'[u] = base[u] /\ stat'[u] = stat[u]
    BY <1>1, <1>2
  <1>4. b.file \in File
    BY DEF Request
  <1> QED BY <1>1, <1>2, <1>3, <1>4 DEF Types, LiveIsMade, Live

(* The new node of a task of the inotify thread, of the scan, of a fetch.  *)
LEMMA EventNode ==
  ASSUME Types, InotifyEvent, ~Ignored(Head(events))
  PROVE  \E t \in Task :
           LET e == Head(events)
               v == IF e.kind = "ADD" THEN ctime[e.file] ELSE now
               b == [file |-> e.file, kind |-> e.kind, ver |-> v]
           IN  /\ b \in Request /\ v \in Time /\ NewNode(t, b, "WAIT_SYNC") /\ ct' = [ct EXCEPT ![t] = v]
               /\ UNCHANGED <<hashed, owner>>
  <1> DEFINE e == Head(events)
             v == IF e.kind = "ADD" THEN ctime[e.file] ELSE now
             b == [file |-> e.file, kind |-> e.kind, ver |-> v]
  <1>1. e.file \in File /\ e.kind \in Kind
    BY NextEvent DEF InotifyEvent
  <1>2. v \in Time
    BY <1>1 DEF Types, TimeTypes
  <1>3. \E t \in Task : NewTask(t, b) /\ ct' = [ct EXCEPT ![t] = v] /\ UNCHANGED <<hashed, owner>>
    BY DEF InotifyEvent
  <1>4. b \in Request
    BY <1>1, <1>2 DEF Request
  <1> QED BY <1>2, <1>3, <1>4 DEF NewTask

LEMMA ScanNode ==
  ASSUME Types, ScanFile, scan.listed # <<>>, ctime[Head(scan.listed)[1]] # 0
  PROVE  \E t \in Task :
           LET f == Head(scan.listed)[1]
               c == Head(scan.listed)[2] - TaskTimeout
               b == [file |-> f, kind |-> "ADD", ver |-> ctime[f]]
           IN  /\ b \in Request /\ f \in File /\ c \in (-TaskTimeout) .. MaxTime
               /\ NewNode(t, b, "WAIT_SYNC") /\ ct' = [ct EXCEPT ![t] = c]
               /\ UNCHANGED <<hashed, owner>>
  <1> DEFINE f == Head(scan.listed)[1]
             c == Head(scan.listed)[2] - TaskTimeout
             b == [file |-> f, kind |-> "ADD", ver |-> ctime[f]]
  <1>1. f \in File /\ Head(scan.listed)[2] \in Time
    BY NextListed
  <1>2. ctime[f] \in Time /\ "ADD" \in Kind
    BY <1>1 DEF Types, TimeTypes, Kind
  <1>3. c \in (-TaskTimeout) .. MaxTime
    BY <1>1, PoolAssumption DEF Time
  <1>4. \E t \in Task : NewTask(t, b) /\ ct' = [ct EXCEPT ![t] = c] /\ UNCHANGED <<hashed, owner>>
    BY DEF ScanFile
  <1>5. b \in Request
    BY <1>1, <1>2 DEF Request
  <1> QED BY <1>1, <1>3, <1>4, <1>5 DEF NewTask

LEMMA FetchNode ==
  ASSUME Types, NEW f \in File, Wanted(f)
  PROVE  \E t \in Task :
           LET b == [file |-> f, kind |-> "ADD", ver |-> 0]
           IN  /\ b \in Request /\ NewNode(t, b, "WAIT") /\ ct' = [ct EXCEPT ![t] = 0]
               /\ hashed' = hashed \union {t}
  <1>1. [file |-> f, kind |-> "ADD", ver |-> 0] \in Request
    BY PoolAssumption DEF Request, Kind, Time
  <1> QED BY <1>1 DEF Wanted, AddToAllTask
LEMMA LiveIsMadeStep == ASSUME Types, RunIsFindable, Next PROVE LiveIsMade'
  <1>0. stat \in [Task -> Status] /\ base \in [Task -> Request \union {Blank}] /\ LiveIsMade
    BY DEF Types, TaskTypes
  <1>1. ASSUME InotifyEvent PROVE LiveIsMade'
    <2>1. CASE Ignored(Head(events))
      BY <1>0, <1>1, <2>1 DEF InotifyEvent, taskVars, LiveIsMade, Live
    <2>2. CASE ~Ignored(Head(events))
      BY <1>1, <2>2, EventNode, NewNodeTypes DEF Status
    <2> QED BY <2>1, <2>2
  <1>2. ASSUME ScanFile PROVE LiveIsMade'
    <2>0. scan.listed # <<>>
      BY <1>2 DEF ScanFile, Types, ScanTypes, ScanRec
    <2>1. CASE ctime[Head(scan.listed)[1]] = 0
      BY <1>0, <1>2, <2>1 DEF ScanFile, taskVars, LiveIsMade, Live
    <2>2. CASE ctime[Head(scan.listed)[1]] # 0
      BY <1>2, <2>0, <2>2, ScanNode, NewNodeTypes DEF Status
    <2> QED BY <2>1, <2>2
  <1>3. ASSUME NEW f \in File, Wanted(f) PROVE LiveIsMade'
    BY <1>3, FetchNode, NewNodeTypes DEF Status
  <1>4. ASSUME NEW t \in Task, Expire(t) \/ AgentReap(t) PROVE LiveIsMade'
    BY <1>0, <1>4 DEF Expire, AgentReap, Relist, LiveIsMade, Live
  <1>5. ASSUME NEW t \in Task, TryDispatch(t) \/ FetchOk(t) \/ FetchFails(t) \/ FinTask(t)
        PROVE  LiveIsMade'
    BY <1>0, <1>5 DEF TryDispatch, NoPeer, Dispatch, FetchOk, FetchFails, Fetched, FinTask,
                      Relist, Waiting, LiveIsMade, Live
  <1>6. ASSUME NEW p \in Tracker, NEW r \in Request, Answer(p, r) PROVE LiveIsMade'
    BY <1>0, <1>6 DEF Answer, UnknownAnswer, FinalAnswer, Relay, taskVars, Relist, LiveIsMade, Live
  <1>7. ASSUME TickBegin PROVE LiveIsMade'
    BY <1>0, <1>7 DEF TickBegin, Requeued, Relist, LiveIsMade, Live
  <1>8. ASSUME Crash PROVE LiveIsMade'
    BY <1>8 DEF Crash, LiveIsMade, Live
  <1>9. UNCHANGED taskVars => LiveIsMade'
    BY <1>0 DEF taskVars, LiveIsMade, Live
  <1>10. ASSUME NEW p \in Tracker, Close(p) PROVE LiveIsMade'
    BY <1>0, <1>10, PoolAssumption
       DEF Close, Refreshed, TasksOf, Relist, RunIsFindable, LiveIsMade, Live
  <1> QED BY <1>1, <1>2, <1>3, <1>4, <1>5, <1>6, <1>7, <1>8, <1>9, <1>10
     DEF Next, Clock, Write, Unlink, ScanBegin, ScanEnd, TickEnd, TrackerForgets, Login, Start,
         AddWatch, SetStartTime, SetOffline, SetOnline, SyncCommand, ActiveSync,
         AddToSyncDirList, NotWanted, ScanSyncDirList, taskVars
LEMMA TaskTypesStep == ASSUME Types, Next PROVE TaskTypes'
  <1>0. TaskTypes
    BY DEF Types
  <1>1. ASSUME InotifyEvent PROVE TaskTypes'
    <2>1. CASE Ignored(Head(events))
      BY <1>0, <1>1, <2>1 DEF InotifyEvent, taskVars, TaskTypes
    <2>2. CASE ~Ignored(Head(events))
      <3>1. Time \subseteq (-TaskTimeout) .. MaxTime /\ "WAIT_SYNC" \in Status
        BY PoolAssumption DEF Time, Status
      <3> QED BY <1>0, <1>1, <2>2, <3>1, EventNode, NewNodeTypes, ZenonT(30) DEF TaskTypes
    <2> QED BY <2>1, <2>2
  <1>2. ASSUME ScanFile PROVE TaskTypes'
    <2>0. scan.listed # <<>> /\ "WAIT_SYNC" \in Status
      BY <1>2 DEF ScanFile, Types, ScanTypes, ScanRec, Status
    <2>1. CASE ctime[Head(scan.listed)[1]] = 0
      BY <1>0, <1>2, <2>1 DEF ScanFile, taskVars, TaskTypes
    <2>2. CASE ctime[Head(scan.listed)[1]] # 0
      <3> DEFINE c == Head(scan.listed)[2] - TaskTimeout
      <3>1. PICK t \in Task, b \in Request :
               /\ NewNode(t, b, "WAIT_SYNC") /\ ct' = [ct EXCEPT ![t] = c]
               /\ c \in (-TaskTimeout) .. MaxTime /\ UNCHANGED <<hashed, owner>>
        BY <1>2, <2>0, <2>2, ScanNode, Zenon
      <3> HIDE DEF c
      <3> QED BY <1>0, <2>0, <3>1, NewNodeTypes DEF TaskTypes
    <2> QED BY <2>1, <2>2
  <1>3. ASSUME NEW f \in File, Wanted(f) PROVE TaskTypes'
    <2>1. 0 \in (-TaskTimeout) .. MaxTime /\ "WAIT" \in Status
      BY PoolAssumption DEF Status
    <2>2. owner' = owner
      BY <1>3 DEF Wanted
    <2> QED BY <1>0, <1>3, <2>1, <2>2, FetchNode, NewNodeTypes, ZenonT(30) DEF TaskTypes
  <1>4. ASSUME NEW t \in Task, Expire(t) \/ AgentReap(t) PROVE TaskTypes'
    <2>1. 0 \in (-TaskTimeout) .. MaxTime
      BY PoolAssumption
    <2> QED BY <1>0, <1>4, <2>1 DEF Expire, AgentReap, NotInAllTask, Relist, TaskTypes, Status
  <1>5. ASSUME NEW t \in Task, TryDispatch(t) \/ FetchOk(t) \/ FetchFails(t) \/ FinTask(t)
        PROVE  TaskTypes'
    BY <1>0, <1>5 DEF TryDispatch, NoPeer, Dispatch, AddToAllTask, FetchOk, FetchFails, Fetched,
                      FinTask, Relist, Waiting, TaskTypes, Status, UsePeer, Types, NetTypes
  <1>6. ASSUME NEW p \in Tracker, NEW r \in Request, Answer(p, r) PROVE TaskTypes'
    BY <1>0, <1>6 DEF Answer, UnknownAnswer, FinalAnswer, NotInAllTask, taskVars, Relist, TaskTypes,
                      Status
  <1>7. ASSUME TickBegin PROVE TaskTypes'
    BY <1>0, <1>7 DEF TickBegin, Requeued, Relist, TaskTypes, Status
  <1>8. ASSUME Crash PROVE TaskTypes'
    <2>1. 0 \in (-TaskTimeout) .. MaxTime
      BY PoolAssumption
    <2> QED BY <1>0, <1>8, <2>1 DEF Crash, TaskTypes, Status
  <1>9. UNCHANGED taskVars => TaskTypes'
    BY <1>0 DEF taskVars, TaskTypes
  <1>10. ASSUME NEW p \in Tracker, Close(p) PROVE TaskTypes'
    BY <1>0, <1>10 DEF Close, Refreshed, TasksOf, Relist, TaskTypes, Status
  <1> QED BY <1>1, <1>2, <1>3, <1>4, <1>5, <1>6, <1>7, <1>8, <1>9, <1>10
     DEF Next, Clock, Write, Unlink, ScanBegin, ScanEnd, TickEnd, TrackerForgets, Login, Start,
         AddWatch, SetStartTime, SetOffline, SetOnline, SyncCommand, ActiveSync,
         AddToSyncDirList, NotWanted, ScanSyncDirList, taskVars

LEMMA OwedChange ==
  ASSUME NetTypes, NEW p \in Tracker, NEW r \in Request, NEW n \in Nat,
         owed' = [owed EXCEPT ![p][r] = n]
  PROVE  /\ owed' \in [Tracker -> [Request -> Nat]]
         /\ \A q \in Tracker, s \in Request :
               owed'[q][s] = IF q = p /\ s = r THEN n ELSE owed[q][s]
  <1>1. owed \in [Tracker -> [Request -> Nat]] /\ owed[p] \in [Request -> Nat]
    BY DEF NetTypes
  <1> DEFINE w == [owed[p] EXCEPT ![r] = n]
  <1>2. w \in [Request -> Nat] /\ \A s \in Request : w[s] = IF s = r THEN n ELSE owed[p][s]
    BY <1>1
  <1>3. owed' = [owed EXCEPT ![p] = w]
    BY <1>1
  <1> HIDE DEF w
  <1> QED BY <1>1, <1>2, <1>3

LEMMA NetTypesStep == ASSUME Types, Next PROVE NetTypes'
  <1>0. NetTypes
    BY DEF Types
  <1>1. ASSUME NEW t \in Task, NEW p \in Tracker, Dispatch(t, p) PROVE NetTypes'
    <2>1. base[t] \in Request
      BY <1>1 DEF Dispatch, Types, LiveIsMade, Live
    <2>2. owed[p][base[t]] + Answers \in Nat
      BY <1>0, <2>1, PoolAssumption DEF NetTypes
    <2>3. owed' = [owed EXCEPT ![p][base[t]] = owed[p][base[t]] + Answers]
      BY <1>1 DEF Dispatch
    <2>4. owed' \in [Tracker -> [Request -> Nat]]
      BY <1>0, <2>1, <2>2, <2>3, OwedChange
    <2> QED BY <1>0, <1>1, <2>4 DEF Dispatch, NetTypes
  <1>2. ASSUME NEW p \in Tracker, NEW r \in Request, Answer(p, r) \/ TrackerForgets(p, r)
        PROVE  NetTypes'
    <2>1. owed[p][r] > 0 /\ owed' = [owed EXCEPT ![p][r] = @ - 1]
      BY <1>2 DEF Answer, UnknownAnswer, FinalAnswer, Relay, TrackerForgets
    <2>2. load' = load \/ load' = [load EXCEPT ![p] = IF @ = 0 THEN 0 ELSE @ - 1]
      BY <1>2 DEF Answer, UnknownAnswer, FinalAnswer, Uncount, TrackerForgets
    <2>3. load' \in [Tracker -> Nat]
      BY <1>0, <2>2 DEF NetTypes
    <2>4. login' = login
      BY <1>2 DEF Answer, UnknownAnswer, FinalAnswer, TrackerForgets
    <2>5. owed[p][r] - 1 \in Nat
      BY <1>0, <2>1 DEF NetTypes
    <2>6. owed' \in [Tracker -> [Request -> Nat]]
      BY <1>0, <2>1, <2>5, OwedChange
    <2> QED BY <1>0, <2>3, <2>4, <2>6 DEF NetTypes
  <1>3. ASSUME NEW p \in Tracker, Login(p) \/ Close(p) PROVE NetTypes'
    BY <1>0, <1>3 DEF Login, Close, NetTypes
  <1>4. ASSUME Crash PROVE NetTypes'
    BY <1>0, <1>4 DEF Crash, NetTypes
  <1>5. UNCHANGED netVars => NetTypes'
    BY <1>0 DEF NetTypes, netVars
  <1> QED BY <1>1, <1>2, <1>3, <1>4, <1>5
     DEF Next, Clock, Write, Unlink, InotifyEvent, ScanBegin, ScanFile, ScanEnd, TickBegin,
         TickEnd, TryDispatch, NoPeer, Expire, AgentReap, Start, AddWatch, SetStartTime,
         SetOffline, SetOnline, SyncCommand, ActiveSync, AddToSyncDirList, NotWanted, Wanted,
         ScanSyncDirList, FetchOk, FetchFails, FinTask

LEMMA AskTypesStep == ASSUME Types, Next PROVE AskTypes'
  <1>0. AskTypes /\ now \in Time
    BY DEF Types, TimeTypes
  <1>1. ASSUME NEW t \in Task, FetchOk(t) PROVE AskTypes'
    <2>1. base[t].file \in File
      BY <1>1 DEF Types, LiveIsMade, Live, FetchOk, Fetched, Request
    <2> QED BY <1>0, <1>1, <2>1 DEF FetchOk, AskTypes, askVars
  <1>2. ASSUME NEW f \in File, NotWanted(f) \/ Wanted(f) PROVE AskTypes'
    BY <1>0, <1>2 DEF NotWanted, Wanted, Offered, AskTypes
  <1>3. ASSUME SyncCommand \/ ActiveSync \/ AddToSyncDirList \/ Crash PROVE AskTypes'
    BY <1>0, <1>3 DEF SyncCommand, ActiveSync, AddToSyncDirList, Crash, AskTypes
  <1>4. UNCHANGED <<askVars, fetched>> => AskTypes'
    BY <1>0 DEF AskTypes, askVars
  <1> QED BY <1>1, <1>2, <1>3, <1>4
     DEF Next, Clock, Write, Unlink, InotifyEvent, ScanBegin, ScanFile, ScanEnd, TickBegin,
         TickEnd, TryDispatch, NoPeer, Dispatch, Expire, AgentReap, Answer, UnknownAnswer,
         FinalAnswer, TrackerForgets, Login, Close, Start, AddWatch, SetStartTime, SetOffline,
         SetOnline, ScanSyncDirList, FetchFails, FinTask, fetchVars
LEMMA HideTypesStep == ASSUME Types, Next PROVE HideTypes'
  <1>0. HideTypes /\ ctime \in [File -> Time]
    BY DEF Types, TimeTypes
  <1>1. ASSUME NEW f \in File, TakeOut(f), hidden[f] # 0
        PROVE  hidden' \in [File -> Nat] /\ stray' \subseteq File
    BY <1>0, <1>1 DEF TakeOut, TakenOut, HideTypes
  <1>2. ASSUME NEW f \in File, ScanSyncDirList(f) PROVE HideTypes'
    BY <1>0, <1>1, <1>2 DEF ScanSyncDirList, HideTypes
  <1>3. ASSUME InotifyEvent PROVE HideTypes'
    <2> DEFINE f == Head(events).file
    <2>1. f \in File
      BY <1>3, NextEvent DEF InotifyEvent
    <2>2. {<<g, ctime[g]>> : g \in {f} \intersect stray} \subseteq File \X Time
      BY <1>0, <2>1
    <2> HIDE DEF f
    <2>3. IF hidden[f] = 0 THEN UNCHANGED hideVars
          ELSE IF self = "OFF_LINE" THEN stray' = stray \union {f} /\ UNCHANGED <<hidden, missed>>
          ELSE TakeOut(f) /\ missed' = missed \union {<<g, ctime[g]>> : g \in {f} \intersect stray}
      BY <1>3 DEF InotifyEvent, f
    <2> QED BY <1>0, <1>1, <2>1, <2>2, <2>3 DEF HideTypes, hideVars
  <1>4. ASSUME AddToSyncDirList PROVE HideTypes'
    BY <1>0, <1>4 DEF AddToSyncDirList, Hidden, HideTypes, Types, AskTypes
  <1>5. ASSUME NEW t \in Task, Expire(t) \/ FetchOk(t) \/ FetchFails(t) PROVE HideTypes'
    <2>1. base[t].file \in File
      BY <1>5 DEF Types, LiveIsMade, Live, Expire, FetchOk, FetchFails, Fetched, Request
    <2> QED BY <1>0, <1>5, <2>1 DEF Expire, FetchOk, FetchFails, HideTypes
  <1>6. ASSUME Crash PROVE HideTypes'
    BY <1>0, <1>6 DEF Crash, HideTypes
  <1>7. UNCHANGED hideVars => HideTypes'
    BY <1>0 DEF hideVars, HideTypes
  <1> QED BY <1>2, <1>3, <1>4, <1>5, <1>6, <1>7
     DEF Next, Clock, Write, Unlink, ScanBegin, ScanFile, ScanEnd, TickBegin,
         TickEnd, TryDispatch, NoPeer, Dispatch, AgentReap, Answer, UnknownAnswer,
         FinalAnswer, TrackerForgets, Login, Close, Start, AddWatch, SetStartTime, SetOffline,
         SetOnline, SyncCommand, ActiveSync, NotWanted, Wanted, FinTask, fetchVars

LEMMA MaxOfTwo ==
  ASSUME NEW a \in Int, NEW b \in Int
  PROVE  Max({a, b}) = IF a >= b THEN a ELSE b
  <1> DEFINE m == IF a >= b THEN a ELSE b
  <1>1. m \in {a, b} /\ \A x \in {a, b} : m >= x
    OBVIOUS
  <1>2. \A n \in {a, b} : (\A x \in {a, b} : n >= x) => n = m
    OBVIOUS
  <1> QED BY <1>1, <1>2 DEF Max

LEMMA MarkTypesStep == ASSUME Types, Next PROVE MarkTypes'
  <1>0. MarkTypes /\ now \in Time /\ Time \subseteq Int
    BY PoolAssumption DEF Types, TimeTypes, Time
  <1>1. ASSUME NEW t \in Task, Expire(t) PROVE MarkTypes'
    <2>1. base[t] \in Request
      BY <1>1 DEF Types, LiveIsMade, Expire
    <2>2. <<base[t].file, base[t].ver>> \in File \X Time
      BY <2>1 DEF Request
    <2> QED BY <1>0, <1>1, <2>2 DEF Expire, MarkTypes
  <1>2. ASSUME NEW p \in Tracker, NEW r \in Request, Answer(p, r) PROVE MarkTypes'
    <2>1. <<r.file, r.ver>> \in File \X Time
      BY DEF Request
    <2>2. answered' \subseteq File \X Time /\ UNCHANGED <<expired, set>>
      BY <1>0, <1>2, <2>1 DEF Answer, UnknownAnswer, FinalAnswer, Relay, MarkTypes
    <2>3. ASSUME NEW t \in Task PROVE SetStamp(t) \in Time
      BY <1>0, PoolAssumption DEF SetStamp, Types, TaskTypes, MarkTypes, Time
    <2>4. stamp' = stamp \/ \E t \in Task : stamp' = SetStamp(t)
      BY <1>2 DEF Answer, UnknownAnswer, FinalAnswer
    <2> QED BY <1>0, <2>2, <2>3, <2>4 DEF MarkTypes
  <1>3. ASSUME NEW t \in Task, FinTask(t) PROVE MarkTypes'
    <2>1. Max({stamp, now}) \in Time
      BY <1>0, MaxOfTwo DEF MarkTypes
    <2> QED BY <1>0, <1>3, <2>1 DEF FinTask, MarkTypes
  <1>4. ASSUME SyncCommand PROVE MarkTypes'
    BY <1>0, <1>4 DEF SyncCommand, MarkTypes
  <1>5. UNCHANGED <<stamp, answered, expired, set>> => MarkTypes'
    BY <1>0 DEF MarkTypes
  <1> QED BY <1>1, <1>2, <1>3, <1>4, <1>5
     DEF Next, Clock, Write, Unlink, InotifyEvent, ScanBegin, ScanFile, ScanEnd, TickBegin,
         TickEnd, TryDispatch, NoPeer, Dispatch, AgentReap, TrackerForgets, Login, Close, Crash,
         Start, AddWatch, SetStartTime, SetOffline, SetOnline, ActiveSync, AddToSyncDirList,
         NotWanted, Wanted, ScanSyncDirList, FetchOk, FetchFails, diskVars

LEMMA SigTypesStep == ASSUME Types, Next PROVE SigTypes'
  <1>0. SigTypes
    BY DEF Types
  <1>1. faults' \in 0 .. MaxFault
    <2>1. faults' = faults \/ (faults < MaxFault /\ faults' = faults + 1)
      BY DEF Next, Clock, Write, Unlink, InotifyEvent, ScanBegin, ScanFile, ScanEnd, TickBegin,
         TickEnd, TryDispatch, NoPeer, Dispatch, Expire, AgentReap, Answer, UnknownAnswer,
         FinalAnswer, TrackerForgets, Login, Close, Crash, Start, AddWatch, SetStartTime,
         SetOffline, SetOnline, SyncCommand, ActiveSync, AddToSyncDirList, NotWanted, Wanted,
         ScanSyncDirList, FetchOk, FetchFails, FinTask, Fault
    <2> QED BY <1>0, <2>1, PoolAssumption DEF SigTypes
  <1>2. pc' \in {"event", "check_task"} /\ once' \in 0 .. (FcsMaxTask + 1)
    <2>1. \/ UNCHANGED sigVars
          \/ pc' \in {"event", "check_task"} /\ once' = 0
          \/ pc' = pc /\ once + 1 < FcsMaxTask /\ once' = once + 1
      BY DEF Next, Clock, Write, Unlink, InotifyEvent, ScanBegin, ScanFile, ScanEnd, TickBegin,
         TickEnd, TryDispatch, NoPeer, Dispatch, Expire, AgentReap, Answer, UnknownAnswer,
         FinalAnswer, TrackerForgets, Login, Close, Crash, Start, AddWatch, SetStartTime,
         SetOffline, SetOnline, SyncCommand, ActiveSync, AddToSyncDirList, NotWanted, Wanted,
         ScanSyncDirList, FetchOk, FetchFails, FinTask, MayDispatch
    <2> QED BY <1>0, <2>1, PoolAssumption DEF SigTypes, sigVars
  <1> QED BY <1>1, <1>2 DEF SigTypes

(* What the scan lists: files that are there, each with its ctime.         *)
LEMMA ScanLists ==
  ASSUME Types, ScanBegin
  PROVE  \E s \in Seq(File) :
           LET l == [i \in DOMAIN s |-> <<s[i], ctime[s[i]]>>]
           IN  /\ \A f \in Listed \ {f \in File : ctime[f] = 0} : \E i \in DOMAIN s : s[i] = f
               /\ \A i \in DOMAIN s : s[i] \in File /\ s[i] \in Listed /\ ctime[s[i]] # 0
               /\ Len(s) \in 0 .. Cardinality(File)
               /\ l \in Seq(Entry) /\ Len(l) = Len(s) /\ DOMAIN l = DOMAIN s
               /\ scan' = [mode |-> IF scan.mode = "start" THEN "first" ELSE "again",
                           listed |-> l, left |-> Len(s)]
  <1> DEFINE S == Listed \ {f \in File : ctime[f] = 0}
  <1>1. S \subseteq File
    BY DEF Listed
  <1>2. IsFiniteSet(S) /\ Cardinality(S) \in Nat /\ Cardinality(S) =< Cardinality(File)
        /\ Cardinality(File) \in Nat
    BY <1>1, PoolAssumption, FS_Subset, FS_CardinalityType
  <1>3. PICK s \in SetToSeqs(S) :
             scan' = [mode |-> IF scan.mode = "start" THEN "first" ELSE "again",
                      listed |-> [i \in DOMAIN s |-> <<s[i], ctime[s[i]]>>], left |-> Len(s)]
    BY DEF ScanBegin
  <1>0. \A f \in S : f \in Listed /\ ctime[f] # 0
    BY <1>1
  <1> DEFINE n == Cardinality(S)
             l == [i \in DOMAIN s |-> <<s[i], ctime[s[i]]>>]
  <1>4. s \in [1 .. n -> S] /\ \A i, j \in 1 .. n : i # j => s[i] # s[j]
    BY <1>3 DEF SetToSeqs
  <1> HIDE DEF S
  <1>5. s \in Injection(1 .. n, S)
    BY <1>4 DEF Injection, IsInjective
  <1>6. Cardinality(1 .. n) = n
    BY <1>2, FS_Interval
  <1>7. s \in Surjection(1 .. n, S)
    BY <1>2, <1>5, <1>6, FS_Injection
  <1>8. \A f \in S : \E i \in 1 .. n : s[i] = f
    BY <1>7 DEF Surjection
  <1>9. s \in Seq(File) /\ Len(s) = n /\ DOMAIN s = 1 .. n
    BY <1>1, <1>2, <1>4
  <1>10. \A i \in 1 .. n : s[i] \in S /\ s[i] \in File
    BY <1>1, <1>4
  <1>11. \A i \in 1 .. n : <<s[i], ctime[s[i]]>> \in Entry
    BY <1>10 DEF Entry, Types, TimeTypes
  <1>12. l \in Seq(Entry) /\ Len(l) = n /\ DOMAIN l = 1 .. n
    BY <1>2, <1>9, <1>11
  <1>13. /\ \A f \in Listed \ {f \in File : ctime[f] = 0} : \E i \in DOMAIN s : s[i] = f
         /\ \A i \in DOMAIN s : s[i] \in File /\ s[i] \in Listed /\ ctime[s[i]] # 0
    BY <1>0, <1>8, <1>9, <1>10 DEF S
  <1>14. /\ Len(s) \in 0 .. Cardinality(File)
         /\ l \in Seq(Entry) /\ Len(l) = Len(s) /\ DOMAIN l = DOMAIN s
    BY <1>2, <1>9, <1>12
  <1>15. scan' = [mode |-> IF scan.mode = "start" THEN "first" ELSE "again", listed |-> l, left |-> Len(s)]
    BY <1>3
  <1> HIDE DEF l, n
  <1> QED BY <1>9, <1>13, <1>14, <1>15 DEF l

LEMMA ScanOf ==
  ASSUME NEW m \in ScanMode, NEW l \in Seq(Entry), NEW n \in Nat, n =< Cardinality(File),
         n =< Len(l), scan' = [mode |-> m, listed |-> l, left |-> n]
  PROVE  ScanTypes' /\ scan'.mode = m /\ scan'.listed = l /\ scan'.left = n
  <1>1. n \in 0 .. Cardinality(File)
    BY PoolAssumption, FS_CardinalityType
  <1>2. scan' \in ScanRec
    BY <1>1 DEF ScanRec
  <1> QED BY <1>2 DEF ScanTypes

LEMMA ScanTypesStep == ASSUME Types, Next PROVE ScanTypes'
  <1>0. ScanTypes /\ scan.listed \in Seq(Entry) /\ Len(scan.listed) \in Nat
        /\ scan.mode \in ScanMode
        /\ scan.left \in 0 .. Cardinality(File) /\ scan.left =< Len(scan.listed)
        /\ scan = [mode |-> scan.mode, listed |-> scan.listed, left |-> scan.left]
    BY DEF Types, ScanTypes, ScanRec
  <1>1. <<>> \in Seq(Entry) /\ Len(<<>>) = 0 /\ 0 \in 0 .. Cardinality(File) /\ Cardinality(File) \in Nat
    BY PoolAssumption, FS_CardinalityType
  <1>2. ASSUME ScanBegin PROVE ScanTypes'
    <2>1. PICK l \in Seq(Entry), n \in 0 .. Cardinality(File) :
             /\ n = Len(l)
             /\ scan' = [mode |-> IF scan.mode = "start" THEN "first" ELSE "again",
                         listed |-> l, left |-> n]
      BY <1>2, ScanLists, Zenon
    <2>2. scan'.mode \in ScanMode /\ scan'.mode = IF scan.mode = "start" THEN "first" ELSE "again"
      BY <2>1 DEF ScanMode
    <2> QED BY <1>1, <2>1, <2>2, ScanOf
  <1>3. ASSUME ScanFile PROVE ScanTypes'
    <2>1. scan.left > 0 /\ scan.listed # <<>>
      BY <1>0, <1>3 DEF ScanFile
    <2>2. /\ Tail(scan.listed) \in Seq(Entry) /\ Len(Tail(scan.listed)) = Len(scan.listed) - 1
      BY <2>1, NextListed
    <2>3. \/ scan' = [scan EXCEPT !.left = @ - 1]
          \/ scan' = [scan EXCEPT !.listed = Tail(@), !.left = @ - 1]
      BY <1>3 DEF ScanFile
    <2>4. scan.left - 1 \in 0 .. Cardinality(File) /\ scan.left - 1 =< Len(scan.listed) - 1
          /\ scan.left - 1 =< Len(scan.listed)
      BY <1>0, <1>1, <2>1
    <2> DEFINE n == scan.left - 1
    <2>5. \/ scan' = [mode |-> scan.mode, listed |-> scan.listed, left |-> n]
          \/ scan' = [mode |-> scan.mode, listed |-> Tail(scan.listed), left |-> n]
      BY <1>0, <2>3
    <2> HIDE DEF n
    <2>6. n \in 0 .. Cardinality(File) /\ n =< Len(scan.listed) /\ n =< Len(Tail(scan.listed))
      BY <2>2, <2>4 DEF n
    <2>7. n =< Cardinality(File) /\ n \in Nat
      BY <1>1, <2>6
    <2> QED BY <1>0, <2>2, <2>5, <2>6, <2>7, ScanOf
  <1>4. ASSUME Crash \/ ScanEnd \/ Start PROVE ScanTypes'
    <2>1. \/ scan' = NoScan
          \/ scan' = [NoScan EXCEPT !.mode = "start"]
      BY <1>4 DEF Crash, ScanEnd, Start
    <2>2. PICK m \in ScanMode : scan' = [mode |-> m, listed |-> <<>>, left |-> 0]
      BY <2>1 DEF NoScan, ScanMode
    <2> DEFINE l == <<>>
    <2>3. 0 =< Cardinality(File) /\ 0 \in Nat /\ l \in Seq(Entry) /\ 0 =< Len(l)
      BY <1>1
    <2>4. scan' = [mode |-> m, listed |-> l, left |-> 0]
      BY <2>2
    <2> HIDE DEF l
    <2> QED BY <2>3, <2>4, ScanOf
  <1>5. UNCHANGED scan => ScanTypes'
    BY <1>0 DEF ScanTypes
  <1> QED BY <1>2, <1>3, <1>4, <1>5
     DEF Next, Clock, Write, Unlink, InotifyEvent, TickBegin,
         TickEnd, TryDispatch, NoPeer, Dispatch, Expire, AgentReap, Answer, UnknownAnswer,
         FinalAnswer, TrackerForgets, Login, Close, AddWatch, SetStartTime,
         SetOffline, SetOnline, SyncCommand, ActiveSync, AddToSyncDirList, NotWanted, Wanted,
         ScanSyncDirList, FetchOk, FetchFails, FinTask

----------------------------------------------------------------------------
(* Where a task comes from: it was there, or it has just been made, by the *)
(* inotify thread, by the scan or for a fetch.                             *)
Made(t) ==
    /\ stat[t] = "HOME"
    /\ \A u \in Task : u # t => stat'[u] = stat[u] /\ base'[u] = base[u] /\ ct'[u] = ct[u]
    /\ \A u \in Task : Live(u) /\ base[u].file = base'[t].file => base'[t].file \in met'
MadeByEvent(t) ==
    /\ InotifyEvent /\ ~Ignored(Head(events)) /\ Made(t) /\ stat'[t] = "WAIT_SYNC"
    /\ base'[t] = [file |-> Head(events).file, kind |-> Head(events).kind,
                   ver |-> IF Head(events).kind = "ADD" THEN ctime[Head(events).file] ELSE now]
    /\ ct'[t] = base'[t].ver
MadeByScan(t) ==
    /\ ScanFile /\ Made(t) /\ stat'[t] = "WAIT_SYNC"
    /\ scan.listed # <<>> /\ ctime[Head(scan.listed)[1]] # 0
    /\ base'[t] = [file |-> Head(scan.listed)[1], kind |-> "ADD", ver |-> ctime[Head(scan.listed)[1]]]
    /\ ct'[t] = Head(scan.listed)[2] - TaskTimeout
MadeByFetch(t, f) ==
    /\ Wanted(f) /\ Made(t) /\ stat'[t] = "WAIT"
    /\ base'[t] = [file |-> f, kind |-> "ADD", ver |-> 0] /\ ct'[t] = 0 /\ t \in hashed'
Stays(t) ==
    /\ Live(t) /\ base'[t] = base[t] /\ ct'[t] = ct[t]
    /\ stat'[t] \in {"WAIT", "FIN"} <=> stat[t] \in {"WAIT", "FIN"}
    /\ stat'[t] = "WAIT" => stat[t] = "WAIT"
    /\ stat[t] = "WAIT" /\ stat'[t] # "WAIT" => FetchOk(t) \/ FetchFails(t)

LEMMA NodeIsMade ==
  ASSUME Types, NEW t \in Task, NEW b \in Request, NEW s \in Status, NewNode(t, b, s),
         NEW c \in (-TaskTimeout) .. MaxTime, ct' = [ct EXCEPT ![t] = c]
  PROVE  /\ Made(t) /\ stat'[t] = s /\ base'[t] = b /\ ct'[t] = c
         /\ \A u \in Task : Live(u)' => u = t \/ Live(u)
  <1>1. /\ base'[t] = b /\ stat'[t] = s
        /\ \A u \in Task : u # t => base'[u] = base[u] /\ stat'[u] = stat[u]
    BY NewNodeTypes
  <1>2. ct \in [Task -> (-TaskTimeout) .. MaxTime]
    BY DEF Types, TaskTypes
  <1>3. ct'[t] = c /\ \A u \in Task : u # t => ct'[u] = ct[u]
    BY <1>2
  <1>4. stat[t] = "HOME" /\ met' = met \union {f \in {b.file} : \E u \in Task : Live(u) /\ base[u].file = f}
    BY DEF NewNode
  <1>5. \A u \in Task : Live(u) /\ base[u].file = b.file => b.file \in met'
    BY <1>4
  <1>6. \A u \in Task : Live(u)' => u = t \/ Live(u)
    BY <1>1 DEF Live
  <1> QED BY <1>1, <1>3, <1>4, <1>5, <1>6 DEF Made

LEMMA EventMakes ==
  ASSUME Types, InotifyEvent, ~Ignored(Head(events))
  PROVE  \E t \in Task : /\ MadeByEvent(t) /\ UNCHANGED <<hashed, owner>>
                         /\ \A u \in Task : u # t /\ Live(u)' => Stays(u)
  <1> DEFINE e == Head(events)
             v == IF e.kind = "ADD" THEN ctime[e.file] ELSE now
             b == [file |-> e.file, kind |-> e.kind, ver |-> v]
  <1>1. PICK t \in Task : /\ b \in Request /\ v \in Time /\ NewNode(t, b, "WAIT_SYNC")
                          /\ ct' = [ct EXCEPT ![t] = v] /\ UNCHANGED <<hashed, owner>>
    BY EventNode, Zenon
  <1>2. v \in (-TaskTimeout) .. MaxTime /\ "WAIT_SYNC" \in Status
    BY <1>1, PoolAssumption DEF Time, Status
  <1>3. b.ver = v
    OBVIOUS
  <1> HIDE DEF b, v
  <1>4. /\ Made(t) /\ stat'[t] = "WAIT_SYNC" /\ base'[t] = b /\ ct'[t] = v
        /\ \A u \in Task : Live(u)' => u = t \/ Live(u)
    BY <1>1, <1>2, NodeIsMade
  <1>5. \A u \in Task : u # t /\ Live(u)' => Stays(u)
    BY <1>4 DEF Made, Stays, Live
  <1>6. MadeByEvent(t)
    BY <1>3, <1>4 DEF MadeByEvent, b, v
  <1> QED BY <1>1, <1>5, <1>6

LEMMA ScanMakes ==
  ASSUME Types, ScanFile, ctime[Head(scan.listed)[1]] # 0
  PROVE  \E t \in Task : /\ MadeByScan(t) /\ UNCHANGED <<hashed, owner>>
                         /\ \A u \in Task : u # t /\ Live(u)' => Stays(u)
  <1> DEFINE f == Head(scan.listed)[1]
             c == Head(scan.listed)[2] - TaskTimeout
             b == [file |-> f, kind |-> "ADD", ver |-> ctime[f]]
  <1>0. scan.listed # <<>> /\ "WAIT_SYNC" \in Status
    BY DEF ScanFile, Types, ScanTypes, ScanRec, Status
  <1>1. PICK t \in Task : /\ b \in Request /\ c \in (-TaskTimeout) .. MaxTime
                          /\ NewNode(t, b, "WAIT_SYNC")
                          /\ ct' = [ct EXCEPT ![t] = c] /\ UNCHANGED <<hashed, owner>>
    BY <1>0, ScanNode, Zenon
  <1> HIDE DEF b, c
  <1>4. /\ Made(t) /\ stat'[t] = "WAIT_SYNC" /\ base'[t] = b /\ ct'[t] = c
        /\ \A u \in Task : Live(u)' => u = t \/ Live(u)
    BY <1>0, <1>1, NodeIsMade
  <1>5. \A u \in Task : u # t /\ Live(u)' => Stays(u)
    BY <1>4 DEF Made, Stays, Live
  <1>6. MadeByScan(t)
    BY <1>0, <1>4 DEF MadeByScan, b, c
  <1> QED BY <1>1, <1>5, <1>6

LEMMA FetchMakes ==
  ASSUME Types, NEW f \in File, Wanted(f)
  PROVE  \E t \in Task : /\ MadeByFetch(t, f) /\ hashed' = hashed \union {t} /\ owner' = owner
                         /\ \A u \in Task : u # t /\ Live(u)' => Stays(u)
  <1> DEFINE b == [file |-> f, kind |-> "ADD", ver |-> 0]
  <1>1. PICK t \in Task : /\ b \in Request /\ NewNode(t, b, "WAIT") /\ ct' = [ct EXCEPT ![t] = 0]
                          /\ hashed' = hashed \union {t}
    BY FetchNode, Zenon
  <1>2. 0 \in (-TaskTimeout) .. MaxTime /\ "WAIT" \in Status
    BY PoolAssumption DEF Status
  <1> HIDE DEF b
  <1>4. /\ Made(t) /\ stat'[t] = "WAIT" /\ base'[t] = b /\ ct'[t] = 0
        /\ \A u \in Task : Live(u)' => u = t \/ Live(u)
    BY <1>1, <1>2, NodeIsMade
  <1>5. \A u \in Task : u # t /\ Live(u)' => Stays(u)
    BY <1>4 DEF Made, Stays, Live
  <1>6. MadeByFetch(t, f) /\ owner' = owner
    BY <1>1, <1>4 DEF MadeByFetch, b, Wanted
  <1> QED BY <1>1, <1>5, <1>6

LEMMA TaskOrigin ==
  ASSUME Types, RunIsFindable, Next, NEW t \in Task, Live(t)'
  PROVE  Stays(t) \/ MadeByEvent(t) \/ MadeByScan(t) \/ \E f \in File : MadeByFetch(t, f)
  <1>0. stat \in [Task -> Status] /\ base \in [Task -> Request \union {Blank}]
        /\ ct \in [Task -> (-TaskTimeout) .. MaxTime]
    BY DEF Types, TaskTypes
  <1>1. ASSUME InotifyEvent PROVE Stays(t) \/ MadeByEvent(t)
    <2>1. CASE Ignored(Head(events))
      BY <1>1, <2>1 DEF InotifyEvent, taskVars, Stays, Live
    <2>2. CASE ~Ignored(Head(events))
      BY <1>1, <2>2, EventMakes
    <2> QED BY <2>1, <2>2
  <1>2. ASSUME ScanFile PROVE Stays(t) \/ MadeByScan(t)
    <2>1. CASE ctime[Head(scan.listed)[1]] = 0
      BY <1>2, <2>1 DEF ScanFile, taskVars, Stays, Live
    <2>2. CASE ctime[Head(scan.listed)[1]] # 0
      BY <1>2, <2>2, ScanMakes
    <2> QED BY <2>1, <2>2
  <1>3. ASSUME NEW f \in File, Wanted(f) PROVE Stays(t) \/ MadeByFetch(t, f)
    BY <1>3, FetchMakes
  <1>4. ASSUME NEW u \in Task, Expire(u) \/ AgentReap(u) PROVE Stays(t)
    BY <1>0, <1>4 DEF Expire, AgentReap, Relist, Stays, Live
  <1>5. ASSUME NEW u \in Task, TryDispatch(u) \/ FinTask(u) PROVE Stays(t)
    BY <1>0, <1>5 DEF TryDispatch, NoPeer, Dispatch, FinTask, Relist, Waiting, Stays, Live
  <1>6. ASSUME NEW u \in Task, FetchOk(u) PROVE Stays(t)
    <2>1. stat[u] = "WAIT" /\ stat' = Relist({u}, "FIN") /\ UNCHANGED <<base, ct>>
      BY <1>6 DEF FetchOk, Fetched
    <2> QED BY <1>0, <1>6, <2>1 DEF Relist, Stays, Live
  <1>7. ASSUME NEW u \in Task, FetchFails(u) PROVE Stays(t)
    <2>1. stat[u] = "WAIT" /\ stat' = Relist({u}, "FIN") /\ UNCHANGED <<base, ct>>
      BY <1>7 DEF FetchFails, Fetched
    <2> QED BY <1>0, <1>7, <2>1 DEF Relist, Stays, Live
  <1>8. ASSUME NEW p \in Tracker, NEW r \in Request, Answer(p, r) PROVE Stays(t)
    BY <1>0, <1>8 DEF Answer, UnknownAnswer, FinalAnswer, taskVars, Relist, Stays, Live
  <1>9. ASSUME TickBegin PROVE Stays(t)
    BY <1>0, <1>9 DEF TickBegin, Requeued, Relist, Stays, Live
  <1>10. ASSUME Crash PROVE FALSE
    BY <1>10 DEF Crash, Live
  <1>11. UNCHANGED taskVars => Stays(t)
    BY <1>0 DEF taskVars, Stays, Live
  <1>12. ASSUME NEW p \in Tracker, Close(p) PROVE Stays(t)
    BY <1>0, <1>12, PoolAssumption
       DEF Close, Refreshed, TasksOf, Relist, RunIsFindable, Stays, Live
  <1> QED BY <1>1, <1>2, <1>3, <1>4, <1>5, <1>6, <1>7, <1>8, <1>9, <1>10, <1>11, <1>12
     DEF Next, Clock, Write, Unlink, ScanBegin, ScanEnd, TickEnd, TrackerForgets, Login, Start,
         AddWatch, SetStartTime, SetOffline, SetOnline, SyncCommand, ActiveSync,
         AddToSyncDirList, NotWanted, ScanSyncDirList, taskVars

----------------------------------------------------------------------------
(* What changes a file, what is owed about it and the events about it      *)

About(f) == \E i \in DOMAIN events : events[i].file = f

(* A change by a user, and one by a fetch.                                 *)
ByUser(f) == Write(f) \/ Unlink(f)
ByFetch(f) == \E t \in Task : FetchOk(t) /\ stat[t] = "WAIT" /\ base[t].file = f

LEMMA UserWaits ==
  ASSUME Apart, NEW f \in File, ByUser(f)
  PROVE  Settled(f)
  BY DEF Apart, ByUser, Write, Unlink

LEMMA CtimeChange ==
  ASSUME Types, Next, NEW f \in File, ctime'[f] # ctime[f]
  PROVE  \/ Write(f) /\ ctime'[f] = now /\ ctime[f] # now /\ now' = now
         \/ Unlink(f) /\ ctime'[f] = 0 /\ ctime[f] # 0 /\ now' = now + 1
         \/ ByFetch(f) /\ ctime'[f] = now /\ ctime[f] # now /\ now' = now
  <1>0. ctime \in [File -> Time]
    BY DEF Types, TimeTypes
  <1>1. ASSUME NEW g \in File, Write(g)
        PROVE  Write(f) /\ ctime'[f] = now /\ ctime[f] # now /\ now' = now
    <2>1. ctime' = [ctime EXCEPT ![g] = now] /\ ctime[g] # now /\ now' = now
      BY <1>1 DEF Write
    <2>2. f = g
      BY <1>0, <2>1
    <2> QED BY <1>0, <1>1, <2>1, <2>2
  <1>2. ASSUME NEW g \in File, Unlink(g)
        PROVE  Unlink(f) /\ ctime'[f] = 0 /\ ctime[f] # 0 /\ now' = now + 1
    <2>1. ctime' = [ctime EXCEPT ![g] = 0] /\ ctime[g] # 0 /\ now' = now + 1
      BY <1>2 DEF Unlink
    <2>2. f = g
      BY <1>0, <2>1
    <2> QED BY <1>0, <1>2, <2>1, <2>2
  <1>3. ASSUME NEW t \in Task, FetchOk(t)
        PROVE  ByFetch(f) /\ ctime'[f] = now /\ ctime[f] # now /\ now' = now
    <2> DEFINE g == base[t].file
    <2>1. ctime' = [ctime EXCEPT ![g] = now] /\ ctime[g] # now /\ now' = now /\ stat[t] = "WAIT"
      BY <1>3 DEF FetchOk, Fetched
    <2>2. f = g
      BY <1>0, <2>1
    <2> QED BY <1>0, <1>3, <2>1, <2>2 DEF ByFetch
  <1>4. ctime' = ctime \/ (\E g \in File : Write(g) \/ Unlink(g)) \/ \E t \in Task : FetchOk(t)
    BY ZenonT(30) DEF Next, Clock, InotifyEvent, ScanBegin, ScanFile, ScanEnd, TickBegin, TickEnd, TryDispatch,
         NoPeer, Dispatch, Expire, AgentReap, Answer, UnknownAnswer, FinalAnswer, Relay,
         TrackerForgets, Login, Close, Crash, Start, AddWatch, SetStartTime, SetOffline,
         SetOnline, SyncCommand, ActiveSync, AddToSyncDirList, NotWanted, Wanted,
         ScanSyncDirList, FetchFails, FinTask, diskVars
  <1> QED BY <1>1, <1>2, <1>3, <1>4

LEMMA OwedGrows ==
  ASSUME Types, Next, NEW p \in Tracker, NEW r \in Request, owed'[p][r] > owed[p][r]
  PROVE  \E t \in Task : Dispatch(t, p) /\ base[t] = r
  <1>0. NetTypes
    BY DEF Types
  <1>1. ASSUME NEW t \in Task, NEW q \in Tracker, Dispatch(t, q)
        PROVE  q = p /\ base[t] = r
    <2>1. base[t] \in Request
      BY <1>1 DEF Dispatch, Types, LiveIsMade, Live
    <2> DEFINE n == owed[q][base[t]] + Answers
    <2>2. n \in Nat
      BY <1>0, <2>1, PoolAssumption DEF NetTypes
    <2>3. owed' = [owed EXCEPT ![q][base[t]] = n]
      BY <1>1 DEF Dispatch
    <2> HIDE DEF n
    <2>4. owed'[p][r] = IF p = q /\ r = base[t] THEN n ELSE owed[p][r]
      BY <1>0, <2>1, <2>2, <2>3, OwedChange
    <2>5. owed[p][r] \in Nat
      BY <1>0 DEF NetTypes
    <2> QED BY <2>4, <2>5
  <1>2. ASSUME NEW q \in Tracker, NEW s \in Request, Answer(q, s) \/ TrackerForgets(q, s)
        PROVE  FALSE
    <2>1. owed[q][s] > 0 /\ owed' = [owed EXCEPT ![q][s] = @ - 1]
      BY <1>2 DEF Answer, UnknownAnswer, FinalAnswer, Relay, TrackerForgets
    <2>2. owed[q][s] - 1 \in Nat
      BY <1>0, <2>1 DEF NetTypes
    <2>3. owed'[p][r] = IF p = q /\ r = s THEN owed[q][s] - 1 ELSE owed[p][r]
      BY <1>0, <2>1, <2>2, OwedChange
    <2>4. owed[p][r] \in Nat
      BY <1>0 DEF NetTypes
    <2> QED BY <2>3, <2>4
  <1>3. owed' # owed
    BY <1>0 DEF NetTypes
  <1>4. \/ \E t \in Task, q \in Tracker : Dispatch(t, q)
        \/ \E q \in Tracker, s \in Request : Answer(q, s) \/ TrackerForgets(q, s)
    BY <1>3 DEF Next, Clock, Write, Unlink, InotifyEvent, ScanBegin, ScanFile, ScanEnd, TickBegin,
         TickEnd, TryDispatch, NoPeer, Expire, AgentReap, Login, Close, Crash, Start, AddWatch,
         SetStartTime, SetOffline, SetOnline, SyncCommand, ActiveSync, AddToSyncDirList,
         NotWanted, Wanted, ScanSyncDirList, FetchOk, FetchFails, FinTask, netVars
  <1> QED BY <1>1, <1>2, <1>4

LEMMA OwedFalls ==
  ASSUME Types, Next, NEW p \in Tracker, NEW r \in Request, owed'[p][r] < owed[p][r]
  PROVE  Answer(p, r) \/ p \notin login
  <1>0. NetTypes
    BY DEF Types
  <1>1. ASSUME NEW t \in Task, NEW q \in Tracker, Dispatch(t, q)
        PROVE  FALSE
    <2>1. base[t] \in Request
      BY <1>1 DEF Dispatch, Types, LiveIsMade, Live
    <2> DEFINE n == owed[q][base[t]] + Answers
    <2>2. n \in Nat /\ n >= owed[q][base[t]]
      BY <1>0, <2>1, PoolAssumption DEF NetTypes
    <2>3. owed' = [owed EXCEPT ![q][base[t]] = n]
      BY <1>1 DEF Dispatch
    <2> HIDE DEF n
    <2>4. owed'[p][r] = IF p = q /\ r = base[t] THEN n ELSE owed[p][r]
      BY <1>0, <2>1, <2>2, <2>3, OwedChange
    <2>5. owed[p][r] \in Nat
      BY <1>0 DEF NetTypes
    <2> QED BY <2>2, <2>4, <2>5
  <1>2. ASSUME NEW q \in Tracker, NEW s \in Request, Answer(q, s) \/ TrackerForgets(q, s)
        PROVE  p = q /\ r = s
    <2>1. owed[q][s] > 0 /\ owed' = [owed EXCEPT ![q][s] = @ - 1]
      BY <1>2 DEF Answer, UnknownAnswer, FinalAnswer, Relay, TrackerForgets
    <2>2. owed[q][s] - 1 \in Nat
      BY <1>0, <2>1 DEF NetTypes
    <2>3. owed'[p][r] = IF p = q /\ r = s THEN owed[q][s] - 1 ELSE owed[p][r]
      BY <1>0, <2>1, <2>2, OwedChange
    <2>4. owed[p][r] \in Nat
      BY <1>0 DEF NetTypes
    <2> QED BY <2>3, <2>4
  <1>3. owed' # owed
    BY <1>0 DEF NetTypes
  <1>4. \/ \E t \in Task, q \in Tracker : Dispatch(t, q)
        \/ \E q \in Tracker, s \in Request : Answer(q, s) \/ TrackerForgets(q, s)
    BY <1>3 DEF Next, Clock, Write, Unlink, InotifyEvent, ScanBegin, ScanFile, ScanEnd, TickBegin,
         TickEnd, TryDispatch, NoPeer, Expire, AgentReap, Login, Close, Crash, Start, AddWatch,
         SetStartTime, SetOffline, SetOnline, SyncCommand, ActiveSync, AddToSyncDirList,
         NotWanted, Wanted, ScanSyncDirList, FetchOk, FetchFails, FinTask, netVars
  <1> QED BY <1>1, <1>2, <1>4 DEF TrackerForgets

(* The queue: one event more, about a file that changes, or one less, or   *)
(* none left.                                                              *)
Queued(f, k) == /\ events' = Append(events, [file |-> f, kind |-> k]) /\ watch
                /\ \/ Write(f) /\ k = "ADD"
                   \/ Unlink(f) /\ k = "DEL"
                   \/ ByFetch(f) /\ k = "ADD"

LEMMA EventChange ==
  ASSUME Types, Next
  PROVE  \/ events' = events \/ (events' = <<>> /\ Crash)
         \/ InotifyEvent /\ events # <<>> /\ events' = Tail(events)
         \/ \E f \in File, k \in Kind : Queued(f, k)
  <1>1. ASSUME NEW f \in File, Write(f) \/ Unlink(f)
        PROVE  events' = events \/ \E k \in Kind : Queued(f, k)
    <2>1. CASE Write(f)
      <3>1. events' = events \/ (watch /\ events' = Append(events, [file |-> f, kind |-> "ADD"]))
        BY <2>1 DEF Write, Notify
      <3> QED BY <2>1, <3>1 DEF Queued, Kind
    <2>2. CASE Unlink(f)
      <3>1. events' = events \/ (watch /\ events' = Append(events, [file |-> f, kind |-> "DEL"]))
        BY <2>2 DEF Unlink, Notify
      <3> QED BY <2>2, <3>1 DEF Queued, Kind
    <2> QED BY <1>1, <2>1, <2>2
  <1>2. ASSUME NEW t \in Task, FetchOk(t)
        PROVE  events' = events \/ \E f \in File, k \in Kind : Queued(f, k)
    <2>1. base[t].file \in File /\ stat[t] = "WAIT"
      BY <1>2 DEF Types, LiveIsMade, Live, FetchOk, Fetched, Request
    <2>2. events' = events \/ (watch /\ events' = Append(events, [file |-> base[t].file, kind |-> "ADD"]))
      BY <1>2 DEF FetchOk, Notify
    <2> QED BY <1>2, <2>1, <2>2 DEF Queued, ByFetch, Kind
  <1>4. Crash => events' = <<>>
    BY DEF Crash
  <1>3. \/ events' = events \/ (events' = <<>> /\ Crash)
        \/ InotifyEvent /\ events # <<>> /\ events' = Tail(events)
        \/ (\E g \in File : Write(g) \/ Unlink(g)) \/ \E t \in Task : FetchOk(t)
    BY <1>4, ZenonT(30) DEF Next, Clock, InotifyEvent, ScanBegin, ScanFile, ScanEnd, TickBegin, TickEnd, TryDispatch,
         NoPeer, Dispatch, Expire, AgentReap, Answer, UnknownAnswer, FinalAnswer, Relay,
         TrackerForgets, Login, Close, Start, AddWatch, SetStartTime, SetOffline,
         SetOnline, SyncCommand, ActiveSync, AddToSyncDirList, NotWanted, Wanted,
         ScanSyncDirList, FetchFails, FinTask
  <1> QED BY <1>1, <1>2, <1>3

----------------------------------------------------------------------------
(* The inductive invariant                                                 *)

(* A second task of a file is remembered in met.                           *)
OneEach ==
    \A t, u \in Task : Live(t) /\ Live(u) /\ base[t].file = base[u].file
                         => t = u \/ base[t].file \in met

(* A file that is being fetched has this task and no other, nothing owed,  *)
(* no event but that of the fetch itself, and its entry or the step that   *)
(* makes it still to come.                                                 *)
FetchIsAlone ==
    \A t \in Fetching :
      /\ t \in hashed /\ base[t].kind = "ADD" /\ base[t].ver = 0 /\ ct[t] = 0
      /\ \A u \in Task : Live(u) /\ base[u].file = base[t].file => u = t
      /\ \A p \in Tracker, r \in Request : r.file = base[t].file => owed[p][r] = 0
      /\ About(base[t].file) =>
           /\ stat[t] = "FIN" /\ ctime[base[t].file] # 0
           /\ <<base[t].file, ctime[base[t].file]>> \in fetched
      /\ stat[t] = "WAIT" => adding = base[t].file \/ hidden[base[t].file] > 0
FetchIsQuiet == Fetching # {} => life = "up" /\ scan.mode = "none" /\ self # "UNKOWN_STAT"
AddingIsFetched ==
    adding # NoFile => /\ \E t \in Task : stat[t] = "WAIT" /\ base[t].file = adding
                       /\ hidden[adding] > 0 => adding \in stray
Fetches == FetchIsAlone /\ FetchIsQuiet /\ AddingIsFetched

(* What is under way about a file is about the file as it is.              *)
OneEvent == \A i, j \in DOMAIN events : events[i].file = events[j].file => i = j
DelIsGone == \A i \in DOMAIN events : events[i].kind = "DEL" => ctime[events[i].file] = 0
OwedIsCurrent ==
    \A p \in Tracker, r \in Request : owed[p][r] > 0 /\ r.kind = "ADD" => r.ver = ctime[r.file]
TaskIsCurrent ==
    \A t \in Task : Live(t) /\ t \notin Fetching /\ base[t].kind = "ADD" =>
        base[t].ver = ctime[base[t].file] /\ ct[t] =< base[t].ver
Current == OneEvent /\ DelIsGone /\ OwedIsCurrent /\ TaskIsCurrent

(* The times known are not ahead of the clock, those the scan has listed   *)
(* not ahead of the file.                                                  *)
TimesArePast == /\ stamp =< now /\ started =< now /\ \A f \in File : ctime[f] =< now
                /\ \A a \in fetched : a[2] =< now
                /\ \A f \in File : <<f, now>> \in fetched => ctime[f] = now
ScanIsPast ==
    \A i \in DOMAIN scan.listed :
        /\ scan.listed[i][2] =< now
        /\ ctime[scan.listed[i][1]] = 0 \/ scan.listed[i][2] =< ctime[scan.listed[i][1]]
ScanIsIdle == scan.mode \in {"none", "start"} => scan.left = 0
Times == TimesArePast /\ ScanIsPast /\ ScanIsIdle

(* The change of a fetch is hidden, and what hides is due.                 *)
EchoIsHidden ==
    \A f \in File : About(f) /\ ctime[f] # 0 /\ <<f, ctime[f]>> \in fetched => hidden[f] > 0
HiddenIsDue ==
    \A f \in File : hidden[f] > 0 /\ f \notin stray =>
      /\ hidden[f] = 1
      /\ \/ \E t \in Task : stat[t] = "WAIT" /\ base[t].file = f
         \/ Noticed(f) /\ <<f, ctime[f]>> \in fetched
EchoIsSilent ==
    \A t \in Task : Live(t) /\ t \notin Fetching /\ ct[t] = base[t].ver =>
        <<base[t].file, base[t].ver>> \notin fetched
Hides == EchoIsHidden /\ HiddenIsDue /\ (TaskTimeout > 0 => EchoIsSilent)

DownIsBlank ==
    life = "down" => /\ \A t \in Task : stat[t] = "HOME"
                     /\ events = <<>> /\ login = {} /\ ~watch /\ started = 0 /\ self = "ON_LINE"
                     /\ scan.mode = "none" /\ adding = NoFile

Pool == OneEach /\ RunIsFindable /\ RestIsUnhashed /\ RunIsAwaited

IInv == Types /\ Pool /\ Fetches /\ Current /\ Times /\ Hides /\ DownIsBlank /\ StampIsEarned

LEMMA InitIInv == Init => IInv
  <1> SUFFICES ASSUME Init PROVE IInv
    OBVIOUS
  <1>1. Types
    BY InitTypes
  <1>2. Pool /\ Fetches /\ DownIsBlank
    BY DEF Init, Pool, OneEach, RunIsFindable, RestIsUnhashed, RunIsAwaited, Live, Fetches,
           FetchIsAlone, FetchIsQuiet, AddingIsFetched, Fetching, DownIsBlank
  <1>3. Current
    BY PoolAssumption DEF Init, Current, OneEvent, DelIsGone, OwedIsCurrent, TaskIsCurrent, Live
  <1>4. Times
    <2>1. TimesArePast
      BY PoolAssumption DEF Init, TimesArePast
    <2>2. ScanIsPast /\ ScanIsIdle
      BY DEF Init, NoScan, ScanIsPast, ScanIsIdle
    <2> QED BY <2>1, <2>2 DEF Times
  <1>5. Hides
    BY DEF Init, Hides, EchoIsHidden, HiddenIsDue, EchoIsSilent, Live, About
  <1>6. StampIsEarned
    BY DEF Init, StampIsEarned
  <1> QED BY <1>1, <1>2, <1>3, <1>4, <1>5, <1>6 DEF IInv

(* A node is in alltask until it is put to rest or dispatched anew.        *)
LEMMA FinRemoves ==
  ASSUME IInv, NEW t \in Task, FinTask(t)
  PROVE  hashed' = hashed \ {t} /\ t \in Fetching
  <1>1. t \in Fetching /\ hashed \subseteq Task
    BY DEF FinTask, Fetching, IInv, Types, TaskTypes
  <1>2. /\ t \in hashed
        /\ \A u \in Task : Live(u) /\ base[u].file = base[t].file => u = t
    BY <1>1 DEF IInv, Fetches, FetchIsAlone
  <1>3. \A u \in hashed : Live(u)
    BY <1>1 DEF IInv, Pool, RestIsUnhashed
  <1>4. Match(base[t]) = {t}
    BY <1>1, <1>2, <1>3 DEF Match
  <1>5. {u \in Match(base[t]) : u = CHOOSE v \in Match(base[t]) : TRUE} = {t}
    BY <1>4
  <1> QED BY <1>1, <1>5 DEF FinTask

LEMMA HashedOrigin ==
  ASSUME IInv, Next, NEW t \in Task
  PROVE  /\ t \in hashed /\ Live(t)' => t \in hashed'
         /\ t \in hashed' => /\ Live(t)'
                             /\ t \in hashed \/ stat'[t] = "RUN" \/ \E f \in File : Wanted(f)
  <1>0. stat \in [Task -> Status] /\ hashed \subseteq Task /\ RestIsUnhashed /\ RunIsFindable
    BY DEF IInv, Types, TaskTypes, Pool
  <1> DEFINE Goal == /\ t \in hashed /\ Live(t)' => t \in hashed'
                     /\ t \in hashed' =>
                          /\ Live(t)'
                          /\ t \in hashed \/ stat'[t] = "RUN" \/ \E f \in File : Wanted(f)
  <1>1. ASSUME InotifyEvent PROVE Goal
    <2>1. CASE Ignored(Head(events))
      BY <1>0, <1>1, <2>1 DEF InotifyEvent, taskVars, RestIsUnhashed, Live
    <2>2. CASE ~Ignored(Head(events))
      <3>1. PICK u \in Task : MadeByEvent(u) /\ hashed' = hashed
        BY <1>1, <2>2, EventMakes DEF IInv
      <3> QED BY <1>0, <3>1 DEF MadeByEvent, Made, RestIsUnhashed, Live
    <2> QED BY <2>1, <2>2
  <1>2. ASSUME ScanFile PROVE Goal
    <2>1. CASE ctime[Head(scan.listed)[1]] = 0
      BY <1>0, <1>2, <2>1 DEF ScanFile, taskVars, RestIsUnhashed, Live
    <2>2. CASE ctime[Head(scan.listed)[1]] # 0
      <3>1. PICK u \in Task : MadeByScan(u) /\ hashed' = hashed
        BY <1>2, <2>2, ScanMakes DEF IInv
      <3> QED BY <1>0, <3>1 DEF MadeByScan, Made, RestIsUnhashed, Live
    <2> QED BY <2>1, <2>2
  <1>3. ASSUME NEW f \in File, Wanted(f) PROVE Goal
    <2>1. PICK u \in Task : MadeByFetch(u, f) /\ hashed' = hashed \union {u}
      BY <1>3, FetchMakes DEF IInv
    <2> QED BY <1>0, <1>3, <2>1 DEF MadeByFetch, Made, RestIsUnhashed, Live
  <1>4. ASSUME NEW u \in Task, Expire(u) \/ AgentReap(u) PROVE Goal
    BY <1>0, <1>4 DEF Expire, AgentReap, NotInAllTask, Relist, RestIsUnhashed, Live
  <1>5. ASSUME NEW u \in Task, FinTask(u) PROVE Goal
    <2>1. hashed' = hashed \ {u} /\ stat' = Relist({u}, "CLEAN")
      BY <1>5, FinRemoves DEF FinTask
    <2> QED BY <1>0, <2>1 DEF Relist, RestIsUnhashed, Live
  <1>6. ASSUME NEW u \in Task, TryDispatch(u) PROVE Goal
    BY <1>0, <1>6 DEF TryDispatch, NoPeer, Dispatch, AddToAllTask, Waiting, Relist, RestIsUnhashed, Live
  <1>7. ASSUME NEW u \in Task, FetchOk(u) PROVE Goal
    <2>1. stat[u] = "WAIT" /\ stat' = Relist({u}, "FIN") /\ hashed' = hashed
      BY <1>7 DEF FetchOk, Fetched
    <2> QED BY <1>0, <2>1 DEF Relist, RestIsUnhashed, Live
  <1>8. ASSUME NEW u \in Task, FetchFails(u) PROVE Goal
    <2>1. stat[u] = "WAIT" /\ stat' = Relist({u}, "FIN") /\ hashed' = hashed
      BY <1>8 DEF FetchFails, Fetched
    <2> QED BY <1>0, <2>1 DEF Relist, RestIsUnhashed, Live
  <1>9. ASSUME NEW p \in Tracker, NEW r \in Request, Answer(p, r) PROVE Goal
    BY <1>0, <1>9 DEF Answer, UnknownAnswer, FinalAnswer, NotInAllTask, taskVars, Relist, RestIsUnhashed, Live
  <1>10. ASSUME TickBegin PROVE Goal
    BY <1>0, <1>10 DEF TickBegin, Requeued, Relist, RestIsUnhashed, Live
  <1>11. ASSUME Crash PROVE Goal
    BY <1>11 DEF Crash, Live
  <1>12. ASSUME NEW p \in Tracker, Close(p) PROVE Goal
    BY <1>0, <1>12, PoolAssumption
       DEF Close, Refreshed, TasksOf, Relist, RunIsFindable, RestIsUnhashed, Live
  <1>13. UNCHANGED taskVars => Goal
    BY <1>0 DEF taskVars, RestIsUnhashed, Live
  <1> HIDE DEF Goal
  <1>14. Goal
    BY <1>1, <1>2, <1>3, <1>4, <1>5, <1>6, <1>7, <1>8, <1>9, <1>10, <1>11, <1>12, <1>13
     DEF Next, Clock, Write, Unlink, ScanBegin, ScanEnd, TickEnd, TrackerForgets, Login, Start,
         AddWatch, SetStartTime, SetOffline, SetOnline, SyncCommand, ActiveSync,
         AddToSyncDirList, NotWanted, ScanSyncDirList, taskVars
  <1> QED BY <1>14 DEF Goal

----------------------------------------------------------------------------
(* The pool                                                                *)

LEMMA MetGrows == ASSUME Types, Next PROVE met \subseteq met'
  BY DEF Next, Clock, Write, Unlink, InotifyEvent, ScanBegin, ScanFile, ScanEnd, TickBegin,
         TickEnd, TryDispatch, NoPeer, Dispatch, Expire, AgentReap, Answer, UnknownAnswer,
         FinalAnswer, TrackerForgets, Login, Close, Crash, Start, AddWatch, SetStartTime,
         SetOffline, SetOnline, SyncCommand, ActiveSync, AddToSyncDirList, NotWanted, Wanted,
         ScanSyncDirList, FetchOk, FetchFails, FinTask, NewTask, NewNode, taskVars

LEMMA OneEachStep == ASSUME IInv, Next PROVE OneEach'
  <1> SUFFICES ASSUME NEW t \in Task, NEW u \in Task, Live(t)', Live(u)', t # u,
                      base'[t].file = base'[u].file
               PROVE  base'[t].file \in met'
    BY DEF OneEach
  <1>1. Stays(t) \/ Made(t)
    BY TaskOrigin DEF IInv, Pool, MadeByEvent, MadeByScan, MadeByFetch
  <1>2. Stays(u) \/ Made(u)
    BY TaskOrigin DEF IInv, Pool, MadeByEvent, MadeByScan, MadeByFetch
  <1>3. CASE Stays(t) /\ Stays(u)
    BY <1>3, MetGrows DEF Stays, IInv, Pool, OneEach
  <1>4. CASE Made(t) /\ Stays(u)
    BY <1>4 DEF Made, Stays
  <1>5. CASE Stays(t) /\ Made(u)
    BY <1>5 DEF Made, Stays
  <1>6. CASE Made(t) /\ Made(u)
    BY <1>6 DEF Made, Live
  <1> QED BY <1>1, <1>2, <1>3, <1>4, <1>5, <1>6

LEMMA RestIsUnhashedStep == ASSUME IInv, Next PROVE RestIsUnhashed'
  BY HashedOrigin DEF RestIsUnhashed

LEMMA RunOrigin ==
  ASSUME IInv, Next, NEW t \in Task
  PROVE  /\ stat'[t] = "RUN" => /\ owner'[t] \in login'
                                /\ \/ stat[t] = "RUN" /\ owner'[t] = owner[t]
                                   \/ \E p \in Tracker : Dispatch(t, p)
         /\ stat'[t] # "RUN" => owner'[t] = NoTracker
  <1>0. /\ stat \in [Task -> Status] /\ owner \in [Task -> Tracker \union {NoTracker}]
        /\ login \subseteq Tracker /\ RunIsFindable
    BY DEF IInv, Types, TaskTypes, NetTypes, Pool
  <1> DEFINE Owned == /\ stat'[t] = "RUN" => owner'[t] \in login'
                      /\ stat'[t] # "RUN" => owner'[t] = NoTracker
             Found == stat'[t] = "RUN" => \/ stat[t] = "RUN" /\ owner'[t] = owner[t]
                                          \/ \E p \in Tracker : Dispatch(t, p)
  <1>1. ASSUME InotifyEvent PROVE Owned /\ Found
    <2>1. CASE Ignored(Head(events))
      BY <1>0, <1>1, <2>1 DEF InotifyEvent, taskVars, netVars, RunIsFindable
    <2>2. CASE ~Ignored(Head(events))
      <3>1. PICK u \in Task : MadeByEvent(u) /\ owner' = owner
        BY <1>1, <2>2, EventMakes DEF IInv
      <3>2. login' = login
        BY <1>1 DEF InotifyEvent, netVars
      <3> QED BY <1>0, <3>1, <3>2 DEF MadeByEvent, Made, RunIsFindable
    <2> QED BY <2>1, <2>2
  <1>2. ASSUME ScanFile PROVE Owned /\ Found
    <2>1. CASE ctime[Head(scan.listed)[1]] = 0
      BY <1>0, <1>2, <2>1 DEF ScanFile, taskVars, netVars, RunIsFindable
    <2>2. CASE ctime[Head(scan.listed)[1]] # 0
      <3>1. PICK u \in Task : MadeByScan(u) /\ owner' = owner
        BY <1>2, <2>2, ScanMakes DEF IInv
      <3>2. login' = login
        BY <1>2 DEF ScanFile, netVars
      <3> QED BY <1>0, <3>1, <3>2 DEF MadeByScan, Made, RunIsFindable
    <2> QED BY <2>1, <2>2
  <1>3. ASSUME NEW f \in File, Wanted(f) PROVE Owned /\ Found
    <2>1. PICK u \in Task : MadeByFetch(u, f) /\ owner' = owner
      BY <1>3, FetchMakes DEF IInv
    <2>2. login' = login
      BY <1>3 DEF Wanted, netVars
    <2> QED BY <1>0, <2>1, <2>2 DEF MadeByFetch, Made, RunIsFindable
  <1>4. ASSUME NEW u \in Task, Expire(u) \/ AgentReap(u) PROVE Owned /\ Found
    BY <1>0, <1>4 DEF Expire, AgentReap, Relist, netVars, RunIsFindable
  <1>5. ASSUME NEW u \in Task, NoPeer(u) PROVE Owned /\ Found
    BY <1>0, <1>5 DEF NoPeer, Waiting, Relist, netVars, RunIsFindable
  <1>14. ASSUME NEW u \in Task, NEW p \in Tracker, Dispatch(u, p) PROVE Owned /\ Found
    BY <1>0, <1>14 DEF Dispatch, UsePeer, Relist, netVars, RunIsFindable
  <1>6. ASSUME NEW u \in Task, FetchOk(u) \/ FetchFails(u) \/ FinTask(u) PROVE Owned /\ Found
    <2>1. /\ stat[u] \in {"WAIT", "FIN"} /\ UNCHANGED <<owner, login>>
          /\ stat' = Relist({u}, "FIN") \/ stat' = Relist({u}, "CLEAN")
      BY <1>6 DEF FetchOk, FetchFails, Fetched, FinTask, netVars
    <2> QED BY <1>0, <2>1 DEF Relist, RunIsFindable
  <1>7. ASSUME NEW p \in Tracker, NEW r \in Request, Answer(p, r) PROVE Owned /\ Found
    BY <1>0, <1>7 DEF Answer, UnknownAnswer, FinalAnswer, taskVars, Relist, RunIsFindable
  <1>8. ASSUME TickBegin PROVE Owned /\ Found
    BY <1>0, <1>8 DEF TickBegin, Requeued, Relist, netVars, RunIsFindable
  <1>9. ASSUME Crash PROVE Owned /\ Found
    BY <1>9 DEF Crash
  <1>10. ASSUME NEW p \in Tracker, Close(p) PROVE Owned /\ Found
    BY <1>0, <1>10, PoolAssumption
       DEF Close, Refreshed, TasksOf, Relist, RunIsFindable
  <1>11. ASSUME NEW p \in Tracker, Login(p) PROVE Owned /\ Found
    BY <1>0, <1>11 DEF Login, taskVars, RunIsFindable
  <1>12. UNCHANGED taskVars /\ UNCHANGED login => Owned /\ Found
    BY <1>0 DEF taskVars, RunIsFindable
  <1> HIDE DEF Owned, Found
  <1>13. Owned /\ Found
    BY <1>1, <1>2, <1>3, <1>4, <1>5, <1>6, <1>7, <1>8, <1>9, <1>10, <1>11, <1>12, <1>14
     DEF Next, Clock, Write, Unlink, ScanBegin, ScanEnd, TickEnd, TrackerForgets, Start, TryDispatch,
         AddWatch, SetStartTime, SetOffline, SetOnline, SyncCommand, ActiveSync,
         AddToSyncDirList, NotWanted, ScanSyncDirList, taskVars, netVars
  <1> QED BY <1>13 DEF Owned, Found

LEMMA RunIsFindableStep == ASSUME IInv, Next PROVE RunIsFindable'
  <1> SUFFICES ASSUME NEW t \in Task, stat'[t] = "RUN" PROVE t \in hashed'
    BY RunOrigin DEF RunIsFindable
  <1>1. CASE stat[t] = "RUN"
    <2>1. t \in hashed /\ Live(t)'
      BY <1>1 DEF IInv, Pool, RunIsFindable, Live
    <2> QED BY <2>1, HashedOrigin
  <1>2. ASSUME NEW p \in Tracker, Dispatch(t, p) PROVE t \in hashed'
    BY <1>2 DEF Dispatch, AddToAllTask
  <1> QED BY <1>1, <1>2, RunOrigin

LEMMA RunIsAwaitedStep == ASSUME IInv, Next PROVE RunIsAwaited'
  <1>0. /\ stat \in [Task -> Status] /\ owner \in [Task -> Tracker \union {NoTracker}]
        /\ login \subseteq Tracker /\ RunIsFindable /\ RunIsAwaited /\ OneEach /\ RestIsUnhashed
        /\ hashed \subseteq Task /\ Types
    BY DEF IInv, Types, TaskTypes, NetTypes, Pool
  <1>1. owed' \in [Tracker -> [Request -> Nat]] /\ owed \in [Tracker -> [Request -> Nat]]
        /\ login' \subseteq Tracker
    BY <1>0, NetTypesStep DEF NetTypes, Types
  <1> SUFFICES ASSUME NEW t \in Task, stat'[t] = "RUN", base'[t].file \notin met'
               PROVE  owner'[t] \in login' /\ owed'[owner'[t]][base'[t]] > 0
    BY <1>1 DEF RunIsAwaited
  <1>2. owner'[t] \in login'
    BY RunIsFindableStep DEF RunIsFindable
  <1>3. Stays(t) /\ base'[t] = base[t] /\ base[t] \in Request
    BY <1>0, TaskOrigin DEF MadeByEvent, MadeByScan, MadeByFetch, Stays, Live, Types, LiveIsMade
  <1>4. CASE stat[t] # "RUN"
    <2>1. \E p \in Tracker : Dispatch(t, p)
      BY <1>4, RunOrigin
    <2>2. PICK p \in Tracker : Dispatch(t, p)
      BY <2>1
    <2>3. owner'[t] = p
      BY <1>0, <2>2 DEF Dispatch
    <2>4. owed' = [owed EXCEPT ![p][base[t]] = owed[p][base[t]] + Answers]
      BY <2>2 DEF Dispatch
    <2>5. owed[p][base[t]] + Answers \in Nat /\ owed[p][base[t]] + Answers > 0
      <3>1. owed[p] \in [Request -> Nat]
        BY <1>1
      <3>2. owed[p][base[t]] \in Nat
        BY <1>3, <3>1
      <3> QED BY <3>2, PoolAssumption
    <2> DEFINE n == owed[p][base[t]] + Answers
    <2> HIDE DEF n
    <2>6. owed'[p][base[t]] = n
      BY <1>0, <1>3, <2>4, <2>5, OwedChange DEF n, Types
    <2> QED BY <1>2, <1>3, <2>3, <2>5, <2>6 DEF n
  <1>5. CASE stat[t] = "RUN"
    <2>1. owner[t] \in login /\ owed[owner[t]][base[t]] > 0
      BY <1>0, <1>3, <1>5, MetGrows DEF RunIsAwaited
    <2>2. owner'[t] = owner[t]
      BY <1>5, RunOrigin DEF Dispatch
    <2>3. ASSUME Answer(owner[t], base[t]) PROVE FALSE
      <3>1. t \in Match(base[t])
        BY <1>0, <1>5 DEF RunIsFindable, Match
      <3>2. PICK u \in Task : FinalAnswer(owner[t], base[t], u)
        BY <2>3, <3>1 DEF Answer, UnknownAnswer
      <3>3. Live(u) /\ base[u].file = base[t].file
        BY <1>0, <3>2 DEF FinalAnswer, Match, RestIsUnhashed
      <3>4. u # t
        BY <1>0, <3>2 DEF FinalAnswer, Relist
      <3>5. base[t].file \in met
        BY <1>0, <1>5, <3>3, <3>4 DEF OneEach, Live
      <3> QED BY <1>0, <1>3, <3>5, MetGrows
    <2>4. owed'[owner[t]][base[t]] >= owed[owner[t]][base[t]]
      BY <1>0, <1>1, <1>3, <2>1, <2>3, OwedFalls
    <2> QED BY <1>1, <1>2, <1>3, <2>1, <2>2, <2>4
  <1> QED BY <1>4, <1>5

LEMMA PoolStep == ASSUME IInv, Next PROVE Pool'
  BY OneEachStep, RestIsUnhashedStep, RunIsFindableStep, RunIsAwaitedStep DEF Pool

----------------------------------------------------------------------------
(* The fetches                                                             *)

LEMMA HiddenChange ==
  ASSUME Types, Next, NEW f \in File
  PROVE  \/ hidden'[f] = hidden[f] /\ (f \in stray => f \in stray')
         \/ /\ InotifyEvent /\ Head(events).file = f /\ hidden[f] > 0 /\ self # "OFF_LINE"
            /\ hidden'[f] = hidden[f] - 1 /\ (f \in stray /\ hidden[f] # 1 => f \in stray')
         \/ /\ ScanSyncDirList(f) /\ hidden[f] > 0
            /\ hidden'[f] = hidden[f] - 1 /\ (f \in stray /\ hidden[f] # 1 => f \in stray')
         \/ /\ AddToSyncDirList /\ adding = f /\ hidden'[f] = hidden[f] + 1
            /\ (f \in stray => f \in stray')
         \/ Crash /\ hidden'[f] = 0
  <1> DEFINE Same == hidden'[f] = hidden[f] /\ (f \in stray => f \in stray')
             Less == /\ hidden[f] > 0 /\ hidden'[f] = hidden[f] - 1
                     /\ (f \in stray /\ hidden[f] # 1 => f \in stray')
  <1>0. hidden \in [File -> Nat]
    BY DEF Types, HideTypes
  <1>1. ASSUME NEW g \in File, TakeOut(g), hidden[g] # 0 PROVE IF g = f THEN Less ELSE Same
    BY <1>0, <1>1 DEF TakeOut, TakenOut
  <1>2. ASSUME InotifyEvent PROVE Same \/ (Head(events).file = f /\ self # "OFF_LINE" /\ Less)
    <2> DEFINE g == Head(events).file
    <2>1. g \in File
      BY <1>2, NextEvent DEF InotifyEvent
    <2>2. \/ UNCHANGED hideVars
          \/ stray' = stray \union {g} /\ hidden' = hidden
          \/ hidden[g] # 0 /\ self # "OFF_LINE" /\ TakeOut(g)
      BY <1>2 DEF InotifyEvent
    <2> HIDE DEF Same, Less
    <2>3. UNCHANGED hideVars \/ (stray' = stray \union {g} /\ hidden' = hidden) => Same
      BY DEF Same, hideVars
    <2> HIDE DEF g
    <2>4. hidden[g] # 0 /\ self # "OFF_LINE" /\ TakeOut(g) => Same \/ (g = f /\ self # "OFF_LINE" /\ Less)
      BY <1>1, <2>1
    <2> QED BY <2>2, <2>3, <2>4 DEF g
  <1>3. ASSUME NEW g \in File, ScanSyncDirList(g) PROVE Same \/ (ScanSyncDirList(f) /\ Less)
    <2>1. TakeOut(g) /\ hidden[g] # 0
      BY <1>0, <1>3 DEF ScanSyncDirList
    <2> HIDE DEF Same, Less
    <2> QED BY <1>1, <1>3, <2>1
  <1>4. ASSUME AddToSyncDirList
        PROVE  Same \/ (adding = f /\ hidden'[f] = hidden[f] + 1 /\ (f \in stray => f \in stray'))
    BY <1>0, <1>4 DEF AddToSyncDirList, Hidden
  <1>5. ASSUME NEW t \in Task, Expire(t) \/ FetchOk(t) \/ FetchFails(t) PROVE Same
    BY <1>5 DEF Expire, FetchOk, FetchFails
  <1>6. ASSUME Crash PROVE hidden'[f] = 0
    BY <1>6 DEF Crash
  <1>7. UNCHANGED hideVars => Same
    BY DEF hideVars
  <1> HIDE DEF Same, Less
  <1>8. Same \/ (InotifyEvent /\ Head(events).file = f /\ self # "OFF_LINE" /\ Less)
        \/ (ScanSyncDirList(f) /\ Less)
        \/ (AddToSyncDirList /\ adding = f /\ hidden'[f] = hidden[f] + 1 /\ (f \in stray => f \in stray'))
        \/ (Crash /\ hidden'[f] = 0)
    BY <1>2, <1>3, <1>4, <1>5, <1>6, <1>7
     DEF Next, Clock, Write, Unlink, ScanBegin, ScanFile, ScanEnd, TickBegin,
         TickEnd, TryDispatch, NoPeer, Dispatch, AgentReap, Answer, UnknownAnswer,
         FinalAnswer, TrackerForgets, Login, Close, Start, AddWatch, SetStartTime, SetOffline,
         SetOnline, SyncCommand, ActiveSync, NotWanted, Wanted, FinTask, fetchVars
  <1> QED BY <1>8 DEF Same, Less

LEMMA FetchedGrows ==
  ASSUME Types, Next
  PROVE  /\ fetched \subseteq fetched'
         /\ \A a \in fetched' : a \in fetched \/
              \E t \in Task : FetchOk(t) /\ a = <<base[t].file, now>>
  <1>1. \/ fetched' = fetched
        \/ \E t \in Task : FetchOk(t) /\ fetched' = fetched \union {<<base[t].file, now>>}
    BY ZenonT(30) DEF Next, Clock, Write, Unlink, InotifyEvent, ScanBegin, ScanFile, ScanEnd, TickBegin, TickEnd,
         TryDispatch, NoPeer, Dispatch, Expire, AgentReap, Answer, UnknownAnswer, FinalAnswer, Relay,
         TrackerForgets, Login, Close, Crash, Start, AddWatch, SetStartTime, SetOffline,
         SetOnline, SyncCommand, ActiveSync, AddToSyncDirList, NotWanted, Wanted,
         ScanSyncDirList, FetchOk, FetchFails, FinTask, fetchVars
  <1> QED BY <1>1

LEMMA AboutOrigin ==
  ASSUME Types, Next, NEW f \in File, About(f)'
  PROVE  About(f) \/ \E k \in Kind : Queued(f, k)
  <1>0. events \in Seq(Change)
    BY DEF Types, EventTypes
  <1>1. PICK i \in DOMAIN events' : events'[i].file = f
    BY DEF About
  <1>2. CASE events' = events
    BY <1>1, <1>2 DEF About
  <1>3. CASE events' = <<>>
    BY <1>1, <1>3
  <1>4. CASE events # <<>> /\ events' = Tail(events)
    BY <1>1, <1>4, NextEvent DEF About
  <1>5. ASSUME NEW g \in File, NEW k \in Kind, Queued(g, k)
        PROVE  About(f) \/ \E j \in Kind : Queued(f, j)
    <2> DEFINE e == [file |-> g, kind |-> k]
    <2>1. e \in Change /\ e.file = g
      BY DEF Change
    <2>2. events' = Append(events, e)
      BY <1>5 DEF Queued
    <2> HIDE DEF e
    <2>3. \/ i \in DOMAIN events /\ events'[i] = events[i]
          \/ events'[i] = e
      BY <1>0, <1>1, <2>1, <2>2
    <2> QED BY <1>1, <1>5, <2>1, <2>3 DEF About
  <1> QED BY <1>2, <1>3, <1>4, <1>5, EventChange

(* While a file is being fetched, only its fetch changes it.               *)
LEMMA FetchRules ==
  ASSUME Apart, IInv, Next, NEW t \in Fetching
  PROVE  /\ base[t].file \in File /\ t \in Task /\ Live(t)
         /\ ~Settled(base[t].file) /\ ~ByUser(base[t].file)
         /\ ByFetch(base[t].file) => FetchOk(t) /\ stat[t] = "WAIT"
         /\ ~About(base[t].file) \/ stat[t] = "FIN"
         /\ ctime'[base[t].file] # ctime[base[t].file] => FetchOk(t) /\ stat[t] = "WAIT"
  <1>1. t \in Task /\ Live(t) /\ base[t] \in Request /\ base[t].file \in File
    BY DEF Fetching, Live, IInv, Types, LiveIsMade, Request
  <1>2. ~Settled(base[t].file)
    BY <1>1 DEF Settled
  <1>3. ~ByUser(base[t].file)
    BY <1>1, <1>2, UserWaits
  <1>4. ByFetch(base[t].file) => FetchOk(t) /\ stat[t] = "WAIT"
    BY DEF ByFetch, IInv, Fetches, FetchIsAlone, Live
  <1>5. ~About(base[t].file) \/ stat[t] = "FIN"
    BY DEF IInv, Fetches, FetchIsAlone
  <1>6. ctime'[base[t].file] # ctime[base[t].file] => FetchOk(t) /\ stat[t] = "WAIT"
    BY <1>1, <1>3, <1>4, CtimeChange DEF ByUser, IInv
  <1> QED BY <1>1, <1>2, <1>3, <1>4, <1>5, <1>6

(* A task of a fetch that goes on.                                         *)
LEMMA FetchGoesOn ==
  ASSUME Apart, IInv, Next, NEW t \in Fetching, (t \in Fetching)', Stays(t),
         NEW f \in File, f = base[t].file
  PROVE  /\ t \in hashed' /\ base'[t] = base[t] /\ ct'[t] = ct[t]
         /\ \A u \in Task : Live(u)' /\ base'[u].file = f => u = t
         /\ \A p \in Tracker, r \in Request : r.file = f => owed'[p][r] = 0
         /\ About(f)' =>
               /\ stat'[t] = "FIN" /\ ctime'[f] # 0
               /\ <<f, ctime'[f]>> \in fetched'
         /\ stat'[t] = "WAIT" => adding' = f \/ hidden'[f] > 0
  <1>0. /\ f \in File /\ t \in Task /\ Live(t) /\ ~Settled(f) /\ ~ByUser(f)
        /\ ByFetch(f) => FetchOk(t) /\ stat[t] = "WAIT"
        /\ ~About(f) \/ stat[t] = "FIN"
        /\ ctime'[f] # ctime[f] => FetchOk(t) /\ stat[t] = "WAIT"
    BY FetchRules
  <1>1. /\ t \in hashed /\ base[t].kind = "ADD" /\ base[t].ver = 0 /\ ct[t] = 0
        /\ \A u \in Task : Live(u) /\ base[u].file = f => u = t
        /\ \A p \in Tracker, r \in Request : r.file = f => owed[p][r] = 0
        /\ About(f) => stat[t] = "FIN" /\ ctime[f] # 0 /\ <<f, ctime[f]>> \in fetched
        /\ stat[t] = "WAIT" => adding = f \/ hidden[f] > 0
    BY DEF IInv, Fetches, FetchIsAlone
  <1>2. Types /\ RunIsFindable /\ Fetching # {} /\ Live(t)'
    BY DEF IInv, Pool, Fetching, Live
  <1>3. base'[t] = base[t] /\ ct'[t] = ct[t] /\ (stat'[t] = "WAIT" => stat[t] = "WAIT")
        /\ stat'[t] \in {"WAIT", "FIN"} /\ stat[t] \in {"WAIT", "FIN"}
    BY DEF Stays, Fetching
  <1>4. t \in hashed'
    BY <1>0, <1>1, <1>2, HashedOrigin
  <1>5. ASSUME NEW u \in Task, Live(u)', base'[u].file = f PROVE u = t
    <2>1. CASE Stays(u)
      BY <1>1, <1>5, <2>1 DEF Stays
    <2>2. CASE MadeByEvent(u)
      <3>1. Head(events).file = f /\ events # <<>> /\ ~Ignored(Head(events))
        BY <1>5, <2>2 DEF MadeByEvent, InotifyEvent
      <3>2. About(f)
        BY <1>2, <3>1, NextEvent DEF About
      <3>3. hidden[f] > 0
        BY <1>0, <1>1, <3>2 DEF IInv, Hides, EchoIsHidden
      <3> QED BY <3>1, <3>3 DEF Ignored
    <2>3. CASE MadeByScan(u)
      BY <1>2, <2>3 DEF MadeByScan, ScanFile, IInv, Fetches, FetchIsQuiet, Times, ScanIsIdle
    <2>4. ASSUME NEW g \in File, MadeByFetch(u, g) PROVE FALSE
      <3>1. g = f /\ Wanted(g)
        BY <1>5, <2>4 DEF MadeByFetch
      <3>2. Settled(f)
        BY <3>1 DEF Wanted, Offered, Quiet, Apart
      <3> QED BY <1>0, <3>2
    <2> QED BY <1>2, <1>5, <2>1, <2>2, <2>3, <2>4, TaskOrigin
  <1>6. ASSUME NEW p \in Tracker, NEW r \in Request, r.file = f PROVE owed'[p][r] = 0
    <2>1. owed[p][r] = 0 /\ owed[p][r] \in Nat /\ owed'[p][r] \in Nat
      BY <1>1, <1>2, <1>6, NetTypesStep DEF Types, NetTypes
    <2>2. ASSUME NEW u \in Task, Dispatch(u, p), base[u] = r PROVE FALSE
      <3>1. stat[u] = "WAIT_SYNC"
        BY <2>2 DEF Dispatch
      <3> QED BY <1>1, <1>3, <1>6, <2>2, <3>1 DEF Live
    <2> QED BY <1>2, <2>1, <2>2, OwedGrows
  <1>7. ASSUME About(f)'
        PROVE  stat'[t] = "FIN" /\ ctime'[f] # 0 /\ <<f, ctime'[f]>> \in fetched'
    <2>1. CASE About(f)
      <3>1. stat[t] = "FIN" /\ ctime[f] # 0 /\ <<f, ctime[f]>> \in fetched
        BY <1>1, <2>1
      <3>2. ctime'[f] = ctime[f]
        BY <1>0, <3>1
      <3>3. stat'[t] = "FIN"
        BY <1>3, <3>1
      <3> QED BY <1>2, <3>1, <3>2, <3>3, FetchedGrows
    <2>2. CASE FetchOk(t)
      <3>1. stat' = Relist({t}, "FIN") /\ ctime' = [ctime EXCEPT ![f] = now]
            /\ fetched' = fetched \union {<<f, now>>}
        BY <2>2 DEF FetchOk, Fetched
      <3>2. now # 0 /\ ctime \in [File -> Time] /\ stat'[t] = "FIN"
        BY <1>0, <1>2, <3>1 DEF Types, TimeTypes, Relist
      <3> QED BY <1>0, <3>1, <3>2
    <2>3. ASSUME NEW k \in Kind, Queued(f, k) PROVE FetchOk(t)
      BY <1>0, <2>3 DEF Queued, ByUser
    <2> QED BY <1>0, <1>2, <1>7, <2>1, <2>2, <2>3, AboutOrigin
  <1>8. ASSUME stat'[t] = "WAIT" PROVE adding' = f \/ hidden'[f] > 0
    <2>1. stat[t] = "WAIT" /\ ~About(f)
      BY <1>0, <1>3, <1>8
    <2>2. hidden \in [File -> Nat] /\ hidden[f] \in Nat /\ f # NoFile
      BY <1>0, <1>2, PoolAssumption DEF Types, HideTypes
    <2>3. ~Crash
      BY <1>0, <1>2 DEF Crash, Live
    <2>4. ~(InotifyEvent /\ Head(events).file = f)
      BY <1>2, <2>1, NextEvent DEF About, InotifyEvent
    <2>5. ~ScanSyncDirList(f)
      BY <1>0 DEF ScanSyncDirList
    <2>6. CASE hidden[f] > 0
      BY <1>0, <1>2, <2>2, <2>3, <2>4, <2>5, <2>6, HiddenChange
    <2>7. CASE adding = f /\ AddToSyncDirList
      BY <1>0, <2>2, <2>7 DEF AddToSyncDirList, Hidden
    <2>8. CASE adding = f /\ ~AddToSyncDirList
      <3>1. adding' = adding
        BY <1>2, <2>2, <2>3, <2>8, ZenonT(30)
         DEF Next, Clock, Write, Unlink, InotifyEvent, ScanBegin, ScanFile, ScanEnd, TickBegin, TickEnd,
         TryDispatch, NoPeer, Dispatch, Expire, AgentReap, Answer, UnknownAnswer, FinalAnswer, Relay,
         TrackerForgets, Login, Close, Start, AddWatch, SetStartTime, SetOffline,
         SetOnline, SyncCommand, ActiveSync, NotWanted, Wanted, Offered, Event,
         ScanSyncDirList, FetchOk, FetchFails, FinTask, fetchVars, askVars
      <3> QED BY <2>8, <3>1
    <2> QED BY <1>1, <2>1, <2>6, <2>7, <2>8
  <1> QED BY <1>3, <1>4, <1>5, <1>6, <1>7, <1>8

(* A task of a fetch that begins.                                          *)
LEMMA FetchBegins ==
  ASSUME Apart, IInv, Next, NEW f \in File, NEW t \in Task, MadeByFetch(t, f)
  PROVE  /\ t \in hashed' /\ base'[t] = [file |-> f, kind |-> "ADD", ver |-> 0] /\ ct'[t] = 0
         /\ \A u \in Task : Live(u)' /\ base'[u].file = f => u = t
         /\ \A p \in Tracker, r \in Request : r.file = f => owed'[p][r] = 0
         /\ ~About(f)' /\ adding' = f /\ hidden'[f] = hidden[f] /\ stray' = stray
         /\ hidden[f] > 0 => f \in stray
         /\ scan'.mode = "none" /\ life' = "up" /\ self' # "UNKOWN_STAT"
  <1>1. Wanted(f) /\ Made(t) /\ stat'[t] = "WAIT" /\ t \in hashed'
        /\ base'[t] = [file |-> f, kind |-> "ADD", ver |-> 0] /\ ct'[t] = 0
    BY DEF MadeByFetch
  <1>2. Settled(f) /\ scan.mode = "none" /\ self # "UNKOWN_STAT" /\ life = "up"
    BY <1>1 DEF Wanted, Offered, Quiet, Event, Apart
  <1>3. UNCHANGED <<hideVars, fetched, now, diskVars, procVars, events, scan, netVars>> /\ adding' = f
    BY <1>1 DEF Wanted
  <1>4. ~About(f) /\ \A u \in Task : Live(u) => base[u].file # f
    BY <1>2 DEF Settled, About
  <1>5. ~About(f)'
    BY <1>3, <1>4 DEF About
  <1>6. \A u \in Task : Live(u)' /\ base'[u].file = f => u = t
    BY <1>1, <1>4 DEF Made, Live
  <1>7. \A p \in Tracker, r \in Request : r.file = f => owed'[p][r] = 0
    BY <1>2, <1>3 DEF netVars, Settled
  <1>8. hidden[f] > 0 => f \in stray
    <2>1. ~Noticed(f)
      BY <1>4 DEF About, Noticed
    <2>2. ~\E u \in Task : stat[u] = "WAIT" /\ base[u].file = f
      BY <1>4 DEF Live
    <2> QED BY <2>1, <2>2 DEF IInv, Hides, HiddenIsDue
  <1> QED BY <1>1, <1>2, <1>3, <1>5, <1>6, <1>7, <1>8 DEF hideVars, procVars

LEMMA FetchIsAloneStep == ASSUME Apart, IInv, Next PROVE FetchIsAlone'
  <1> SUFFICES ASSUME NEW t \in Task, (t \in Fetching)'
               PROVE
      /\ t \in hashed' /\ base'[t].kind = "ADD" /\ base'[t].ver = 0 /\ ct'[t] = 0
      /\ \A u \in Task : Live(u)' /\ base'[u].file = base'[t].file => u = t
      /\ \A p \in Tracker, r \in Request : r.file = base'[t].file => owed'[p][r] = 0
      /\ About(base[t].file)' =>
           /\ stat'[t] = "FIN" /\ ctime'[base'[t].file] # 0
           /\ <<base'[t].file, ctime'[base'[t].file]>> \in fetched'
      /\ stat'[t] = "WAIT" => adding' = base'[t].file \/ hidden'[base'[t].file] > 0
    BY DEF FetchIsAlone, Fetching
  <1>1. Live(t)' /\ stat'[t] \in {"WAIT", "FIN"}
    BY DEF Fetching, Live
  <1>2. CASE Stays(t)
    <2>1. t \in Fetching
      BY <1>1, <1>2 DEF Stays, Fetching
    <2>2. base[t].kind = "ADD" /\ base[t].ver = 0 /\ ct[t] = 0 /\ base'[t] = base[t]
      BY <1>2, <2>1 DEF IInv, Fetches, FetchIsAlone, Stays
    <2>3. PICK f \in File : f = base[t].file
      BY <2>1, FetchRules
    <2>4. About(base[t].file)' <=> About(f)'
      BY <2>2, <2>3 DEF About
    <2> QED BY <1>2, <2>1, <2>2, <2>3, <2>4, FetchGoesOn
  <1>3. ASSUME NEW f \in File, MadeByFetch(t, f)
        PROVE  /\ base'[t].kind = "ADD" /\ base'[t].ver = 0 /\ base'[t].file = f
               /\ ~About(base[t].file)'
    <2>1. base'[t] = [file |-> f, kind |-> "ADD", ver |-> 0] /\ ~About(f)'
      BY <1>3, FetchBegins, Zenon
    <2> QED BY <2>1 DEF About
  <1>4. ~MadeByEvent(t) /\ ~MadeByScan(t)
    BY <1>1 DEF MadeByEvent, MadeByScan
  <1>5. CASE \E f \in File : MadeByFetch(t, f)
    <2>1. PICK f \in File : MadeByFetch(t, f)
      BY <1>5
    <2>2. /\ t \in hashed' /\ ct'[t] = 0 /\ adding' = f
          /\ \A u \in Task : Live(u)' /\ base'[u].file = f => u = t
          /\ \A p \in Tracker, r \in Request : r.file = f => owed'[p][r] = 0
      BY <2>1, FetchBegins, Zenon
    <2>3. base'[t].kind = "ADD" /\ base'[t].ver = 0 /\ base'[t].file = f
          /\ ~About(base[t].file)'
      BY <1>3, <2>1
    <2> QED BY <2>2, <2>3
  <1> QED BY <1>1, <1>2, <1>4, <1>5, TaskOrigin DEF IInv, Pool

LEMMA LifeChange ==
  ASSUME Next
  PROVE  \/ UNCHANGED <<procVars, scan>>
         \/ Crash \/ Start \/ AddWatch \/ SetStartTime \/ SetOffline \/ SetOnline
         \/ ScanBegin \/ ScanFile \/ ScanEnd
  BY ZenonT(30) DEF Next, Clock, Write, Unlink, InotifyEvent, TickBegin, TickEnd,
         TryDispatch, NoPeer, Dispatch, Expire, AgentReap, Answer, UnknownAnswer, FinalAnswer,
         TrackerForgets, Login, Close, SyncCommand, ActiveSync, AddToSyncDirList, NotWanted, Wanted,
         ScanSyncDirList, FetchOk, FetchFails, FinTask

LEMMA FetchIsQuietStep == ASSUME Apart, IInv, Next PROVE FetchIsQuiet'
  <1> SUFFICES ASSUME NEW t \in Task, (t \in Fetching)'
               PROVE  life' = "up" /\ scan'.mode = "none" /\ self' # "UNKOWN_STAT"
    BY DEF FetchIsQuiet, Fetching
  <1>1. Live(t)' /\ stat'[t] \in {"WAIT", "FIN"}
    BY DEF Fetching, Live
  <1>2. CASE Stays(t)
    <2>1. Fetching # {} /\ ~Crash
      BY <1>1, <1>2 DEF Stays, Fetching, Crash, Live
    <2>2. life = "up" /\ scan.mode = "none" /\ self # "UNKOWN_STAT" /\ scan.left = 0
      BY <2>1 DEF IInv, Fetches, FetchIsQuiet, Times, ScanIsIdle
    <2>3. ~ScanBegin /\ ~ScanFile /\ ~ScanEnd /\ ~Start /\ ~SetOnline
      BY <2>1, <2>2 DEF ScanBegin, ScanFile, ScanEnd, Start, SetOnline, Apart
    <2>4. life' = life /\ scan' = scan /\ (self' = self \/ self' = "OFF_LINE")
      BY <2>1, <2>2, <2>3, LifeChange DEF AddWatch, SetStartTime, SetOffline, procVars
    <2> QED BY <2>2, <2>4
  <1>3. CASE \E f \in File : MadeByFetch(t, f)
    <2>1. PICK f \in File : MadeByFetch(t, f)
      BY <1>3
    <2> QED BY <2>1, FetchBegins, Zenon
  <1>4. ~MadeByEvent(t) /\ ~MadeByScan(t)
    BY <1>1 DEF MadeByEvent, MadeByScan
  <1> QED BY <1>1, <1>2, <1>3, <1>4, TaskOrigin DEF IInv, Pool

(* The task an answer finds is about the file as the answer knows it.      *)
LEMMA AnswerIsCurrent ==
  ASSUME IInv, NEW p \in Tracker, NEW r \in Request, NEW t \in Task, FinalAnswer(p, r, t)
  PROVE  /\ Live(t) /\ t \notin Fetching /\ base[t] \in Request
         /\ base[t].file = r.file /\ base[t].kind = r.kind
         /\ r.kind = "ADD" => /\ base[t] = r /\ r.ver = ctime[r.file] /\ ct[t] =< r.ver
  <1>1. owed[p][r] > 0 /\ t \in hashed /\ base[t].file = r.file /\ base[t].kind = r.kind
    BY DEF FinalAnswer, Relay, Match
  <1>2. Live(t) /\ base[t] \in Request
    BY <1>1 DEF IInv, Pool, RestIsUnhashed, Types, LiveIsMade
  <1>3. t \notin Fetching
    <2>1. t \in Fetching => owed[p][r] = 0
      BY <1>1 DEF IInv, Fetches, FetchIsAlone
    <2> QED BY <1>1, <2>1
  <1>4. ASSUME r.kind = "ADD" PROVE base[t] = r /\ r.ver = ctime[r.file] /\ ct[t] =< r.ver
    <2>1. r.ver = ctime[r.file]
      BY <1>1, <1>4 DEF IInv, Current, OwedIsCurrent
    <2>2. base[t].ver = ctime[r.file] /\ ct[t] =< base[t].ver
      BY <1>1, <1>2, <1>3, <1>4 DEF IInv, Current, TaskIsCurrent
    <2> QED BY <1>1, <1>2, <2>1, <2>2 DEF Request
  <1> QED BY <1>1, <1>2, <1>3, <1>4

(* How a task ends.                                                        *)
LEMMA LiveEnds ==
  ASSUME IInv, Next, NEW t \in Task, Live(t)
  PROVE  \/ Live(t)' /\ Stays(t) /\ base'[t] = base[t]
         \/ Expire(t) \/ FinTask(t) \/ Crash
         \/ \E p \in Tracker, r \in Request : FinalAnswer(p, r, t)
  <1>0. stat \in [Task -> Status] /\ base \in [Task -> Request \union {Blank}] /\ Types
        /\ RunIsFindable
    BY DEF IInv, Types, TaskTypes, Pool
  <1>1. CASE Live(t)'
    <2>1. ~Made(t)
      BY DEF Made, Live
    <2>2. Stays(t)
      BY <1>0, <1>1, <2>1, TaskOrigin DEF MadeByEvent, MadeByScan, MadeByFetch
    <2> QED BY <1>1, <2>2 DEF Stays
  <1>2. CASE ~Live(t)'
    <2>1. ASSUME NEW u \in Task, AgentReap(u) \/ TryDispatch(u) PROVE FALSE
      BY <1>0, <1>2, <2>1 DEF AgentReap, TryDispatch, NoPeer, Dispatch, Waiting, Relist, Live
    <2>2. ASSUME NEW u \in Task, FetchOk(u) \/ FetchFails(u) PROVE FALSE
      <3>1. stat' = Relist({u}, "FIN")
        BY <2>2 DEF FetchOk, FetchFails, Fetched
      <3> QED BY <1>0, <1>2, <3>1 DEF Relist, Live
    <2>3. ASSUME NEW p \in Tracker, NEW r \in Request, Answer(p, r) PROVE FinalAnswer(p, r, t)
      <3>1. ~UnknownAnswer(p, r)
        BY <1>2 DEF UnknownAnswer, taskVars, Live
      <3> QED BY <1>0, <1>2, <2>3, <3>1 DEF Answer, FinalAnswer, Relist, Live
    <2>4. ASSUME InotifyEvent PROVE FALSE
      <3>1. CASE Ignored(Head(events))
        BY <1>2, <2>4, <3>1 DEF InotifyEvent, taskVars, Live
      <3>2. CASE ~Ignored(Head(events))
        BY <1>0, <1>2, <2>4, <3>2, EventMakes DEF MadeByEvent, Made, Live
      <3> QED BY <3>1, <3>2
    <2>5. ASSUME ScanFile PROVE FALSE
      <3>1. CASE ctime[Head(scan.listed)[1]] = 0
        BY <1>2, <2>5, <3>1 DEF ScanFile, taskVars, Live
      <3>2. CASE ctime[Head(scan.listed)[1]] # 0
        BY <1>0, <1>2, <2>5, <3>2, ScanMakes DEF MadeByScan, Made, Live
      <3> QED BY <3>1, <3>2
    <2>6. ASSUME NEW f \in File, Wanted(f) PROVE FALSE
      BY <1>0, <1>2, <2>6, FetchMakes DEF MadeByFetch, Made, Live
    <2>7. ASSUME NEW u \in Task, Expire(u) PROVE Expire(t)
      BY <1>0, <1>2, <2>7 DEF Expire, Relist, Live
    <2>11. ASSUME NEW u \in Task, FinTask(u) PROVE FinTask(t)
      BY <1>0, <1>2, <2>11 DEF FinTask, Relist, Live
    <2>8. ASSUME TickBegin PROVE FALSE
      BY <1>0, <1>2, <2>8 DEF TickBegin, Requeued, Relist, Live
    <2>9. ASSUME NEW p \in Tracker, Close(p) PROVE FALSE
      BY <1>0, <1>2, <2>9 DEF Close, Relist, Live
    <2>10. stat' # stat
      BY <1>2 DEF Live
    <2> QED BY <2>1, <2>2, <2>3, <2>4, <2>5, <2>6, <2>7, <2>8, <2>9, <2>10, <2>11
         DEF Next, Clock, Write, Unlink, ScanBegin, ScanEnd, TickEnd, TrackerForgets, Login, Start,
             AddWatch, SetStartTime, SetOffline, SetOnline, SyncCommand, ActiveSync,
             AddToSyncDirList, NotWanted, ScanSyncDirList, taskVars
  <1> QED BY <1>1, <1>2

(* A node with the data thread stays there until that thread is done, or   *)
(* it is too old, or the process dies.                                     *)
LEMMA WaitEnds ==
  ASSUME IInv, Next, NEW t \in Task, stat[t] = "WAIT"
  PROVE  \/ stat'[t] = "WAIT" /\ base'[t] = base[t]
         \/ FetchOk(t) \/ FetchFails(t) \/ Expire(t) \/ Crash
  <1>1. Live(t) /\ t \in Fetching /\ ~FinTask(t)
    BY DEF Live, Fetching, FinTask
  <1>2. ASSUME NEW p \in Tracker, NEW r \in Request, FinalAnswer(p, r, t) PROVE FALSE
    BY <1>1, <1>2, AnswerIsCurrent
  <1> QED BY <1>1, <1>2, LiveEnds DEF Stays

LEMMA AddingIsFetchedStep == ASSUME Apart, IInv, Next PROVE AddingIsFetched'
  <1>0. /\ Types /\ adding \in File \union {NoFile} /\ hidden \in [File -> Nat]
        /\ stat \in [Task -> Status] /\ NoFile \notin File
    BY PoolAssumption DEF IInv, Types, AskTypes, HideTypes, TaskTypes
  <1> SUFFICES ASSUME adding' # NoFile PROVE AddingIsFetched'
    BY DEF AddingIsFetched
  <1>1. ASSUME NEW f \in File, Wanted(f) PROVE AddingIsFetched'
    <2>1. PICK t \in Task : MadeByFetch(t, f)
      BY <1>0, <1>1, FetchMakes
    <2>2. /\ stat'[t] = "WAIT" /\ base'[t] = [file |-> f, kind |-> "ADD", ver |-> 0]
          /\ adding' = f /\ hidden'[f] = hidden[f] /\ stray' = stray
          /\ hidden[f] > 0 => f \in stray
      BY <2>1, FetchBegins, Zenon DEF MadeByFetch
    <2>3. base'[t].file = f
      BY <2>2
    <2> QED BY <2>2, <2>3 DEF AddingIsFetched
  <1>2. ASSUME adding' = adding, ~Crash, ~AddToSyncDirList PROVE AddingIsFetched'
    <2>1. PICK f \in File : f = adding
      BY <1>0, <1>2
    <2>2. PICK t \in Task : stat[t] = "WAIT" /\ base[t].file = f
      BY <1>0, <1>2, <2>1 DEF IInv, Fetches, AddingIsFetched
    <2>3. hidden[f] > 0 => f \in stray
      BY <1>0, <1>2, <2>1 DEF IInv, Fetches, AddingIsFetched
    <2>4. ~Event /\ ~About(f) /\ ~Settled(f)
      BY <1>0, <1>2, <2>1, <2>2, FetchRules DEF Event, Fetching
    <2>5. stat'[t] = "WAIT" /\ base'[t] = base[t]
      BY <1>2, <2>1, <2>2, <2>4, WaitEnds DEF FetchOk, FetchFails, Fetched, Expire, Apart
    <2>6. ~(InotifyEvent /\ Head(events).file = f)
      BY <1>0, <2>4, NextEvent DEF About, InotifyEvent
    <2>7. hidden'[f] = hidden[f] /\ (f \in stray => f \in stray')
      BY <1>0, <1>2, <2>4, <2>6, HiddenChange DEF ScanSyncDirList
    <2> QED BY <1>2, <2>1, <2>2, <2>3, <2>5, <2>7 DEF AddingIsFetched
  <1>3. adding' = adding \/ \E f \in File : Wanted(f)
    BY ZenonT(30) DEF Next, Clock, Write, Unlink, InotifyEvent, ScanBegin, ScanFile, ScanEnd, TickBegin, TickEnd,
         TryDispatch, NoPeer, Dispatch, Expire, AgentReap, Answer, UnknownAnswer, FinalAnswer, Relay,
         TrackerForgets, Login, Close, Crash, Start, AddWatch, SetStartTime, SetOffline,
         SetOnline, SyncCommand, ActiveSync, AddToSyncDirList, NotWanted,
         ScanSyncDirList, FetchOk, FetchFails, FinTask, fetchVars, askVars
  <1>4. ~Crash /\ ~AddToSyncDirList
    BY DEF Crash, AddToSyncDirList
  <1> QED BY <1>1, <1>2, <1>3, <1>4

LEMMA FetchesStep == ASSUME Apart, IInv, Next PROVE Fetches'
  BY FetchIsAloneStep, FetchIsQuietStep, AddingIsFetchedStep DEF Fetches

----------------------------------------------------------------------------
(* What is under way is current                                            *)

(* A file that changes has no event before the one of this change, and     *)
(* nothing owed about it.                                                  *)
LEMMA ChangeIsAlone ==
  ASSUME Apart, IInv, Next, NEW f \in File, ByUser(f) \/ ByFetch(f)
  PROVE  /\ ~About(f) /\ \A p \in Tracker, r \in Request : r.file = f => owed[p][r] = 0
         /\ \A t \in Task : Live(t) /\ base[t].file = f => t \in Fetching
  <1>1. CASE ByUser(f)
    <2>1. Settled(f)
      BY <1>1, UserWaits
    <2> QED BY <2>1 DEF Settled, About
  <1>2. CASE ByFetch(f)
    <2>1. PICK t \in Task : stat[t] = "WAIT" /\ base[t].file = f
      BY <1>2 DEF ByFetch
    <2>2. t \in Fetching
      BY <2>1 DEF Fetching
    <2> QED BY <2>1, <2>2 DEF IInv, Fetches, FetchIsAlone
  <1> QED BY <1>1, <1>2

LEMMA OneEventStep == ASSUME Apart, IInv, Next PROVE OneEvent'
  <1>0. events \in Seq(Change) /\ OneEvent /\ Types
    BY DEF IInv, Types, EventTypes, Current
  <1>1. ASSUME NEW f \in File, NEW k \in Kind, Queued(f, k) PROVE OneEvent'
    <2>1. ~About(f)
      BY <1>1, ChangeIsAlone DEF Queued, ByUser
    <2> DEFINE e == [file |-> f, kind |-> k]
    <2>2. e \in Change /\ e.file = f /\ events' = Append(events, e)
      BY <1>1 DEF Change, Queued
    <2> HIDE DEF e
    <2>3. /\ Len(events) \in Nat /\ DOMAIN events' = 1 .. Len(events) + 1 /\ DOMAIN events = 1 .. Len(events)
          /\ events'[Len(events) + 1] = e
          /\ \A i \in DOMAIN events : events'[i] = events[i]
      BY <1>0, <2>2
    <2> QED BY <1>0, <2>1, <2>2, <2>3 DEF OneEvent, About
  <1>2. ASSUME events # <<>>, events' = Tail(events) PROVE OneEvent'
    <2>1. \A i \in DOMAIN events' : events'[i] = events[i + 1] /\ i + 1 \in DOMAIN events /\ i \in Int
      BY <1>0, <1>2, NextEvent
    <2> QED BY <1>0, <2>1 DEF OneEvent
  <1>3. ASSUME events' = <<>> PROVE OneEvent'
    BY <1>3 DEF OneEvent
  <1>4. events' = events => OneEvent'
    BY <1>0 DEF OneEvent
  <1> QED BY <1>0, <1>1, <1>2, <1>3, <1>4, EventChange

LEMMA DelIsGoneStep == ASSUME Apart, IInv, Next PROVE DelIsGone'
  <1>0. events \in Seq(Change) /\ DelIsGone /\ Types
    BY DEF IInv, Types, EventTypes, Current
  <1>1. ASSUME NEW i \in DOMAIN events, events[i].kind = "DEL" PROVE ctime'[events[i].file] = 0
    <2>1. events[i] \in Change
      BY <1>0
    <2>2. events[i].file \in File
      BY <2>1 DEF Change
    <2>3. About(events[i].file) /\ ctime[events[i].file] = 0
      BY <1>0, <1>1 DEF About, DelIsGone
    <2> QED BY <1>0, <2>2, <2>3, CtimeChange, ChangeIsAlone DEF ByUser
  <1>2. ASSUME NEW f \in File, NEW k \in Kind, Queued(f, k) PROVE DelIsGone'
    <2> DEFINE e == [file |-> f, kind |-> k]
    <2>1. e.kind = "DEL" => ctime'[e.file] = 0
      BY <1>0, <1>2 DEF Queued, Unlink, Types, TimeTypes
    <2>2. e \in Change /\ events' = Append(events, e)
      BY <1>2 DEF Change, Queued
    <2> HIDE DEF e
    <2>3. \A i \in DOMAIN events' : (i \in DOMAIN events /\ events'[i] = events[i]) \/ events'[i] = e
      BY <1>0, <2>2
    <2> QED BY <1>1, <2>1, <2>3 DEF DelIsGone
  <1>3. ASSUME events # <<>>, events' = Tail(events) PROVE DelIsGone'
    <2>1. \A i \in DOMAIN events' : events'[i] = events[i + 1] /\ i + 1 \in DOMAIN events
      BY <1>0, <1>3, NextEvent
    <2> QED BY <1>1, <2>1 DEF DelIsGone
  <1>4. ASSUME events' = <<>> PROVE DelIsGone'
    BY <1>4 DEF DelIsGone
  <1>5. ASSUME events' = events PROVE DelIsGone'
    BY <1>1, <1>5 DEF DelIsGone
  <1> QED BY <1>0, <1>2, <1>3, <1>4, <1>5, EventChange

LEMMA TaskIsCurrentStep == ASSUME Apart, IInv, Next PROVE TaskIsCurrent'
  <1>0. Types /\ RunIsFindable
    BY DEF IInv, Pool
  <1> SUFFICES ASSUME NEW t \in Task, Live(t)', (t \notin Fetching)', base'[t].kind = "ADD"
               PROVE  base'[t].ver = ctime'[base'[t].file] /\ ct'[t] =< base'[t].ver
    BY DEF TaskIsCurrent
  <1>1. stat'[t] \notin {"WAIT", "FIN"} /\ base'[t] \in Request /\ base'[t].file \in File
    BY <1>0, LiveIsMadeStep DEF Fetching, LiveIsMade, Request
  <1>2. CASE Stays(t)
    <2>1. t \notin Fetching /\ Live(t) /\ base'[t] = base[t] /\ ct'[t] = ct[t]
      BY <1>1, <1>2 DEF Stays, Fetching
    <2>2. base[t].ver = ctime[base[t].file] /\ ct[t] =< base[t].ver
      BY <2>1 DEF IInv, Current, TaskIsCurrent
    <2>3. ctime'[base[t].file] = ctime[base[t].file]
      BY <1>0, <1>1, <2>1, CtimeChange, ChangeIsAlone DEF ByUser
    <2> QED BY <2>1, <2>2, <2>3
  <1>3. CASE MadeByEvent(t)
    <2> DEFINE f == Head(events).file
    <2>1. f \in File /\ Head(events).kind \in Kind /\ ctime' = ctime
      BY <1>0, <1>3, NextEvent DEF MadeByEvent, InotifyEvent, diskVars
    <2>2. base'[t] = [file |-> f, kind |-> "ADD", ver |-> ctime[f]] /\ ct'[t] = base'[t].ver
      BY <1>3 DEF MadeByEvent
    <2>3. base'[t].ver = ctime[f] /\ base'[t].file = f /\ ctime[f] \in Time
      BY <1>0, <2>1, <2>2 DEF Types, TimeTypes
    <2> QED BY <2>1, <2>2, <2>3, PoolAssumption DEF Time
  <1>4. CASE MadeByScan(t)
    <2> DEFINE f == Head(scan.listed)[1]
               c == Head(scan.listed)[2]
    <2>1. /\ f \in File /\ c \in Time /\ 1 \in DOMAIN scan.listed
          /\ Head(scan.listed) = scan.listed[1] /\ ctime' = ctime
      BY <1>0, <1>4, NextListed DEF MadeByScan, ScanFile, diskVars
    <2>2. base'[t] = [file |-> f, kind |-> "ADD", ver |-> ctime[f]] /\ ct'[t] = c - TaskTimeout
          /\ ctime[f] # 0
      BY <1>4 DEF MadeByScan
    <2>3. c =< ctime[f]
      BY <2>1, <2>2 DEF IInv, Times, ScanIsPast
    <2>4. base'[t].ver = ctime[f] /\ base'[t].file = f /\ ctime[f] \in Time
      BY <1>0, <2>1, <2>2 DEF Types, TimeTypes
    <2> HIDE DEF f, c
    <2> QED BY <2>1, <2>2, <2>3, <2>4, PoolAssumption DEF Time
  <1>5. ASSUME NEW f \in File, MadeByFetch(t, f) PROVE FALSE
    BY <1>1, <1>5 DEF MadeByFetch
  <1> QED BY <1>0, <1>2, <1>3, <1>4, <1>5, TaskOrigin

LEMMA OwedIsCurrentStep == ASSUME Apart, IInv, Next PROVE OwedIsCurrent'
  <1>0. Types /\ owed \in [Tracker -> [Request -> Nat]] /\ owed' \in [Tracker -> [Request -> Nat]]
    BY NetTypesStep DEF IInv, Types, NetTypes
  <1> SUFFICES ASSUME NEW p \in Tracker, NEW r \in Request, owed'[p][r] > 0, r.kind = "ADD"
               PROVE  r.ver = ctime'[r.file]
    BY DEF OwedIsCurrent
  <1>1. r.file \in File
    BY DEF Request
  <1>2. CASE owed[p][r] > 0
    <2>1. r.ver = ctime[r.file]
      BY <1>2 DEF IInv, Current, OwedIsCurrent
    <2>2. ctime'[r.file] = ctime[r.file]
      BY <1>0, <1>1, <1>2, CtimeChange, ChangeIsAlone DEF ByUser
    <2> QED BY <2>1, <2>2
  <1>3. CASE ~(owed[p][r] > 0)
    <2>1. owed'[p][r] > owed[p][r]
      BY <1>0, <1>3
    <2>2. PICK t \in Task : Dispatch(t, p) /\ base[t] = r
      BY <1>0, <2>1, OwedGrows
    <2>3. stat[t] = "WAIT_SYNC" /\ ctime' = ctime
      BY <2>2 DEF Dispatch, diskVars
    <2>4. Live(t) /\ t \notin Fetching
      BY <2>3 DEF Live, Fetching
    <2> QED BY <2>2, <2>3, <2>4 DEF IInv, Current, TaskIsCurrent
  <1> QED BY <1>2, <1>3

LEMMA CurrentStep == ASSUME Apart, IInv, Next PROVE Current'
  BY OneEventStep, DelIsGoneStep, TaskIsCurrentStep, OwedIsCurrentStep DEF Current

----------------------------------------------------------------------------
(* Times                                                                   *)

LEMMA StampChange ==
  ASSUME Apart, IInv, Next, stamp' # stamp \/ set' # set
  PROVE  \/ stamp' = now /\ set' = now /\ now' = now
         \/ \E p \in Tracker, r \in Request, t \in Task :
              /\ FinalAnswer(p, r, t) /\ r.kind = "ADD" /\ now' = now /\ set' = set
              /\ stamp' = ct[t] /\ stamp < ct[t] /\ ct[t] =< r.ver /\ r.ver = ctime[r.file]
              /\ <<r.file, r.ver>> \in answered'
  <1>0. stamp \in Int /\ now \in Int /\ ct \in [Task -> Int]
    BY PoolAssumption DEF IInv, Types, MarkTypes, TimeTypes, TaskTypes, Time
  <1>1. ASSUME SyncCommand PROVE stamp' = now /\ set' = now /\ now' = now
    BY <1>1 DEF SyncCommand
  <1>2. ASSUME NEW t \in Task, FinTask(t) PROVE stamp' = now /\ set' = now /\ now' = now
    <2>1. stamp' = IF stamp >= now THEN stamp ELSE now
      BY <1>0, <1>2, MaxOfTwo DEF FinTask
    <2>2. set' = IF now > stamp THEN now ELSE set
      BY <1>2 DEF FinTask
    <2> QED BY <1>0, <1>2, <2>1, <2>2 DEF FinTask
  <1>3. ASSUME NEW p \in Tracker, NEW r \in Request, Answer(p, r)
        PROVE  \E t \in Task :
              /\ FinalAnswer(p, r, t) /\ r.kind = "ADD" /\ now' = now /\ set' = set
              /\ stamp' = ct[t] /\ stamp < ct[t] /\ ct[t] =< r.ver /\ r.ver = ctime[r.file]
              /\ <<r.file, r.ver>> \in answered'
    <2>1. ~UnknownAnswer(p, r) /\ set' = set
      BY <1>3 DEF UnknownAnswer, Answer, FinalAnswer
    <2>2. PICK t \in Task : FinalAnswer(p, r, t)
      BY <1>3, <2>1 DEF Answer
    <2>3. /\ stamp' = IF r.kind = "ADD" THEN SetStamp(t) ELSE stamp
          /\ now' = now /\ <<r.file, r.ver>> \in answered'
      BY <2>2 DEF FinalAnswer, Relay
    <2>4. r.kind = "ADD" /\ stamp' = ct[t] /\ stamp < ct[t]
      BY <1>0, <2>1, <2>3 DEF SetStamp
    <2> QED BY <2>1, <2>2, <2>3, <2>4, AnswerIsCurrent
  <1>4. \/ SyncCommand \/ \E t \in Task : FinTask(t)
        \/ \E p \in Tracker, r \in Request : Answer(p, r)
    BY DEF Next, Clock, Write, Unlink, InotifyEvent, ScanBegin, ScanFile, ScanEnd, TickBegin,
         TickEnd, TryDispatch, NoPeer, Dispatch, Expire, AgentReap, TrackerForgets, Login, Close,
         Crash, Start, AddWatch, SetStartTime, SetOffline, SetOnline, ActiveSync,
         AddToSyncDirList, NotWanted, Wanted, ScanSyncDirList, FetchOk, FetchFails, diskVars
  <1> QED BY <1>1, <1>2, <1>3, <1>4

LEMMA AnsweredGrows == ASSUME Next PROVE answered \subseteq answered' /\ expired \subseteq expired'
  BY ZenonT(30) DEF Next, Clock, Write, Unlink, InotifyEvent, ScanBegin, ScanFile, ScanEnd, TickBegin,
         TickEnd, TryDispatch, NoPeer, Dispatch, Expire, AgentReap, Answer, UnknownAnswer,
         FinalAnswer, Relay, TrackerForgets, Login, Close, Crash, Start, AddWatch, SetStartTime,
         SetOffline, SetOnline, SyncCommand, ActiveSync, AddToSyncDirList, NotWanted, Wanted,
         ScanSyncDirList, FetchOk, FetchFails, FinTask, diskVars

LEMMA StampIsEarnedStep == ASSUME Apart, IInv, Next PROVE StampIsEarned'
  <1>1. CASE stamp' = stamp /\ set' = set
    BY <1>1, AnsweredGrows DEF IInv, StampIsEarned
  <1>2. CASE stamp' # stamp \/ set' # set
    <2>1. CASE stamp' = now /\ set' = now
      BY <2>1 DEF StampIsEarned
    <2>2. ASSUME NEW p \in Tracker, NEW r \in Request, NEW t \in Task,
                 stamp' = ct[t], ct[t] =< r.ver, <<r.file, r.ver>> \in answered'
          PROVE  StampIsEarned'
      <3>1. r.ver \in Int /\ ct[t] \in Int /\ <<r.file, r.ver>>[2] = r.ver
        BY PoolAssumption DEF Request, Time, IInv, Types, TaskTypes
      <3> QED BY <2>2, <3>1 DEF StampIsEarned
    <2> QED BY <1>2, <2>1, <2>2, StampChange
  <1> QED BY <1>1, <1>2

LEMMA ClockIsMonotone ==
  ASSUME Types, Next
  PROVE  now \in Nat /\ (now' = now \/ now' = now + 1)
  <1>1. now \in Nat
    BY PoolAssumption DEF Types, TimeTypes, Time
  <1> QED BY <1>1, ZenonT(30)
     DEF Next, Clock, Write, Unlink, InotifyEvent, ScanBegin, ScanFile, ScanEnd, TickBegin,
         TickEnd, TryDispatch, NoPeer, Dispatch, Expire, AgentReap, Answer, UnknownAnswer,
         FinalAnswer, Relay, TrackerForgets, Login, Close, Crash, Start, AddWatch, SetStartTime,
         SetOffline, SetOnline, SyncCommand, ActiveSync, AddToSyncDirList, NotWanted, Wanted,
         ScanSyncDirList, FetchOk, FetchFails, FinTask

LEMMA TimesArePastStep == ASSUME Apart, IInv, Next PROVE TimesArePast'
  <1>0. /\ Types /\ now \in Nat /\ ctime \in [File -> Time] /\ stamp \in Nat /\ started \in Nat
        /\ Time \subseteq Nat /\ fetched \subseteq File \X Time
    BY PoolAssumption DEF IInv, Types, TimeTypes, MarkTypes, ProcTypes, AskTypes, Time
  <1>1. /\ stamp =< now /\ started =< now /\ \A f \in File : ctime[f] =< now
        /\ \A a \in fetched : a[2] =< now
        /\ \A f \in File : <<f, now>> \in fetched => ctime[f] = now
    BY DEF IInv, Times, TimesArePast
  <1>2. now' = now \/ now' = now + 1
    BY <1>0, ClockIsMonotone
  <1>3. stamp' =< now'
    <2>1. CASE stamp' = stamp
      BY <1>0, <1>1, <1>2, <2>1
    <2>2. ASSUME NEW r \in Request, NEW t \in Task, stamp' = ct[t], ct[t] =< r.ver, r.ver = ctime[r.file]
          PROVE  stamp' =< now'
      <3>1. r.file \in File /\ ct[t] \in Int
        BY PoolAssumption DEF Request, IInv, Types, TaskTypes
      <3>2. ctime[r.file] =< now /\ ctime[r.file] \in Nat
        BY <1>0, <1>1, <3>1
      <3> QED BY <1>0, <1>2, <2>2, <3>1, <3>2
    <2>3. CASE stamp' = now /\ now' = now
      BY <1>0, <2>3
    <2>4. CASE \E p \in Tracker, r \in Request, t \in Task :
                  stamp' = ct[t] /\ ct[t] =< r.ver /\ r.ver = ctime[r.file]
      BY <2>2, <2>4
    <2> QED BY <2>1, <2>3, <2>4, StampChange
  <1>4. started' =< now'
    <2>1. started' = started \/ (started' = now /\ now' = now) \/ started' = 0
      BY LifeChange DEF Crash, Start, AddWatch, SetStartTime, SetOffline, SetOnline,
                        ScanBegin, ScanFile, ScanEnd, procVars
    <2> QED BY <1>0, <1>1, <1>2, <2>1
  <1>5. ASSUME NEW f \in File PROVE ctime'[f] =< now'
    <2>1. ctime'[f] = ctime[f] \/ ctime'[f] = 0 \/ (ctime'[f] = now /\ now' = now)
      BY <1>0, CtimeChange
    <2>2. ctime[f] \in Nat /\ ctime[f] =< now
      BY <1>0, <1>1
    <2> QED BY <1>0, <1>2, <2>1, <2>2
  <1>6. ASSUME NEW a \in fetched' PROVE a[2] =< now'
    <2>1. CASE a \in fetched
      <3>1. a[2] \in Nat
        BY <1>0, <2>1
      <3> QED BY <1>0, <1>1, <1>2, <2>1, <3>1
    <2>2. ASSUME NEW t \in Task, a = <<base[t].file, now>> PROVE a[2] =< now'
      BY <1>0, <1>2, <2>2
    <2> QED BY <1>0, <2>1, <2>2, FetchedGrows
  <1>7. ASSUME NEW f \in File, <<f, now'>> \in fetched' PROVE ctime'[f] = now'
    <2>1. CASE <<f, now'>> \in fetched
      <3>1. now' = now
        <4>1. <<f, now'>>[2] = now'
          OBVIOUS
        <4>2. now' =< now
          BY <1>1, <2>1, <4>1
        <4> QED BY <1>0, <1>2, <4>2
      <3>2. ctime[f] = now
        BY <1>1, <2>1, <3>1
      <3> QED BY <1>0, <3>1, <3>2, CtimeChange
    <2>2. ASSUME NEW t \in Task, FetchOk(t), <<f, now'>> = <<base[t].file, now>>
          PROVE  ctime'[f] = now'
      <3>1. ctime' = [ctime EXCEPT ![f] = now] /\ now' = now
        BY <2>2 DEF FetchOk
      <3> QED BY <1>0, <3>1
    <2> QED BY <1>0, <1>7, <2>1, <2>2, FetchedGrows
  <1> QED BY <1>3, <1>4, <1>5, <1>6, <1>7 DEF TimesArePast

LEMMA ScanIsIdleStep == ASSUME IInv, Next PROVE ScanIsIdle'
  <1>1. Types /\ ScanIsIdle /\ scan \in ScanRec
    BY DEF IInv, Types, ScanTypes, Times
  <1>2. ASSUME ScanBegin PROVE ScanIsIdle'
    BY <1>2 DEF ScanBegin, ScanIsIdle
  <1>3. ASSUME ScanFile PROVE ScanIsIdle'
    <2>1. scan'.mode = scan.mode /\ scan.left > 0
      BY <1>1, <1>3 DEF ScanFile, ScanRec
    <2> QED BY <1>1, <2>1 DEF ScanIsIdle, ScanRec
  <1>4. ASSUME Crash \/ Start \/ ScanEnd PROVE ScanIsIdle'
    BY <1>4 DEF Crash, Start, ScanEnd, NoScan, ScanIsIdle
  <1>5. scan' = scan => ScanIsIdle'
    BY <1>1 DEF ScanIsIdle
  <1> QED BY <1>2, <1>3, <1>4, <1>5, LifeChange DEF AddWatch, SetStartTime, SetOffline, SetOnline

LEMMA ScanIsPastStep == ASSUME Apart, IInv, Next PROVE ScanIsPast'
  <1>0. /\ Types /\ now \in Nat /\ ctime \in [File -> Time] /\ Time \subseteq Nat
        /\ scan.listed \in Seq(Entry) /\ ScanIsPast
        /\ \A f \in File : ctime[f] =< now
    BY PoolAssumption DEF IInv, Types, TimeTypes, ScanTypes, ScanRec, Time, Times, TimesArePast
  <1>1. now' = now \/ now' = now + 1
    BY <1>0, ClockIsMonotone
  <1>2. ASSUME NEW i \in DOMAIN scan.listed
        PROVE  /\ scan.listed[i][2] =< now'
               /\ \/ ctime'[scan.listed[i][1]] = 0
                  \/ scan.listed[i][2] =< ctime'[scan.listed[i][1]]
    <2> DEFINE f == scan.listed[i][1]
               c == scan.listed[i][2]
    <2>1. scan.listed[i] \in Entry
      BY <1>0
    <2>2. f \in File /\ c \in Nat
      BY <1>0, <2>1 DEF Entry
    <2>3. c =< now /\ (ctime[f] = 0 \/ c =< ctime[f])
      BY <1>0 DEF ScanIsPast
    <2> HIDE DEF f, c
    <2>4. ctime'[f] = 0 \/ c =< ctime'[f]
      BY <1>0, <2>2, <2>3, CtimeChange
    <2>5. c =< now'
      BY <1>0, <1>1, <2>2, <2>3
    <2> QED BY <2>4, <2>5 DEF f, c
  <1>3. ASSUME ScanBegin PROVE ScanIsPast'
    <2>1. PICK s \in Seq(File) :
            /\ \A i \in DOMAIN s : s[i] \in File
            /\ scan' = [mode |-> IF scan.mode = "start" THEN "first" ELSE "again",
                        listed |-> [i \in DOMAIN s |-> <<s[i], ctime[s[i]]>>], left |-> Len(s)]
      BY <1>0, <1>3, ScanLists, Zenon
    <2>2. scan'.listed = [i \in DOMAIN s |-> <<s[i], ctime[s[i]]>>]
      BY <2>1
    <2>3. \A i \in DOMAIN s : scan'.listed[i][1] = s[i] /\ scan'.listed[i][2] = ctime[s[i]]
      BY <2>2
    <2>4. ctime' = ctime /\ now' = now
      BY <1>3 DEF ScanBegin, diskVars
    <2>5. \A i \in DOMAIN s : ctime[s[i]] =< now /\ ctime[s[i]] \in Nat
      BY <1>0, <2>1
    <2> QED BY <1>0, <2>2, <2>3, <2>4, <2>5 DEF ScanIsPast
  <1>4. ASSUME ScanFile PROVE ScanIsPast'
    <2>1. scan.listed # <<>>
      BY <1>4 DEF ScanFile, IInv, Types, ScanTypes, ScanRec
    <2>2. \A i \in DOMAIN Tail(scan.listed) :
               Tail(scan.listed)[i] = scan.listed[i + 1] /\ i + 1 \in DOMAIN scan.listed
      BY <1>0, <2>1, NextListed
    <2>3. scan'.listed = scan.listed \/ scan'.listed = Tail(scan.listed)
      BY <1>4 DEF ScanFile, IInv, Types, ScanTypes, ScanRec
    <2> QED BY <1>2, <2>2, <2>3 DEF ScanIsPast
  <1>5. ASSUME Crash \/ Start \/ ScanEnd PROVE ScanIsPast'
    <2>1. scan'.listed = <<>>
      BY <1>5 DEF Crash, Start, ScanEnd, NoScan
    <2> QED BY <2>1 DEF ScanIsPast
  <1>6. scan' = scan => ScanIsPast'
    BY <1>2 DEF ScanIsPast
  <1> QED BY <1>3, <1>4, <1>5, <1>6, LifeChange DEF AddWatch, SetStartTime, SetOffline, SetOnline

LEMMA TimesStep == ASSUME Apart, IInv, Next PROVE Times'
  BY TimesArePastStep, ScanIsIdleStep, ScanIsPastStep DEF Times

----------------------------------------------------------------------------
(* What hides                                                              *)

LEMMA EchoIsHiddenStep == ASSUME Apart, IInv, Next PROVE EchoIsHidden'
  <1>0. /\ Types /\ ctime \in [File -> Time] /\ now \in Time /\ hidden \in [File -> Nat]
        /\ EchoIsHidden /\ OneEvent
        /\ \A f \in File : <<f, now>> \in fetched => ctime[f] = now
    BY DEF IInv, Types, TimeTypes, HideTypes, Hides, Current, Times, TimesArePast
  <1> SUFFICES ASSUME NEW f \in File, About(f)', ctime'[f] # 0, <<f, ctime'[f]>> \in fetched'
               PROVE  hidden'[f] > 0
    BY DEF EchoIsHidden
  <1>1. <<f, ctime'[f]>> \in fetched \/ (ByFetch(f) /\ ctime'[f] = now)
    <2>1. CASE <<f, ctime'[f]>> \in fetched
      BY <2>1
    <2>2. ASSUME NEW t \in Task, FetchOk(t), <<f, ctime'[f]>> = <<base[t].file, now>>
          PROVE  ByFetch(f) /\ ctime'[f] = now
      BY <2>2 DEF ByFetch, FetchOk, Fetched
    <2> QED BY <1>0, <2>1, <2>2, FetchedGrows
  <1>2. CASE ByFetch(f)
    <2>1. PICK t \in Task : FetchOk(t) /\ stat[t] = "WAIT" /\ base[t].file = f
      BY <1>2 DEF ByFetch
    <2>2. adding # f /\ hidden' = hidden
      BY <2>1 DEF FetchOk, Fetched, Apart
    <2>3. adding = f \/ hidden[f] > 0
      BY <2>1 DEF IInv, Fetches, FetchIsAlone, Fetching
    <2> QED BY <2>2, <2>3
  <1>3. CASE ~ByFetch(f)
    <2>1. <<f, ctime'[f]>> \in fetched
      BY <1>1, <1>3
    <2>2. ctime'[f] = ctime[f]
      BY <1>0, <1>3, <2>1, CtimeChange
    <2>3. ~Write(f) /\ ~Unlink(f)
      BY <1>0, <2>2 DEF Write, Unlink
    <2>4. About(f)
      BY <1>0, <1>3, <2>3, AboutOrigin DEF Queued
    <2>5. hidden[f] > 0 /\ hidden[f] \in Nat
      BY <1>0, <2>1, <2>2, <2>4 DEF EchoIsHidden
    <2>6. ~(InotifyEvent /\ Head(events).file = f)
      <3> SUFFICES ASSUME InotifyEvent, Head(events).file = f PROVE FALSE
        OBVIOUS
      <3>1. events # <<>> /\ events' = Tail(events)
        BY DEF InotifyEvent
      <3>2. PICK i \in DOMAIN events' : events'[i].file = f
        BY DEF About
      <3>3. /\ events'[i] = events[i + 1] /\ i + 1 \in DOMAIN events /\ 1 \in DOMAIN events
            /\ events[1].file = f /\ Len(Tail(events)) = Len(events) - 1 /\ Len(events) \in Nat
            /\ Tail(events) \in Seq(Change)
        BY <1>0, <3>1, <3>2, NextEvent
      <3>4. i \in 1 .. Len(Tail(events))
        BY <3>1, <3>2, <3>3
      <3> QED BY <1>0, <3>2, <3>3, <3>4 DEF OneEvent
    <2>7. ~ScanSyncDirList(f) /\ ~Crash
      BY <2>4 DEF ScanSyncDirList, Settled, About, Crash
    <2> QED BY <1>0, <2>5, <2>6, <2>7, HiddenChange
  <1> QED BY <1>2, <1>3

(* An event is in the queue once its file has changed, until it is handled.*)
LEMMA NoticedNow ==
  ASSUME Types, NEW f \in File, ~About(f), watch, Notify([file |-> f, kind |-> "ADD"])
  PROVE  Noticed(f)'
  <1>0. events \in Seq(Change)
    BY DEF Types, EventTypes
  <1> DEFINE e == [file |-> f, kind |-> "ADD"]
  <1>1. e \in Change /\ e.file = f
    BY DEF Change, Kind
  <1>2. events # <<>> => Last(events) # e
    <2>1. events # <<>> => Last(events) = events[Len(events)] /\ Len(events) \in DOMAIN events
      BY <1>0 DEF Last
    <2> QED BY <1>1, <2>1 DEF About
  <1>3. events' = Append(events, e)
    BY <1>2 DEF Notify
  <1> HIDE DEF e
  <1>4. events'[Len(events) + 1] = e /\ Len(events) + 1 \in DOMAIN events'
    BY <1>0, <1>1, <1>3
  <1> QED BY <1>4 DEF Noticed, e

LEMMA NoticedStays ==
  ASSUME Types, Next, NEW f \in File, Noticed(f), ~Crash
  PROVE  \/ Noticed(f)'
         \/ InotifyEvent /\ events # <<>> /\ Head(events) = [file |-> f, kind |-> "ADD"]
  <1>0. events \in Seq(Change)
    BY DEF Types, EventTypes
  <1>1. PICK i \in DOMAIN events : events[i] = [file |-> f, kind |-> "ADD"]
    BY DEF Noticed
  <1>2. CASE InotifyEvent /\ events # <<>> /\ events' = Tail(events)
    <2>1. CASE i = 1
      BY <1>1, <1>2, <2>1, NextEvent
    <2>2. CASE i # 1
      <3>1. i - 1 \in DOMAIN Tail(events) /\ Tail(events)[i - 1] = events[i]
        BY <1>0, <1>1, <1>2, <2>2
      <3> QED BY <1>1, <1>2, <3>1 DEF Noticed
    <2> QED BY <2>1, <2>2
  <1>3. CASE events' = events
    BY <1>1, <1>3 DEF Noticed
  <1>4. ASSUME NEW g \in File, NEW k \in Kind, Queued(g, k) PROVE Noticed(f)'
    <2> DEFINE e == [file |-> g, kind |-> k]
    <2>1. e \in Change /\ events' = Append(events, e)
      BY <1>4 DEF Change, Queued
    <2> HIDE DEF e
    <2>2. i \in DOMAIN events' /\ events'[i] = events[i]
      BY <1>0, <1>1, <2>1
    <2> QED BY <1>1, <2>2 DEF Noticed
  <1> QED BY <1>2, <1>3, <1>4, EventChange

LEMMA HiddenIsDueStep == ASSUME Apart, IInv, Next PROVE HiddenIsDue'
  <1>0. /\ Types /\ ctime \in [File -> Time] /\ now \in Time /\ hidden \in [File -> Nat]
        /\ events \in Seq(Change) /\ HiddenIsDue /\ NoFile \notin File
    BY PoolAssumption DEF IInv, Types, TimeTypes, HideTypes, EventTypes, Hides
  <1> SUFFICES ASSUME NEW f \in File, hidden'[f] > 0, f \notin stray'
               PROVE  /\ hidden'[f] = 1
                      /\ \/ \E t \in Task : stat'[t] = "WAIT" /\ base'[t].file = f
                         \/ Noticed(f)' /\ <<f, ctime'[f]>> \in fetched'
    BY DEF HiddenIsDue
  <1>1. ~Crash
    BY DEF Crash
  <1>2. hidden[f] \in Nat
    BY <1>0
  <1>3. CASE AddToSyncDirList /\ adding = f /\ hidden'[f] = hidden[f] + 1 /\ f \notin stray
    <2>1. PICK t \in Task : stat[t] = "WAIT" /\ base[t].file = f
      BY <1>0, <1>3 DEF IInv, Fetches, AddingIsFetched
    <2>2. hidden[f] = 0
      BY <1>0, <1>2, <1>3 DEF IInv, Fetches, AddingIsFetched
    <2>3. stat' = stat /\ base' = base
      BY <1>3 DEF AddToSyncDirList, taskVars
    <2> QED BY <1>3, <2>1, <2>2, <2>3
  <1>4. CASE hidden[f] > 0 /\ hidden'[f] = hidden[f] - 1 /\ (f \in stray /\ hidden[f] # 1 => f \in stray')
    <2>1. f \notin stray
      BY <1>2, <1>4
    <2>2. hidden[f] = 1
      BY <1>4, <2>1 DEF IInv, Hides, HiddenIsDue
    <2> QED BY <1>4, <2>2
  <1>5. CASE hidden'[f] = hidden[f] /\ f \notin stray
    <2>1. hidden'[f] = 1
      BY <1>0, <1>5 DEF HiddenIsDue
    <2>2. ASSUME NEW t \in Task, stat[t] = "WAIT", base[t].file = f
          PROVE  \/ \E u \in Task : stat'[u] = "WAIT" /\ base'[u].file = f
                 \/ Noticed(f)' /\ <<f, ctime'[f]>> \in fetched'
      <3>1. CASE stat'[t] = "WAIT" /\ base'[t] = base[t]
        BY <2>2, <3>1
      <3>2. CASE FetchOk(t)
        <4>1. /\ Notify([file |-> f, kind |-> "ADD"]) /\ watch
              /\ ctime' = [ctime EXCEPT ![f] = now] /\ fetched' = fetched \union {<<f, now>>}
          BY <2>2, <3>2 DEF FetchOk
        <4>2. ~About(f)
          BY <2>2 DEF IInv, Fetches, FetchIsAlone, Fetching
        <4>7. Noticed(f)'
          BY <1>0, <4>1, <4>2, NoticedNow
        <4> QED BY <1>0, <4>1, <4>7
      <3>3. CASE FetchFails(t) \/ Expire(t)
        BY <2>2, <3>3 DEF FetchFails, Expire
      <3> QED BY <1>1, <2>2, <3>1, <3>2, <3>3, WaitEnds
    <2>3. ASSUME Noticed(f), <<f, ctime[f]>> \in fetched
          PROVE  Noticed(f)' /\ <<f, ctime'[f]>> \in fetched'
      <3>2. About(f)
        BY <2>3 DEF About, Noticed
      <3>3. ctime'[f] = ctime[f]
        BY <1>0, <3>2, CtimeChange, ChangeIsAlone DEF ByUser
      <3>4. <<f, ctime'[f]>> \in fetched'
        BY <1>0, <2>3, <3>3, FetchedGrows
      <3>5. ~(InotifyEvent /\ events # <<>> /\ Head(events) = [file |-> f, kind |-> "ADD"])
        <4> SUFFICES ASSUME InotifyEvent, Head(events) = [file |-> f, kind |-> "ADD"] PROVE FALSE
          OBVIOUS
        <4>1. Head(events).file = f /\ hidden[f] # 0
          BY <1>2, <1>5
        <4>2. self = "OFF_LINE" => stray' = stray \union {f}
          BY <4>1 DEF InotifyEvent
        <4>3. self # "OFF_LINE" => hidden' = [hidden EXCEPT ![f] = @ - 1]
          BY <4>1 DEF InotifyEvent, TakeOut, TakenOut
        <4> QED BY <1>0, <1>2, <1>5, <4>2, <4>3
      <3> QED BY <1>0, <1>1, <2>3, <3>4, <3>5, NoticedStays
    <2> QED BY <1>0, <1>5, <2>1, <2>2, <2>3 DEF HiddenIsDue
  <1> QED BY <1>0, <1>1, <1>2, <1>3, <1>4, <1>5, HiddenChange

LEMMA EchoIsSilentStep == ASSUME Apart, IInv, TaskTimeout > 0, Next PROVE EchoIsSilent'
  <1>0. /\ Types /\ RunIsFindable /\ EchoIsSilent /\ ctime \in [File -> Time]
        /\ now \in Time /\ now # 0 /\ Time \subseteq Int
        /\ \A f \in File : <<f, now>> \in fetched => ctime[f] = now
    BY PoolAssumption
       DEF IInv, Types, TimeTypes, Pool, Hides, Times, TimesArePast, Time
  <1> SUFFICES ASSUME NEW t \in Task, Live(t)', (t \notin Fetching)', ct'[t] = base'[t].ver
               PROVE  <<base'[t].file, base'[t].ver>> \notin fetched'
    BY DEF EchoIsSilent
  <1>1. stat'[t] \notin {"WAIT", "FIN"}
    BY DEF Fetching
  <1>2. CASE Stays(t)
    <2>1. t \notin Fetching /\ Live(t) /\ base'[t] = base[t] /\ ct'[t] = ct[t]
      BY <1>1, <1>2 DEF Stays, Fetching
    <2>2. <<base[t].file, base[t].ver>> \notin fetched /\ base[t].file \in File
      BY <1>0, <2>1 DEF EchoIsSilent, Types, LiveIsMade, Request
    <2>3. ~ByFetch(base[t].file)
      BY <2>1, <2>2, ChangeIsAlone
    <2>4. ASSUME NEW u \in Task, FetchOk(u), <<base[t].file, base[t].ver>> = <<base[u].file, now>>
          PROVE  FALSE
      BY <2>3, <2>4 DEF ByFetch, FetchOk, Fetched
    <2> QED BY <1>0, <2>1, <2>2, <2>4, FetchedGrows
  <1>3. CASE MadeByEvent(t)
    <2> DEFINE e == Head(events)
    <2>1. e.file \in File /\ e.kind \in Kind /\ fetched' = fetched /\ e = events[1] /\ 1 \in DOMAIN events
      BY <1>0, <1>3, NextEvent DEF MadeByEvent, InotifyEvent
    <2>2. base'[t] = [file |-> e.file, kind |-> e.kind,
                      ver |-> IF e.kind = "ADD" THEN ctime[e.file] ELSE now]
      BY <1>3 DEF MadeByEvent
    <2>3. ~Ignored(e) /\ About(e.file) /\ hidden[e.file] \in Nat
      BY <1>0, <1>3, <2>1 DEF MadeByEvent, About, Types, HideTypes
    <2>4. CASE e.kind = "ADD"
      <3>1. base'[t].file = e.file /\ base'[t].ver = ctime[e.file]
        BY <2>2, <2>4
      <3>2. ctime[e.file] # 0 /\ ~(hidden[e.file] > 0)
        BY <2>3, <2>4 DEF Ignored
      <3> QED BY <2>1, <2>3, <3>1, <3>2 DEF IInv, Hides, EchoIsHidden
    <2>5. CASE e.kind = "DEL"
      <3>1. base'[t].file = e.file /\ base'[t].ver = now
        BY <2>2, <2>5
      <3>2. ctime[e.file] = 0
        BY <2>1, <2>5 DEF IInv, Current, DelIsGone
      <3> QED BY <1>0, <2>1, <3>1, <3>2
    <2> QED BY <2>1, <2>4, <2>5 DEF Kind
  <1>4. CASE MadeByScan(t)
    <2> DEFINE f == Head(scan.listed)[1]
               c == Head(scan.listed)[2]
    <2>1. /\ f \in File /\ c \in Time /\ 1 \in DOMAIN scan.listed /\ Head(scan.listed) = scan.listed[1]
      BY <1>0, <1>4, NextListed DEF MadeByScan
    <2>2. base'[t] = [file |-> f, kind |-> "ADD", ver |-> ctime[f]] /\ ct'[t] = c - TaskTimeout
          /\ ctime[f] # 0
      BY <1>4 DEF MadeByScan
    <2>3. c =< ctime[f]
      BY <2>1, <2>2 DEF IInv, Times, ScanIsPast
    <2>4. base'[t].ver = ctime[f] /\ ctime[f] \in Time
      BY <1>0, <2>1, <2>2
    <2> HIDE DEF f, c
    <2>5. c \in Int /\ ctime[f] \in Int /\ TaskTimeout \in Int
      BY <2>1, <2>4, PoolAssumption DEF Time
    <2>6. c - TaskTimeout = ctime[f]
      BY <2>2, <2>4
    <2> QED BY <2>3, <2>5, <2>6
  <1>5. ASSUME NEW f \in File, MadeByFetch(t, f) PROVE FALSE
    BY <1>1, <1>5 DEF MadeByFetch
  <1> QED BY <1>0, <1>2, <1>3, <1>4, <1>5, TaskOrigin

LEMMA HidesStep == ASSUME Apart, IInv, Next PROVE Hides'
  BY EchoIsHiddenStep, HiddenIsDueStep, EchoIsSilentStep DEF Hides

LEMMA DownIsBlankStep == ASSUME IInv, Next PROVE DownIsBlank'
  <1>1. ASSUME Crash PROVE DownIsBlank'
    BY <1>1 DEF Crash, DownIsBlank, NoScan
  <1>2. CASE life = "up" /\ ~Crash
    <2>1. life' = "up"
      BY <1>2, LifeChange DEF procVars, Start, AddWatch, SetStartTime, SetOffline, SetOnline,
                              ScanBegin, ScanFile, ScanEnd
    <2> QED BY <2>1 DEF DownIsBlank
  <1>3. CASE life # "up"
    <2>1. life = "down" /\ DownIsBlank
      BY <1>3 DEF IInv, Types, ProcTypes
    <2>2. ~Event /\ ~MayDispatch
      BY <1>3 DEF Event, MayDispatch
    <2>5. Clock \/ Start \/ (\E f \in File : Write(f) \/ Unlink(f))
          \/ \E p \in Tracker, r \in Request : TrackerForgets(p, r)
      BY <1>3, <2>2, ZenonT(30) DEF Next, InotifyEvent, ScanBegin, ScanFile, ScanEnd, TickBegin, TickEnd,
         TryDispatch, NoPeer, Dispatch, Expire, AgentReap, Answer, UnknownAnswer, FinalAnswer, Relay,
         Login, Close, Crash, AddWatch, SetStartTime, SetOffline, SetOnline, SyncCommand, ActiveSync,
         AddToSyncDirList, NotWanted, Wanted, Offered, ScanSyncDirList, FetchOk, FetchFails, Fetched,
         FinTask
    <2>6. Clock \/ (\E p \in Tracker, r \in Request : TrackerForgets(p, r))
            => UNCHANGED <<procVars, scan, stat, events, login, adding>>
      BY DEF Clock, TrackerForgets, taskVars, netVars, fetchVars, askVars
    <2>3. ASSUME NEW f \in File, Write(f) \/ Unlink(f)
          PROVE  UNCHANGED <<procVars, scan, stat, events, login, adding>>
      BY <2>1, <2>3 DEF DownIsBlank, Write, Unlink, Notify, taskVars, netVars, fetchVars, askVars
    <2>4. CASE Start
      BY <2>4 DEF Start, DownIsBlank
    <2> QED BY <2>1, <2>3, <2>4, <2>5, <2>6 DEF DownIsBlank, procVars
  <1> QED BY <1>1, <1>2, <1>3

----------------------------------------------------------------------------
(* The theorems                                                            *)

LEMMA TypesStep == ASSUME IInv, Next PROVE Types'
  <1>1. Types /\ RunIsFindable
    BY DEF IInv, Pool
  <1> QED BY <1>1, TimeTypesStep, MarkTypesStep, ProcTypesStep, EventTypesStep, ScanTypesStep,
             TaskTypesStep, NetTypesStep, AskTypesStep, HideTypesStep, SigTypesStep, LiveIsMadeStep
          DEF Types

LEMMA NextIInv == ASSUME Apart, IInv, Next PROVE IInv'
  BY TypesStep, PoolStep, FetchesStep, CurrentStep, TimesStep, HidesStep, DownIsBlankStep,
     StampIsEarnedStep DEF IInv

LEMMA StutterIInv == ASSUME IInv, UNCHANGED vars PROVE IInv'
  <1> USE DEF vars, diskVars, procVars, taskVars, netVars, sigVars, hideVars, askVars, fetchVars
  <1>1. Types'
    BY DEF IInv, Types, TimeTypes, MarkTypes, ProcTypes, EventTypes, ScanTypes, TaskTypes, NetTypes,
           AskTypes, HideTypes, SigTypes, LiveIsMade, Live
  <1>2. Pool'
    BY DEF IInv, Pool, OneEach, RunIsFindable, RestIsUnhashed, RunIsAwaited, Live
  <1>3. Fetches'
    BY DEF IInv, Fetches, FetchIsAlone, FetchIsQuiet, AddingIsFetched, Fetching, About, Live
  <1>4. Current'
    BY DEF IInv, Current, OneEvent, DelIsGone, OwedIsCurrent, TaskIsCurrent, Fetching, Live
  <1>5. Times'
    BY DEF IInv, Times, TimesArePast, ScanIsPast, ScanIsIdle
  <1>6. Hides'
    BY DEF IInv, Hides, EchoIsHidden, HiddenIsDue, EchoIsSilent, Fetching, About, Noticed, Live
  <1>7. DownIsBlank' /\ StampIsEarned'
    BY DEF IInv, DownIsBlank, StampIsEarned
  <1> QED BY <1>1, <1>2, <1>3, <1>4, <1>5, <1>6, <1>7 DEF IInv

(* The inductive invariant holds of every FCS none of whose files changes  *)
(* while a change of it is dealt with.                                     *)
THEOREM IInvHolds == ASSUME Apart PROVE Spec => []IInv
  <1>1. IInv /\ [Next]_vars => IInv'
    BY NextIInv, StutterIInv
  <1> QED BY InitIInv, <1>1, PTL DEF Spec

(* The task lists, alltask, the tasklists of the trackers and what these   *)
(* owe agree: vfs_task.c finds and moves the right nodes, whatever         *)
(* trackers close, crashes and fetches come in between.                    *)
THEOREM ListsAreSound == ASSUME Apart PROVE Spec => []ListsSound
  <1>1. IInv => ListsSound
    BY TypesGiveTypeOK DEF IInv, Pool, ListsSound
  <1> QED BY IInvHolds, <1>1, PTL

(* The stamp on disk never runs ahead of the answers: set_fcs_time_stamp   *)
(* moves it to the ctime of a task some tracker has answered for.          *)
THEOREM StampsAreEarned == ASSUME Apart PROVE Spec => []StampIsEarned
  <1>1. IInv => StampIsEarned
    BY DEF IInv
  <1> QED BY IInvHolds, <1>1, PTL

(* While no change of a file races with a fetch of it (Apart):             *)
(* do_newtask puts a fetch into alltask before it enters it into           *)
(* sync_dir_list (fcs/vfs_sig_sub.c:127-129), and what happens to the file *)
(* in between, or before the event of the fetch is read, is not covered.   *)
(* Then a fetch is silent and leaves no trace: its own change makes no     *)
(* task, and every entry of sync_dir_list that stays is due or was left by *)
(* a fetch without a file.                                                 *)
THEOREM FetchesAreSound == ASSUME Apart, TaskTimeout > 0 PROVE Spec => []FetchSound
  <1>1. IInv => FetchSound
    <2> SUFFICES ASSUME IInv PROVE FetchSound
      OBVIOUS
    <2>1. \A t \in Task : Live(t) /\ t \notin Fetching /\ ct[t] = base[t].ver =>
            <<base[t].file, base[t].ver>> \notin fetched
      BY DEF IInv, Hides, EchoIsSilent
    <2>2. ASSUME NEW f \in File, hidden[f] > 0, f \notin stray
          PROVE  UnderWay(f) \/ Noticed(f)
      BY <2>2 DEF IInv, Hides, HiddenIsDue, UnderWay, Fetching
    <2> QED BY <2>1, <2>2 DEF FetchSound
  <1> QED BY IInvHolds, <1>1, PTL

----------------------------------------------------------------------------
(* No change is let go before it is answered                               *)

LEMMA MissedGrows == ASSUME Next PROVE missed \subseteq missed'
  <1>1. \/ missed' = missed
        \/ InotifyEvent /\ missed \subseteq missed'
    BY ZenonT(30) DEF Next, Clock, Write, Unlink, InotifyEvent, ScanBegin, ScanFile, ScanEnd, TickBegin,
         TickEnd, TryDispatch, NoPeer, Dispatch, Expire, AgentReap, Answer, UnknownAnswer,
         FinalAnswer, Relay, TrackerForgets, Login, Close, Crash, Start, AddWatch, SetStartTime,
         SetOffline, SetOnline, SyncCommand, ActiveSync, AddToSyncDirList, NotWanted, Wanted,
         ScanSyncDirList, FetchOk, FetchFails, FinTask, hideVars, fetchVars
  <1> QED BY <1>1

(* The event of a change, handled by an FCS on line, makes a task of it,   *)
(* unless a fetch made the change or an entry left behind hides it.        *)
LEMMA EventIsDealtWith ==
  ASSUME Apart, IInv, Next, NEW f \in File, ctime[f] # 0, self # "OFF_LINE",
         InotifyEvent, events # <<>>, Head(events) = [file |-> f, kind |-> "ADD"]
  PROVE  \/ <<f, ctime[f]>> \in fetched \union missed'
         \/ \E t \in Task : Live(t)' /\ base'[t] = [file |-> f, kind |-> "ADD", ver |-> ctime[f]]
  <1>0. Types /\ hidden[f] \in Nat /\ Head(events).file = f /\ Head(events).kind = "ADD"
    BY DEF IInv, Types, HideTypes
  <1>1. CASE hidden[f] = 0
    <2>1. ~Ignored(Head(events))
      BY <1>0, <1>1 DEF Ignored
    <2>2. PICK t \in Task : MadeByEvent(t)
      BY <1>0, <2>1, EventMakes
    <2> QED BY <1>0, <2>2 DEF MadeByEvent, Live
  <1>2. CASE hidden[f] > 0 /\ f \in stray
    <2>1. missed' = missed \union {<<g, ctime[g]>> : g \in {f} \intersect stray}
      BY <1>0, <1>2 DEF InotifyEvent
    <2> QED BY <1>2, <2>1
  <1>3. CASE hidden[f] > 0 /\ f \notin stray
    <2>1. About(f)
      BY <1>0, NextEvent DEF About
    <2>2. ~\E t \in Task : stat[t] = "WAIT" /\ base[t].file = f
      BY <2>1 DEF IInv, Fetches, FetchIsAlone, Fetching
    <2> QED BY <1>3, <2>2 DEF IInv, Hides, HiddenIsDue
  <1> QED BY <1>0, <1>1, <1>2, <1>3

LEMMA DealtStays ==
  ASSUME Apart, IInv, Next, NEW f \in File, Dealt(f), ctime'[f] = ctime[f],
         ~Crash, self # "OFF_LINE"
  PROVE  Dealt(f)'
  <1>0. Types
    BY DEF IInv
  <1>1. CASE ctime[f] = 0
    BY <1>1 DEF Dealt
  <1>2. CASE <<f, ctime[f]>> \in answered \union expired \union fetched \union missed
    BY <1>0, <1>2, AnsweredGrows, FetchedGrows, MissedGrows DEF Dealt
  <1>3. CASE Noticed(f) /\ ctime[f] # 0
    <2>1. CASE Noticed(f)'
      BY <2>1 DEF Dealt
    <2>2. CASE InotifyEvent /\ events # <<>> /\ Head(events) = [file |-> f, kind |-> "ADD"]
      BY <1>0, <1>3, <2>2, EventIsDealtWith, FetchedGrows DEF Dealt, Held
    <2> QED BY <1>0, <1>3, <2>1, <2>2, NoticedStays
  <1>4. CASE Held(f) /\ ctime[f] # 0
    <2>1. PICK t \in Task : Live(t) /\ base[t] = [file |-> f, kind |-> "ADD", ver |-> ctime[f]]
      BY <1>4 DEF Held
    <2>2. CASE Live(t)' /\ base'[t] = base[t]
      BY <2>1, <2>2 DEF Held, Dealt
    <2>3. t \notin Fetching
      <3>1. base[t].ver # 0
        BY <1>4, <2>1
      <3> QED BY <3>1 DEF IInv, Fetches, FetchIsAlone
    <2>4. CASE Expire(t)
      BY <2>1, <2>4 DEF Expire, Dealt
    <2>5. ASSUME NEW p \in Tracker, NEW r \in Request, FinalAnswer(p, r, t) PROVE Dealt(f)'
      <3>1. base[t] = r
        BY <2>1, <2>5, AnswerIsCurrent
      <3> QED BY <2>1, <2>5, <3>1 DEF FinalAnswer, Relay, Dealt
    <2>6. ~FinTask(t)
      BY <2>3 DEF FinTask, Fetching
    <2> QED BY <2>1, <2>2, <2>4, <2>5, <2>6, LiveEnds
  <1> QED BY <1>1, <1>2, <1>3, <1>4 DEF Dealt

(* While no change overtakes the one before it (Apart), no step of an FCS  *)
(* that is on line lets go of a change it holds before a tracker has       *)
(* answered for it: over closed connections, requeued tasks and late       *)
(* answers, a change noticed becomes a task and stays one, until it is     *)
(* older than task_timeout.                                                *)
THEOREM ChangesAreHeld == ASSUME Apart PROVE Spec => HeldUntilAnswered
  <1> DEFINE Keeps == \A f \in File :
               Dealt(f) /\ ctime'[f] = ctime[f] /\ life' = "up" /\ self # "OFF_LINE" => Dealt(f)'
  <1>1. ASSUME IInv, Next PROVE Keeps
    <2>1. life' = "up" => ~Crash
      BY DEF Crash
    <2> QED BY <1>1, <2>1, DealtStays
  <1>2. ASSUME UNCHANGED vars PROVE Keeps
    BY <1>2 DEF vars, diskVars, taskVars, fetchVars, hideVars, Dealt, Noticed, Held, Live
  <1>3. IInv /\ [Next]_vars => [Keeps]_vars
    BY <1>1, <1>2
  <1> QED BY IInvHolds, <1>3, PTL DEF Spec, HeldUntilAnswered

----------------------------------------------------------------------------
(* What a restart relies on                                                *)

(* A change that is neither dealt with nor covered by the stamp is still   *)
(* to be found: the FCS is down or off line, or has not listed the         *)
(* directory yet, or has it in the list it is going through.               *)
Left == {scan.listed[i][1] : i \in 1 .. scan.left}
Coming(f) ==
    \/ life = "down" \/ self = "OFF_LINE"
    \/ self = "UNKOWN_STAT" /\ scan.mode # "again"
    \/ scan.mode = "start" /\ (started = 0 \/ ctime[f] =< started)
    \/ f \in Left
NoneMissing == \A f \in File : Dealt(f) \/ ctime[f] < stamp \/ Coming(f)
ScanIsThere ==
    /\ Len(scan.listed) = scan.left
    /\ scan.mode = "again" => self = "UNKOWN_STAT"
    /\ \A i \in 1 .. scan.left : ctime[scan.listed[i][1]] # 0
RInv == NoneMissing /\ ScanIsThere /\ stamp > 0

LEMMA ScanBegins ==
  ASSUME IInv, ScanBegin
  PROVE  /\ scan'.mode = IF scan.mode = "start" THEN "first" ELSE "again"
         /\ Len(scan'.listed) = scan'.left
         /\ \A i \in 1 .. scan'.left : ctime[scan'.listed[i][1]] # 0
         /\ \A f \in Listed : ctime[f] # 0 => f \in Left'
  <1>1. Types
    BY DEF IInv
  <1>2. PICK s \in Seq(File) :
          LET l == [i \in DOMAIN s |-> <<s[i], ctime[s[i]]>>]
          IN  /\ \A f \in Listed \ {f \in File : ctime[f] = 0} : \E i \in DOMAIN s : s[i] = f
              /\ \A i \in DOMAIN s : s[i] \in File /\ s[i] \in Listed /\ ctime[s[i]] # 0
              /\ Len(l) = Len(s)
              /\ scan' = [mode |-> IF scan.mode = "start" THEN "first" ELSE "again",
                          listed |-> l, left |-> Len(s)]
    BY <1>1, ScanLists, Zenon
  <1> DEFINE l == [i \in DOMAIN s |-> <<s[i], ctime[s[i]]>>]
  <1>3. scan'.listed = l /\ scan'.left = Len(s) /\ DOMAIN s = 1 .. Len(s) /\ Len(l) = Len(s)
        /\ scan'.mode = IF scan.mode = "start" THEN "first" ELSE "again"
    BY <1>2
  <1>4. \A i \in DOMAIN s : l[i][1] = s[i]
    OBVIOUS
  <1>5. \A f \in Listed : ctime[f] # 0 => \E i \in DOMAIN s : s[i] = f
    BY <1>2 DEF Listed
  <1>6. \A i \in DOMAIN s : ctime[s[i]] # 0
    BY <1>2
  <1> HIDE DEF l
  <1> QED BY <1>3, <1>4, <1>5, <1>6 DEF Left

LEMMA ScanGoesOn ==
  ASSUME IInv, ScanIsThere, ScanFile
  PROVE  /\ scan'.mode = scan.mode /\ Len(scan'.listed) = scan'.left
         /\ \A i \in 1 .. scan'.left : ctime[scan'.listed[i][1]] # 0
         /\ \A f \in Left : f \in Left' \/ Held(f)'
  <1>0. /\ Types /\ scan.listed \in Seq(Entry) /\ Len(scan.listed) = scan.left /\ scan.left \in Nat
        /\ scan.left > 0 /\ scan \in ScanRec
    BY PoolAssumption, FS_CardinalityType DEF IInv, Types, ScanTypes, ScanRec, ScanIsThere, ScanFile
  <1>1. scan.listed # <<>>
    BY <1>0
  <1>2. /\ Head(scan.listed) = scan.listed[1] /\ 1 \in 1 .. scan.left
        /\ Len(Tail(scan.listed)) = scan.left - 1
        /\ \A i \in 1 .. (scan.left - 1) : Tail(scan.listed)[i] = scan.listed[i + 1]
    BY <1>0, <1>1, NextListed
  <1>3. ctime[Head(scan.listed)[1]] # 0
    BY <1>2 DEF ScanIsThere
  <1>4. scan' = [scan EXCEPT !.listed = Tail(@), !.left = @ - 1]
    BY <1>3 DEF ScanFile
  <1>5. scan'.mode = scan.mode /\ scan'.listed = Tail(scan.listed) /\ scan'.left = scan.left - 1
    BY <1>0, <1>4 DEF ScanRec
  <1>6. \A i \in 1 .. scan'.left : /\ scan'.listed[i] = scan.listed[i + 1]
                                   /\ i + 1 \in 1 .. scan.left
    BY <1>0, <1>2, <1>5
  <1>7. \A i \in 1 .. scan'.left : ctime[scan'.listed[i][1]] # 0
    BY <1>6 DEF ScanIsThere
  <1>8. ASSUME NEW f \in Left PROVE f \in Left' \/ Held(f)'
    <2>1. PICK i \in 1 .. scan.left : f = scan.listed[i][1]
      BY DEF Left
    <2>2. CASE i = 1
      <3>1. PICK t \in Task : MadeByScan(t)
        BY <1>0, <1>3, ScanMakes
      <3>2. ctime' = ctime
        BY DEF ScanFile, diskVars
      <3> QED BY <1>2, <2>1, <2>2, <3>1, <3>2 DEF MadeByScan, Held, Live
    <2>3. CASE i # 1
      <3>1. i - 1 \in 1 .. scan'.left /\ (i - 1) + 1 = i
        BY <1>0, <1>5, <2>3
      <3>2. scan'.listed[i - 1] = scan.listed[i]
        BY <1>6, <3>1
      <3> QED BY <2>1, <3>1, <3>2 DEF Left
    <2> QED BY <2>2, <2>3
  <1> QED BY <1>2, <1>5, <1>7, <1>8

(* The files that are listed stay: none is deleted while the scan has it.  *)
LEMMA ListedStays ==
  ASSUME Clear, IInv, Next, NEW f \in File, ctime[f] # 0, scan.left # 0
  PROVE  ctime'[f] # 0
  <1>1. ~Unlink(f)
    BY DEF Unlink, Clear
  <1>2. now # 0
    BY DEF IInv, Types, TimeTypes
  <1> QED BY <1>1, <1>2, CtimeChange DEF IInv

LEMMA ScanIsThereStep == ASSUME Clear, IInv, ScanIsThere, Next PROVE ScanIsThere'
  <1>0. scan.left \in Nat /\ (scan.mode \in {"none", "start"} => scan.left = 0)
        /\ scan.listed \in Seq(Entry) /\ Len(scan.listed) = scan.left
    BY PoolAssumption, FS_CardinalityType
       DEF IInv, Types, ScanTypes, ScanRec, ScanIsThere, Times, ScanIsIdle
  <1>1. ASSUME ScanBegin PROVE ScanIsThere'
    <2>1. scan.mode = "start" \/ self = "UNKOWN_STAT"
      BY <1>1 DEF ScanBegin
    <2>2. ctime' = ctime /\ self' = self
      BY <1>1 DEF ScanBegin, diskVars, procVars
    <2> QED BY <1>1, <2>1, <2>2, ScanBegins DEF ScanIsThere
  <1>2. ASSUME ScanFile PROVE ScanIsThere'
    <2>1. ctime' = ctime /\ self' = self
      BY <1>2 DEF ScanFile, diskVars, procVars
    <2> QED BY <1>2, <2>1, ScanGoesOn DEF ScanIsThere
  <1>3. ASSUME ScanEnd \/ Crash \/ Start PROVE ScanIsThere'
    <2>1. scan'.listed = <<>> /\ scan'.left = 0 /\ scan'.mode # "again"
      BY <1>3 DEF ScanEnd, Crash, Start, NoScan
    <2> QED BY <2>1 DEF ScanIsThere
  <1>4. ASSUME scan' = scan, scan.mode = "again" => self' = "UNKOWN_STAT" PROVE ScanIsThere'
    <2>1. ASSUME NEW i \in 1 .. scan.left PROVE ctime'[scan.listed[i][1]] # 0
      <3>1. scan.listed[i][1] \in File
        BY <1>0 DEF Entry
      <3>2. ctime[scan.listed[i][1]] # 0 /\ scan.left # 0
        BY DEF ScanIsThere
      <3> QED BY <3>1, <3>2, ListedStays
    <2> QED BY <1>4, <2>1 DEF ScanIsThere
  <1>5. ASSUME AddWatch \/ SetStartTime \/ SetOffline \/ SetOnline
        PROVE  scan' = scan /\ (scan.mode = "again" => self' = "UNKOWN_STAT")
    BY <1>5 DEF AddWatch, SetStartTime, SetOffline, SetOnline, Clear, ScanIsThere
  <1>6. UNCHANGED procVars => (scan.mode = "again" => self' = "UNKOWN_STAT")
    BY DEF procVars, ScanIsThere
  <1> QED BY <1>1, <1>2, <1>3, <1>4, <1>5, <1>6, LifeChange

(* The stamp never goes back.                                              *)
LEMMA StampGrows ==
  ASSUME Apart, IInv, Next
  PROVE  /\ stamp \in Nat /\ stamp' \in Nat /\ stamp =< stamp'
         /\ stamp > 0 => stamp' > 0
  <1>1. /\ stamp \in Nat /\ stamp' \in Nat /\ now \in Nat /\ stamp =< now
        /\ \A t \in Task : ct[t] \in Int
    <2>1. MarkTypes'
      BY MarkTypesStep DEF IInv
    <2> QED BY <2>1, PoolAssumption
       DEF IInv, Types, MarkTypes, TimeTypes, TaskTypes, Time, Times, TimesArePast
  <1>2. CASE stamp' = stamp
    BY <1>1, <1>2
  <1>3. CASE stamp' = now
    BY <1>1, <1>3
  <1>4. ASSUME NEW t \in Task, stamp' = ct[t], stamp < ct[t]
        PROVE  stamp =< stamp' /\ (stamp > 0 => stamp' > 0)
    BY <1>1, <1>4
  <1> QED BY <1>1, <1>2, <1>3, <1>4, StampChange

(* A change just made is noticed, or the FCS is down, or a fetch made it.  *)
LEMMA NewIsDealtWith ==
  ASSUME Apart, Clear, IInv, Next, NEW f \in File, ctime'[f] # ctime[f]
  PROVE  Dealt(f)' \/ life' = "down"
  <1>0. Types /\ ctime \in [File -> Time]
    BY DEF IInv, Types, TimeTypes
  <1>1. CASE Write(f)
    <2>1. Notify([file |-> f, kind |-> "ADD"]) /\ life' = life /\ (watch \/ life = "down")
      BY <1>1 DEF Write, Watched, Clear, procVars
    <2>2. ~About(f)
      BY <1>1, ChangeIsAlone DEF ByUser
    <2>3. watch => Noticed(f)'
      BY <1>0, <2>1, <2>2, NoticedNow
    <2> QED BY <2>1, <2>3 DEF Dealt
  <1>2. CASE ctime'[f] = 0
    BY <1>2 DEF Dealt
  <1>3. CASE ByFetch(f)
    <2>1. PICK t \in Task : FetchOk(t) /\ base[t].file = f
      BY <1>3 DEF ByFetch
    <2>2. ctime' = [ctime EXCEPT ![f] = now] /\ <<f, now>> \in fetched'
      BY <2>1 DEF FetchOk
    <2> QED BY <1>0, <2>2 DEF Dealt
  <1> QED BY <1>0, <1>1, <1>2, <1>3, CtimeChange

(* What is still to be found stays so until it is.                         *)
LEMMA ComingStays ==
  ASSUME Apart, Clear, IInv, ScanIsThere, stamp > 0, Next, NEW f \in File,
         Coming(f), ctime'[f] = ctime[f], ctime[f] # 0, ctime[f] >= stamp, ~Crash
  PROVE  Coming(f)' \/ Held(f)'
  <1>0. /\ scan.mode \in ScanMode /\ scan.left \in Nat /\ started \in Nat /\ now \in Nat
        /\ ctime[f] \in Nat /\ ctime[f] =< now /\ stamp \in Nat
        /\ (scan.mode \in {"none", "start"} => scan.left = 0)
        /\ self \in {"ON_LINE", "OFF_LINE", "UNKOWN_STAT"} /\ life \in {"up", "down"}
    BY PoolAssumption, FS_CardinalityType
       DEF IInv, Types, ScanTypes, ScanRec, TimeTypes, ProcTypes, MarkTypes, Time, Times,
           ScanIsIdle, TimesArePast
  <1>1. scan.left = 0 => f \notin Left
    BY DEF Left
  <1>2. CASE UNCHANGED <<procVars, scan>>
    BY <1>2 DEF procVars, Coming, Left
  <1>3. CASE Start
    <2>1. life = "down" /\ started = 0 /\ started' = started /\ scan'.mode = "start"
      BY <1>3 DEF Start, NoScan, IInv, DownIsBlank
    <2> QED BY <2>1 DEF Coming
  <1>4. CASE AddWatch
    BY <1>4 DEF AddWatch, Coming, Left
  <1>5. CASE SetStartTime
    <2>1. life = "up" /\ started' = now /\ UNCHANGED <<self, scan>>
      BY <1>5 DEF SetStartTime
    <2> QED BY <1>0, <2>1 DEF Coming, Left
  <1>6. CASE SetOffline
    BY <1>6 DEF SetOffline, Coming
  <1>7. CASE SetOnline
    <2>1. self' = "UNKOWN_STAT" /\ scan' = scan /\ scan.mode # "again"
      BY <1>7 DEF SetOnline, ScanIsThere
    <2> QED BY <2>1 DEF Coming
  <1>8. CASE ScanBegin
    <2>1. /\ UNCHANGED procVars /\ life = "up"
          /\ scan.mode = "start" \/ (scan.mode = "none" /\ self = "UNKOWN_STAT")
      BY <1>8 DEF ScanBegin
    <2>2. scan.left = 0
      BY <1>0, <2>1
    <2>3. ScanFrom = stamp
      BY <1>0 DEF ScanFrom
    <2>4. CASE self = "OFF_LINE"
      BY <2>1, <2>4 DEF procVars, Coming
    <2>5. CASE self # "OFF_LINE"
      <3>1. ctime[f] =< ScanUpTo
        BY <1>0, <1>1, <2>1, <2>2, <2>5 DEF Coming, ScanUpTo
      <3>2. f \in Listed
        BY <2>3, <3>1 DEF Listed
      <3> QED BY <1>8, <3>2, ScanBegins DEF Coming
    <2> QED BY <2>4, <2>5
  <1>9. CASE ScanFile
    <2>1. UNCHANGED procVars /\ scan.left > 0 /\ life = "up"
      BY <1>9 DEF ScanFile
    <2>2. scan'.mode = scan.mode /\ (f \in Left => f \in Left' \/ Held(f)')
      BY <1>9, ScanGoesOn
    <2> QED BY <1>0, <2>1, <2>2 DEF Coming, procVars
  <1>10. CASE ScanEnd
    <2>1. /\ scan.mode \in {"first", "again"} /\ scan.left = 0 /\ scan'.mode = "none" /\ life = "up"
          /\ self' = IF scan.mode = "again" THEN "ON_LINE" ELSE self
      BY <1>10 DEF ScanEnd, NoScan
    <2>2. self = "OFF_LINE" \/ (self = "UNKOWN_STAT" /\ scan.mode # "again")
      BY <1>1, <2>1 DEF Coming
    <2>3. self' = self
      BY <2>1, <2>2 DEF ScanIsThere
    <2> QED BY <2>1, <2>2, <2>3 DEF Coming
  <1> QED BY <1>2, <1>3, <1>4, <1>5, <1>6, <1>7, <1>8, <1>9, <1>10, LifeChange

LEMMA NoneMissingStep == ASSUME Apart, Clear, IInv, RInv, Next PROVE NoneMissing'
  <1> SUFFICES ASSUME NEW f \in File, ~Dealt(f)', ~(ctime'[f] < stamp') PROVE Coming(f)'
    BY DEF NoneMissing
  <1>0. ctime[f] \in Nat /\ ctime' \in [File -> Time] /\ Time \subseteq Nat
    <2>1. TimeTypes'
      BY TimeTypesStep DEF IInv
    <2> QED BY <2>1, PoolAssumption DEF IInv, Types, TimeTypes, Time
  <1>1. CASE ctime'[f] # ctime[f]
    BY <1>1, NewIsDealtWith DEF Coming
  <1>2. CASE Crash
    BY <1>2 DEF Crash, Coming
  <1>3. CASE ctime'[f] = ctime[f] /\ ~Crash
    <2>1. ctime[f] # 0 /\ ctime[f] >= stamp
      BY <1>0, <1>3, StampGrows DEF Dealt
    <2>2. Coming(f)
      <3>1. self = "OFF_LINE" \/ ~Dealt(f)
        BY <1>3, DealtStays
      <3>2. ~(ctime[f] < stamp)
        BY <1>0, <2>1, StampGrows
      <3> QED BY <3>1, <3>2 DEF RInv, NoneMissing, Coming
    <2>3. ~Held(f)'
      BY DEF Dealt
    <2> QED BY <1>3, <2>1, <2>2, <2>3, ComingStays DEF RInv
  <1> QED BY <1>1, <1>2, <1>3

LEMMA InitRInv == ASSUME Clear, Init PROVE RInv
  <1>1. NoneMissing
    BY DEF Init, NoneMissing, Dealt
  <1>2. ScanIsThere /\ stamp > 0
    BY DEF Init, Clear, NoScan, ScanIsThere
  <1> QED BY <1>1, <1>2 DEF RInv

LEMMA NextRInv == ASSUME Apart, Clear, IInv, RInv, Next PROVE RInv'
  BY NoneMissingStep, ScanIsThereStep, StampGrows DEF RInv

LEMMA StutterRInv == ASSUME RInv, UNCHANGED vars PROVE RInv'
  <1> USE DEF vars, diskVars, procVars, taskVars, netVars, sigVars, hideVars, askVars, fetchVars
  <1>1. \A f \in File : (Dealt(f)' <=> Dealt(f)) /\ (Coming(f)' <=> Coming(f))
    BY DEF Dealt, Coming, Noticed, Held, Left, Live
  <1>2. NoneMissing'
    BY <1>1 DEF RInv, NoneMissing
  <1> QED BY <1>2 DEF RInv, ScanIsThere

(* After a crash or a time off line, a change no tracker has answered for  *)
(* is held again unless the stamp has passed it, and the stamp covers only *)
(* what was answered: what do_sub_old_task relies on at a restart.         *)
THEOREM StampsAreSound == ASSUME Apart, Clear PROVE Spec => []StampSound
  <1>1. IInv /\ RInv => StampSound
    <2> SUFFICES ASSUME IInv, RInv, Recovered, NEW f \in File PROVE Dealt(f) \/ ctime[f] < stamp
      BY DEF StampSound, RecoveredOrBelowStamp, IInv
    <2>1. scan.left = 0
      BY DEF IInv, Times, ScanIsIdle, Recovered
    <2>2. f \notin Left
      BY <2>1 DEF Left
    <2>3. ~Coming(f)
      BY <2>2 DEF Recovered, Coming
    <2> QED BY <2>3 DEF RInv, NoneMissing
  <1>2. Init => RInv
    BY InitRInv
  <1>3. IInv /\ RInv /\ [Next]_vars => RInv'
    BY NextRInv, StutterRInv
  <1> QED BY IInvHolds, <1>1, <1>2, <1>3, PTL DEF Spec
=============================================================================
