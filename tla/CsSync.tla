------------------------------- MODULE CsSync -------------------------------
(***************************************************************************)
(* How a content server (CS) catches up when it starts or comes back: it   *)
(* asks other servers, one directory at a time, for the files changed      *)
(* since its time stamps, fetches them, and then declares itself ON_LINE,  *)
(* from when on other CSs take it as a source (network/cs/vfs_sig.c,       *)
(* vfs_sig_base.c, vfs_sig_sub.c).                                         *)
(*                                                                         *)
(* A CS of a big ISP is modelled, an archive or not, with the servers of   *)
(* one group.  A CS that is no archive asks one server about a directory,  *)
(* an archive asks several.  A server answers a SYNC_DIR_REQ with a        *)
(* NEWTASK_REQ for each file (here at most one) and a SYNC_DIR_RSP, in the *)
(* order asked, on whatever connection of the CS it then finds.            *)
(* SYNC_DEL_REQ is the same for deleted files.                             *)
(***************************************************************************)
EXTENDS Integers, SequencesExt

CONSTANTS
    Dir,       \* the directories, each with a domain, of self_ipinfo.dirs
    NoDir,     \* peer->vfs_sync_list = NULL
    Mate,      \* the CSs of the group with this ISP
    Below,     \* those of them with a smaller ip than this CS
    Far,       \* the CSs of the group with another ISP
    Shelf,     \* the CSs of the group on the list of archives of this one
    Nobody,    \* sync_task.ip = 0
    Origin,    \* the FCS of the domain
    Faults,    \* the kinds of faults of this instance
    MaxFault   \* bound on their number

FaultKind == {"close", "late", "voss", "resync", "offline", "expire"}

ASSUME GroupAssumption ==
    /\ IsFiniteSet(Dir) /\ NoDir \notin Dir /\ Below \subseteq Mate
    /\ Mate \intersect Far = {} /\ Origin \notin Mate \union Far
    /\ IsFiniteSet(Mate \union Far) /\ Shelf \subseteq Mate \union Far
    /\ Nobody \notin Mate \union Far \union {Origin}
    /\ Faults \subseteq FaultKind /\ MaxFault \in Nat

Cs == Mate \union Far
Peer == Cs \union {Origin}
Entry == Dir \X (Peer \union {Nobody})
ServerStat == {"UNKOWN_STAT", "WAIT_SYNC", "ON_LINE", "OFF_LINE"}

VARIABLES
    archive,   \* self_ipinfo.archive
    self,      \* self_stat
    flag,      \* sync_para.flag
    list,      \* sync_list: directories and, of an archive, whom to ask
    asked,     \* peer->vfs_sync_list
    up,        \* the peers find_ip_stat finds
    known,     \* peer->server_stat
    owed,      \* the directories each server has been asked for, in order
    begun,     \* servers with the NEWTASK_REQ of their next answer sent
    behind,    \* total_sync_task - total_synced_task
    fetching,  \* live tasks that came with TASK_SYNC_DIR
    pc,        \* the signalling thread: an event, or where in svc_timeout
    answered,  \* history: directories answered since the last init_sync_list,
               \* and by whom
    crossed,   \* history: an answer was pending when its connection was a new
               \* one or the CS no longer waited for it; or an operator had a
               \* directory synchronised before the list was begun
    faults     \* bounds the faults

syncVars == <<flag, list, asked>>
peerVars == <<up, known, owed, begun>>
taskVars == <<behind, fetching>>
vars == <<archive, self, syncVars, peerVars, taskVars, pc, answered, crossed, faults>>

Fault(kind) ==
    /\ kind \in Faults /\ faults < MaxFault
    /\ faults' = faults + 1

Init ==
    /\ archive \in BOOLEAN
    /\ self = "UNKOWN_STAT"
    /\ flag = 2
    /\ list = <<>>
    /\ asked = [p \in Peer |-> NoDir]
    /\ up = {}
    /\ known = [p \in Peer |-> "UNKOWN_STAT"]
    /\ owed = [p \in Peer |-> <<>>]
    /\ begun = {}
    /\ behind = 0 /\ fetching = 0
    /\ pc = "event"
    /\ answered = {}
    /\ crossed = FALSE
    /\ faults = 0

(* The list has been begun since the start, or since coming back on line.  *)
Serving == self \in {"WAIT_SYNC", "ON_LINE"}
Pending == \E p \in Peer : owed[p] # <<>>

----------------------------------------------------------------------------
(* svc_timeout                                                             *)

DirList == SetToSeq(Dir \X {Nobody})

(* An unknown state, or cs_sync_dir set by the maintenance port: the whole *)
(* list is queued ahead of what is left of the last one.                   *)
Restart ==
    /\ self' = "WAIT_SYNC"
    /\ flag' = 0
    /\ list' = DirList \o list
    /\ answered' = {}
    /\ crossed' = (crossed \/ Pending)
    /\ UNCHANGED asked

TickBegin ==
    /\ pc = "event" /\ pc' = "sync"
    /\ \/ self = "UNKOWN_STAT" /\ Restart /\ UNCHANGED faults
       \/ Fault("resync") /\ Restart
       \/ self # "UNKOWN_STAT" /\ UNCHANGED <<self, syncVars, answered, crossed, faults>>
    /\ UNCHANGED <<archive, peerVars, taskVars>>

NoSync ==
    /\ pc = "sync" /\ self # "WAIT_SYNC" /\ pc' = "tasks"
    /\ UNCHANGED <<archive, self, syncVars, peerVars, taskVars, answered, crossed, faults>>

(* 600 s without the answer: the next directory is asked for, the entry of *)
(* the last one stays with its peer.                                       *)
TooLong ==
    /\ pc = "sync" /\ self = "WAIT_SYNC" /\ flag = 1 /\ Fault("late")
    /\ flag' = 0
    /\ crossed' = (crossed \/ Pending)
    /\ UNCHANGED <<archive, self, list, asked, peerVars, taskVars, pc, answered>>

(* Still busy or nothing more, or do_active_sync returns at once: too many *)
(* tasks of directories, or outside the hours of the configuration.        *)
NotNow ==
    /\ pc = "sync" /\ self = "WAIT_SYNC" /\ pc' = "online"
    /\ UNCHANGED <<archive, self, syncVars, peerVars, taskVars, answered, crossed, faults>>

MayAsk ==
    /\ pc = "sync" /\ self = "WAIT_SYNC" /\ flag = 0 /\ ~archive
    /\ pc' = "online"

NoMore ==
    /\ MayAsk /\ list = <<>>
    /\ flag' = 2
    /\ UNCHANGED <<archive, self, list, asked, peerVars, taskVars, answered, crossed, faults>>

(* pushcs: the archive_isp of a CS in csinfo.  For one that is no archive  *)
(* init_csinfo writes ISP_FCS, do_active_sync looks for UNKNOW_ISP.        *)
ArchiveIsp(p) == IF p \in Shelf THEN "ARCHIVE" ELSE "ISP_FCS"
Row(S) == {p \in S : ArchiveIsp(p) = "UNKNOW_ISP"}

(* The sources for the directory at the head of the list: CSs that are     *)
(* ON_LINE, of this ISP if there is one; the FCS when no connected CS of   *)
(* this ISP may become one soon, or has a smaller ip.                      *)
ReadyIn(S) == {p \in Row(S) \intersect up : known[p] = "ON_LINE"}
ReadyCs == IF ReadyIn(Mate) # {} THEN ReadyIn(Mate) ELSE ReadyIn(Far)
MateUnknown == \E p \in Row(Mate) \intersect up : known[p] = "UNKOWN_STAT"
NotFirst == Row(Below) \intersect up # {}
WaitsAtHead == ReadyCs = {} /\ (MateUnknown \/ NotFirst)
Source ==
    IF ReadyCs # {} THEN ReadyCs
    ELSE IF WaitsAtHead THEN {} ELSE {Origin} \intersect up

(* do_sub_sync: whatever entry the peer still has is overwritten.          *)
SubSync(p, d) ==
    /\ flag' = 1
    /\ asked' = [asked EXCEPT ![p] = d]
    /\ owed' = [owed EXCEPT ![p] = Append(@, d)]

Ask(p) ==
    /\ MayAsk /\ list # <<>> /\ p \in Source
    /\ SubSync(p, Head(list)[1])
    /\ list' = Tail(list)
    /\ UNCHANGED <<archive, self, up, known, begun, taskVars, answered, crossed, faults>>

(* No source: the entry stays at the head, or goes to the tail while the   *)
(* FCS is being connected to.                                              *)
NoSource ==
    /\ MayAsk /\ list # <<>> /\ Source = {}
    /\ list' = IF WaitsAtHead THEN list ELSE Append(Tail(list), Head(list))
    /\ UNCHANGED <<archive, self, flag, asked, peerVars, taskVars, answered, crossed, faults>>

(* do_active_sync_archive goes through the list: an entry with an ip is    *)
(* asked for, if that server is connected and owes nothing; one without is *)
(* decomposed.                                                             *)
ArchiveBegin ==
    /\ pc = "sync" /\ self = "WAIT_SYNC" /\ flag = 0 /\ archive
    /\ pc' = "asking"
    /\ UNCHANGED <<archive, self, syncVars, peerVars, taskVars, answered, crossed, faults>>

Askable == {i \in DOMAIN list : list[i][2] \in up /\ asked[list[i][2]] = NoDir}
First(S) == {i \in S : \A j \in S : i =< j}
ArchiveAsk ==
    /\ pc = "asking"
    /\ \E i \in First(Askable) :
        /\ SubSync(list[i][2], list[i][1])
        /\ list' = RemoveAt(list, i)
    /\ UNCHANGED <<archive, self, up, known, begun, taskVars, pc, answered, crossed, faults>>

(* decompose_sync_dir_archive: the CSs of this ISP and the other archives. *)
(* If the entry was the last, the loop ends before the new ones, and those *)
(* it passed over go behind them.                                          *)
Sources == {p \in Cs : IF p \in Shelf THEN TRUE ELSE p \in Mate}
Whole == {i \in DOMAIN list : list[i][2] = Nobody}
Decompose ==
    /\ pc = "asking" /\ Askable = {}
    /\ \E i \in First(Whole) :
        LET each == SetToSeq({list[i][1]} \X Sources)
            rest == RemoveAt(list, i)
        IN  IF i = Len(list)
            THEN list' = each \o rest /\ pc' = "online"
            ELSE list' = rest \o each /\ pc' = pc
    /\ UNCHANGED <<archive, self, flag, asked, peerVars, taskVars, answered, crossed, faults>>

ArchiveEnd ==
    /\ pc = "asking" /\ Askable = {} /\ Whole = {}
    /\ pc' = "online"
    /\ UNCHANGED <<archive, self, syncVars, peerVars, taskVars, answered, crossed, faults>>

(* Everything asked for and everything fetched: ON_LINE, though self_stat  *)
(* may have been changed since it was read.  Seeded fault: the tasks are   *)
(* not waited for.                                                         *)
NothingAsked == flag = 2
CaughtUp == flag = 2 /\ behind =< 0
GoOnline ==
    /\ pc = "online" /\ pc' = "tasks"
    /\ self' = IF CaughtUp THEN "ON_LINE" ELSE self
    /\ UNCHANGED <<archive, syncVars, peerVars, taskVars, answered, crossed, faults>>

(* do_fin_task: a task of a directory has ended, well or badly.            *)
FinTask ==
    /\ pc = "tasks" /\ fetching > 0
    /\ fetching' = fetching - 1
    /\ behind' = behind - 1
    /\ self' = IF flag = 2 /\ behind' =< 0 /\ self # "OFF_LINE" THEN "ON_LINE" ELSE self
    /\ UNCHANGED <<archive, syncVars, peerVars, pc, answered, crossed, faults>>

(* do_voss_sync_dir: an operator has asked for a directory.                *)
VossSyncDir(d) ==
    /\ pc = "tasks" /\ Fault("voss")
    /\ list' = <<<<d, Nobody>>>> \o list
    /\ self' = "WAIT_SYNC"
    /\ flag' = 0
    /\ answered' = answered \ ({d} \X Peer)
    /\ crossed' = (crossed \/ Pending \/ ~Serving)
    /\ UNCHANGED <<archive, asked, peerVars, taskVars, pc>>

(* do_timeout_task: the task goes HOME and is counted by no one.           *)
Expire ==
    /\ pc = "tasks" /\ fetching > 0 /\ Fault("expire")
    /\ fetching' = fetching - 1
    /\ UNCHANGED <<archive, self, syncVars, peerVars, behind, pc, answered, crossed>>

TickEnd ==
    /\ pc = "tasks" /\ pc' = "event"
    /\ UNCHANGED <<archive, self, syncVars, peerVars, taskVars, answered, crossed, faults>>

----------------------------------------------------------------------------
(* Messages and connections                                                *)

(* do_newtask with TASK_SYNC_DIR; a CS that is off line takes none from    *)
(* another CS.                                                             *)
NewTask(p) ==
    /\ pc = "event" /\ p \in up /\ owed[p] # <<>> /\ p \notin begun
    /\ begun' = begun \union {p}
    /\ IF p \in Cs /\ self = "OFF_LINE"
       THEN UNCHANGED taskVars
       ELSE behind' = behind + 1 /\ fetching' = fetching + 1
    /\ UNCHANGED <<archive, self, syncVars, up, known, owed, pc, answered, crossed, faults>>

(* SYNC_DIR_RSP: the entry of the peer is freed, whichever directory the   *)
(* answer is about.  Seeded fault: flag is left alone.                     *)
StillBusy == flag
Idle == 0
SyncDirRsp(p) ==
    /\ pc = "event" /\ p \in up /\ owed[p] # <<>>
    /\ owed' = [owed EXCEPT ![p] = Tail(@)]
    /\ begun' = begun \ {p}
    /\ asked' = [asked EXCEPT ![p] = NoDir]
    /\ flag' = Idle
    /\ answered' = answered \union {<<Head(owed[p]), p>>}
    /\ UNCHANGED <<archive, self, list, up, known, taskVars, pc, crossed, faults>>

Connect(p) ==
    /\ pc = "event" /\ p \notin up
    /\ up' = up \union {p}
    /\ crossed' = (crossed \/ owed[p] # <<>>)
    /\ known' = [known EXCEPT ![p] = "UNKOWN_STAT"]
    /\ UNCHANGED <<archive, self, syncVars, owed, begun, taskVars, pc, answered, faults>>

(* ADDONE or a heartbeat; a CS catches up once.  An archive asks whatever  *)
(* the state of the other: there it is left out.                           *)
Hear(p, s) ==
    /\ pc = "event" /\ p \in up \intersect Cs /\ ~archive
    /\ \/ known[p] = "UNKOWN_STAT" /\ s \in {"WAIT_SYNC", "ON_LINE"}
       \/ known[p] = "WAIT_SYNC" /\ s = "ON_LINE"
    /\ known' = [known EXCEPT ![p] = s]
    /\ UNCHANGED <<archive, self, syncVars, up, owed, begun, taskVars, pc, answered, crossed, faults>>

(* svc_finiconn: the peer's entry goes back to the list.  Seeded faults:   *)
(* it is freed with the peer; flag is left alone.                          *)
Back(p) == <<asked[p], IF archive THEN p ELSE Nobody>>
Freed(p) == list
PutBack(p) == IF asked[p] = NoDir THEN list ELSE Append(list, Back(p))
FlagKept(p) == flag
FlagOnClose(p) == IF asked[p] = NoDir THEN flag ELSE 0

Close(p) ==
    /\ pc = "event" /\ p \in up /\ Fault("close")
    /\ up' = up \ {p}
    /\ known' = [known EXCEPT ![p] = "UNKOWN_STAT"]
    /\ list' = PutBack(p)
    /\ flag' = FlagOnClose(p)
    /\ asked' = [asked EXCEPT ![p] = NoDir]
    /\ begun' = begun \ {p}
    /\ UNCHANGED <<archive, self, owed, taskVars, pc, answered, crossed>>

(* A request or its answer is lost with the connection, or the server does *)
(* not find the CS when it has the answer.                                 *)
ServerForgets(p) ==
    /\ p \notin up /\ owed[p] # <<>>
    /\ owed' = [owed EXCEPT ![p] = Tail(@)]
    /\ UNCHANGED <<archive, self, syncVars, up, known, begun, taskVars, pc, answered, crossed, faults>>

(* do_ip_off_line and check_self_stat, on other threads.                   *)
SetOffline ==
    /\ self # "OFF_LINE" /\ Fault("offline")
    /\ self' = "OFF_LINE"
    /\ UNCHANGED <<archive, syncVars, peerVars, taskVars, pc, answered, crossed>>

SetOnline ==
    /\ self = "OFF_LINE"
    /\ self' = "UNKOWN_STAT"
    /\ UNCHANGED <<archive, syncVars, peerVars, taskVars, pc, answered, crossed, faults>>

----------------------------------------------------------------------------
AskSome == \E p \in Peer : Ask(p)

Next ==
    \/ TickBegin \/ NoSync \/ TooLong \/ NotNow \/ NoMore
    \/ AskSome \/ NoSource \/ GoOnline
    \/ ArchiveBegin \/ ArchiveAsk \/ Decompose \/ ArchiveEnd
    \/ FinTask \/ Expire \/ TickEnd
    \/ \E d \in Dir : VossSyncDir(d)
    \/ \E p \in Peer : NewTask(p) \/ SyncDirRsp(p) \/ Connect(p) \/ Close(p)
    \/ \E p \in Peer : ServerForgets(p) \/ \E s \in ServerStat : Hear(p, s)
    \/ SetOffline \/ SetOnline

Spec == Init /\ [][Next]_vars

(* svc_timeout keeps being called, and once in a while within the hours of *)
(* the configuration; scan_cfg_iplist_and_connect and active_connect keep  *)
(* connecting.  A server answers while the connection lasts, and what is   *)
(* fetched ends.                                                           *)
Fairness ==
    /\ WF_vars(\/ TickBegin \/ NoSync \/ NotNow \/ GoOnline \/ TickEnd
                  \/ ArchiveAsk \/ Decompose \/ ArchiveEnd)
    /\ SF_vars(AskSome \/ NoMore \/ ArchiveBegin) /\ SF_vars(FinTask)
    /\ SF_vars(\E p \in Peer : SyncDirRsp(p))
    /\ SF_vars(\E p \in Peer : Connect(p) \/ ServerForgets(p))

FairSpec == Spec /\ Fairness

----------------------------------------------------------------------------
(* Properties                                                              *)

(* Every variable stays in its domain; total_synced_task stays within      *)
(* total_sync_task, short of it by the tasks alive at least.               *)
TypeOK ==
    /\ archive \in BOOLEAN
    /\ self \in ServerStat
    /\ flag \in 0 .. 2
    /\ list \in Seq(Entry)
    /\ asked \in [Peer -> Dir \union {NoDir}]
    /\ up \subseteq Peer
    /\ known \in [Peer -> ServerStat]
    /\ owed \in [Peer -> Seq(Dir)]
    /\ begun \subseteq Peer
    /\ fetching \in Nat /\ behind - fetching \in Nat
    /\ pc \in {"event", "sync", "asking", "online", "tasks"}
    /\ answered \subseteq Dir \X Peer
    /\ crossed \in BOOLEAN
    /\ faults \in 0 .. MaxFault

(* The CS never waits for nobody: while flag is 1, some connected peer has *)
(* an entry and owes an answer, whatever closes, answers of an earlier     *)
(* connection, restarts of the list and operators did.                     *)
WaitsForSomeone ==
    flag = 1 => \E p \in up : asked[p] # NoDir /\ owed[p] # <<>> /\ Last(owed[p]) = asked[p]

(* As long as no answer crosses a new connection or comes when the CS no   *)
(* longer waits for it, and no operator asks for a directory before the    *)
(* list is begun, no directory is forgotten: it is in the list, asked of a *)
(* connected peer, or answered; of an archive, for each server to ask.     *)
Listed(d, p) == \E i \in DOMAIN list : list[i] = <<d, p>>
NoDirForgotten ==
    Serving /\ ~crossed =>
        \A d \in Dir :
            \/ Listed(d, Nobody)
            \/ ~archive /\ \E p \in Peer : <<d, p>> \in answered \/ asked[p] = d
            \/ archive /\ \A p \in Sources :
                   <<d, p>> \in answered \/ asked[p] = d \/ Listed(d, p)

(* The CS offers itself as a source only with every file it was told of    *)
(* dealt with, and, with the same exceptions, every directory answered.    *)
(* An archive never does: nothing sets its flag to 2.                      *)
OnlineIsSynced ==
    [][self # "ON_LINE" /\ self' = "ON_LINE" =>
         /\ fetching' = 0 /\ ~archive
         /\ crossed \/ \A d \in Dir : \E p \in Peer : <<d, p>> \in answered]_vars

(* A CS that is no archive asks the FCS only, whichever CSs of the group   *)
(* are ready: of those, do_active_sync takes none.                         *)
OriginIsAsked == archive \/ \A p \in Cs : asked[p] = NoDir

(* A CS that waits to be in sync gets there, an archive as far as having   *)
(* every answer, whatever peers close, come late or are asked again,       *)
(* unless it is taken off line, or one of its fetches expired and so is    *)
(* counted by no one.                                                      *)
AllAnswered == list = <<>> /\ \A p \in Peer : asked[p] = NoDir
EventuallyInSync ==
    self = "WAIT_SYNC" ~>
        \/ self = "OFF_LINE" \/ behind > fetching
        \/ IF archive THEN AllAnswered ELSE self = "ON_LINE"
=============================================================================
