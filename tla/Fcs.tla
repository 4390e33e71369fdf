-------------------------------- MODULE Fcs --------------------------------
(***************************************************************************)
(* The FCS role (origin server): the inotify thread that notices changes,  *)
(* the directory scan after a restart or after coming back on line, the    *)
(* signalling thread that sends tasks to a tracker, takes its answers and  *)
(* moves the time stamp on disk (network/fcs/, network/vfs_time_stamp.c).  *)
(*                                                                         *)
(* One directory d1/d2 is modelled, with its one time stamp.  A task is a  *)
(* t_vfs_tasklist node as in Tracker.  A version of a file is its ctime.   *)
(* The trackers are the environment: for each request they relay up to     *)
(* Answers answers, one per ISP, at any time, over any later connection.   *)
(* The CSs are the environment too: asked for the directory, they offer    *)
(* what they have of it, and the data thread fetches it or does not.       *)
(***************************************************************************)
EXTENDS Integers, FiniteSetsExt, SequencesExt

CONSTANTS
    Task,         \* the pool of t_vfs_tasklist nodes
    File,         \* the files of the directory
    Tracker,      \* the trackers that connect to this FCS
    NoTracker,    \* the empty userlist
    NoFile,       \* the name in a zeroed task.base
    FcsMaxTask,   \* g_config.fcs_max_task
    TaskTimeout,  \* g_config.task_timeout, taken off the ctime of an old task
    Answers,      \* answers a tracker relays for one request (one per ISP)
    InitStamp,    \* the stamp on disk at first: 0 when never written
    Resubmits,    \* a file may change before its last change is dealt with
    Faults,       \* the kinds of faults of this instance
    MaxFault,     \* bound on their number
    Windows,      \* the races of a restart this instance lets happen
    MaxTime       \* bound on the clock

FaultKind == {"close", "expire", "crash", "offline", "command"}
(* "watch": a file changes after the start and before it is watched;       *)
(* "md5": a listed file is deleted before the scan gets to it;             *)
(* "offline": the FCS is taken off line while it scans for coming back;    *)
(* "echo": a fetch ends before its file is in sync_dir_list;               *)
(* "twice": a file is fetched while it is scanned or a change is under way *)
WindowKind == {"watch", "md5", "offline", "echo", "twice"}

ASSUME PoolAssumption ==
    /\ NoTracker \notin Tracker /\ NoFile \notin File /\ IsFiniteSet(File)
    /\ FcsMaxTask \in Nat /\ Answers \in Nat \ {0} /\ TaskTimeout \in Nat
    /\ InitStamp \in 0 .. 1 /\ Resubmits \in BOOLEAN
    /\ Faults \subseteq FaultKind /\ Windows \subseteq WindowKind
    /\ MaxFault \in Nat /\ MaxTime \in Nat \ {0}

Time == 0 .. MaxTime
Kind == {"ADD", "DEL"}
Request == [file : File, kind : Kind, ver : Time]
Blank == [file |-> NoFile, kind |-> "DEL", ver |-> 0]
(* WAIT: with the data thread, to be fetched from a CS; FIN: it is done.   *)
Status == {"HOME", "WAIT_SYNC", "WAIT_SYNC_IP", "RUN", "WAIT", "FIN", "CLEAN"}

VARIABLES
    now,      \* the clock
    ctime,    \* st_ctime of each file, 0 when it does not exist
    stamp,    \* the directory's entry in vfs_fcs_time_stamp
    life,     \* the process: "up" or "down"
    self,     \* self_stat
    watch,    \* inotify_add_watch has reached the directory
    started,  \* vfs_start_time, 0 until main sets it
    events,   \* the inotify queue
    scan,     \* process_dir_sync: [mode, listed, left]
    stat,     \* the list each task is in
    base,     \* task.base: file, type and the version its md5 is of
    ct,       \* task.base.ctime, TaskTimeout earlier in a task of the scan
    hashed,   \* tasks linked in alltask
    owner,    \* the tracker whose tasklist holds the task
    login,    \* the peers of trackerlist
    load,     \* peer->taskcount
    owed,     \* owed[p][r]: answers tracker p will still relay for r
    listed,   \* the directory is in sync_list
    asked,    \* the files CSs may still offer
    adding,   \* the file do_newtask is about to put in sync_dir_list
    hidden,   \* the entries of each file in sync_dir_list
    stray,    \* history: files with an entry that no fetch will take out
    missed,   \* history: <<file, version>> such an entry has hidden
    fetched,  \* history: <<file, version>> brought by a fetch
    pc,       \* the signalling thread: an event or check_task
    once,     \* the loop counter of check_task
    answered, \* history: <<file, version>> a tracker has answered for
    expired,  \* history: <<file, version>> whose task was older than task_timeout
    set,      \* history: the last stamp an operator's command has set
    met,      \* history: files that had a second task made about them
    faults    \* bounds the faults

diskVars == <<ctime, stamp, answered, expired, set>>
procVars == <<life, self, watch, started>>
taskVars == <<stat, base, ct, hashed, owner, met>>
netVars  == <<login, load, owed>>
sigVars  == <<pc, once>>
hideVars == <<hidden, stray, missed>>
askVars == <<listed, asked, adding>>
fetchVars == <<askVars, hideVars, fetched>>
vars == <<now, diskVars, procVars, events, scan, taskVars, netVars, fetchVars, sigVars, faults>>

Fault(kind) ==
    /\ kind \in Faults /\ faults < MaxFault
    /\ faults' = faults + 1

Live(t) == stat[t] \notin {"HOME", "CLEAN"}
NoScan == [mode |-> "none", listed |-> <<>>, left |-> 0]

(* A working FCS: its directory is empty and its threads idle.             *)
Init ==
    /\ now = 1
    /\ ctime = [f \in File |-> 0]
    /\ stamp = InitStamp
    /\ life = "up" /\ self = "ON_LINE" /\ watch = TRUE /\ started = 1
    /\ events = <<>>
    /\ scan = NoScan
    /\ stat = [t \in Task |-> "HOME"]
    /\ base = [t \in Task |-> Blank]
    /\ ct = [t \in Task |-> 0]
    /\ hashed = {}
    /\ owner = [t \in Task |-> NoTracker]
    /\ login = {}
    /\ load = [p \in Tracker |-> 0]
    /\ owed = [p \in Tracker |-> [r \in Request |-> 0]]
    /\ listed = FALSE /\ asked = {} /\ adding = NoFile
    /\ hidden = [f \in File |-> 0] /\ stray = {} /\ missed = {} /\ fetched = {}
    /\ pc = "event" /\ once = 0
    /\ answered = {} /\ expired = {} /\ set = InitStamp
    /\ met = {}
    /\ faults = 0

----------------------------------------------------------------------------
(* Files and inotify                                                       *)

(* The kernel merges an event into an equal one at the tail of the queue.  *)
Notify(e) ==
    events' = IF watch /\ (events = <<>> \/ Last(events) # e)
              THEN Append(events, e) ELSE events

(* The last change of f is no longer under way.                            *)
Settled(f) ==
    /\ \A t \in Task : Live(t) => base[t].file # f
    /\ \A i \in DOMAIN events : events[i].file # f
    /\ \A p \in Tracker, r \in Request : r.file = f => owed[p][r] = 0

Watched == watch \/ life = "down" \/ "watch" \in Windows

Clock ==
    /\ now < MaxTime /\ now' = now + 1
    /\ UNCHANGED <<fetchVars, diskVars, procVars, events, scan, taskVars, netVars, sigVars, faults>>

(* A file is written and closed, or moved in.                              *)
Write(f) ==
    /\ Resubmits \/ Settled(f)
    /\ Watched
    /\ ctime[f] # now
    /\ ctime' = [ctime EXCEPT ![f] = now]
    /\ Notify([file |-> f, kind |-> "ADD"])
    /\ UNCHANGED <<fetchVars, now, stamp, answered, expired, set, procVars, scan, taskVars, netVars, sigVars, faults>>

(* A file is deleted, or moved away; the clock moves on, which bounds how  *)
(* often.                                                                  *)
Unlink(f) ==
    /\ Resubmits \/ Settled(f)
    /\ Watched
    /\ scan.left = 0 \/ "md5" \in Windows
    /\ ctime[f] # 0 /\ now < MaxTime
    /\ now' = now + 1
    /\ ctime' = [ctime EXCEPT ![f] = 0]
    /\ Notify([file |-> f, kind |-> "DEL"])
    /\ UNCHANGED <<fetchVars, stamp, answered, expired, set, procVars, scan, taskVars, netVars, sigVars, faults>>

(* A node of HOME is filled and linked in the list s.  A change goes to    *)
(* WAIT_SYNC, not in alltask yet.  Free nodes are alike: a fixed order     *)
(* stands for that of the list.                                            *)
NewNode(t, b, s) ==
    /\ stat[t] = "HOME" /\ t = CHOOSE u \in Task : stat[u] = "HOME"
    /\ stat' = [stat EXCEPT ![t] = s]
    /\ base' = [base EXCEPT ![t] = b]
    /\ met' = met \union {f \in {b.file} : \E u \in Task : Live(u) /\ base[u].file = f}
NewTask(t, b) == NewNode(t, b, "WAIT_SYNC")

(* check_sync_dir_list: one entry of the file goes.  Seeded fault: it is   *)
(* found and left.                                                         *)
LeftIn(f) == hidden
TakenOut(f) == [hidden EXCEPT ![f] = @ - 1]
TakeOut(f) ==
    /\ hidden' = TakenOut(f)
    /\ stray' = IF hidden[f] = 1 THEN stray \ {f} ELSE stray

(* inotify_event_handler: dropped when off line; when the file is in       *)
(* sync_dir_list, since a fetch has brought it; or when it is gone by the  *)
(* time its ADD event is handled.  Otherwise a task is made, with the      *)
(* ctime the file has by then.                                             *)
Ignored(e) ==
    self = "OFF_LINE" \/ hidden[e.file] > 0 \/ (e.kind = "ADD" /\ ctime[e.file] = 0)
InotifyEvent ==
    /\ life = "up" /\ events # <<>>
    /\ LET e == Head(events)
           v == IF e.kind = "ADD" THEN ctime[e.file] ELSE now
       IN /\ IF Ignored(e)
             THEN UNCHANGED taskVars
             ELSE /\ \E t \in Task :
                       /\ NewTask(t, [file |-> e.file, kind |-> e.kind, ver |-> v])
                       /\ ct' = [ct EXCEPT ![t] = v]
                  /\ UNCHANGED <<hashed, owner>>
          /\ IF hidden[e.file] = 0 THEN UNCHANGED hideVars
             ELSE IF self = "OFF_LINE"
                  THEN stray' = stray \union {e.file} /\ UNCHANGED <<hidden, missed>>
             ELSE /\ TakeOut(e.file)
                  /\ missed' = missed \union {<<f, ctime[f]>> : f \in {e.file} \intersect stray}
    /\ events' = Tail(events)
    /\ UNCHANGED <<askVars, fetched, now, diskVars, procVars, scan, netVars, sigVars, faults>>

----------------------------------------------------------------------------
(* The scan of the directory (sync_dir_thread)                             *)

(* do_sub_old_task reads the stamp and process_dir_sync lists the files    *)
(* changed since then: up to vfs_start_time at start-up (no limit while    *)
(* main has not set it), up to the present when coming back on line.  A    *)
(* stamp that was never written stands for the newest file, plus one.      *)
(* Seeded fault: a file as old as the stamp is left out.                   *)
NewestFile == Max({ctime[f] : f \in File} \union {0})
ScanFrom == IF stamp = 0 THEN NewestFile + 1 ELSE stamp
ScanUpTo == IF self = "ON_LINE" /\ started # 0 THEN started ELSE now
ListedAfter == {f \in File : ctime[f] > ScanFrom /\ ctime[f] =< ScanUpTo}
Listed == {f \in File : ctime[f] >= ScanFrom /\ ctime[f] =< ScanUpTo}

ScanBegin ==
    /\ life = "up"
    /\ \/ scan.mode = "start"
       \/ scan.mode = "none" /\ self = "UNKOWN_STAT"
    /\ \E s \in SetToSeqs(Listed \ {f \in File : ctime[f] = 0}) :
        scan' = [mode |-> IF scan.mode = "start" THEN "first" ELSE "again",
                 listed |-> [i \in DOMAIN s |-> <<s[i], ctime[s[i]]>>],
                 left |-> Len(s)]
    /\ UNCHANGED <<fetchVars, now, diskVars, procVars, events, taskVars, netVars, sigVars, faults>>

(* One turn of the loop over the listed files.  A file that has gone makes *)
(* the md5 fail, and the loop goes on with the same entry.                 *)
ScanFile ==
    /\ life = "up" /\ scan.left > 0
    /\ LET f == Head(scan.listed)[1]
           listedCtime == Head(scan.listed)[2]
       IN IF ctime[f] = 0
          THEN /\ scan' = [scan EXCEPT !.left = @ - 1]
               /\ UNCHANGED taskVars
          ELSE /\ \E t \in Task :
                    /\ NewTask(t, [file |-> f, kind |-> "ADD", ver |-> ctime[f]])
                    /\ ct' = [ct EXCEPT ![t] = listedCtime - TaskTimeout]
               /\ scan' = [scan EXCEPT !.listed = Tail(@), !.left = @ - 1]
               /\ UNCHANGED <<hashed, owner>>
    /\ UNCHANGED <<fetchVars, now, diskVars, procVars, events, netVars, sigVars, faults>>

(* Coming back on line ends with self_stat = ON_LINE, whatever it is.      *)
ScanEnd ==
    /\ life = "up" /\ scan.mode \in {"first", "again"} /\ scan.left = 0
    /\ scan' = NoScan
    /\ self' = IF scan.mode = "again" THEN "ON_LINE" ELSE self
    /\ UNCHANGED <<fetchVars, now, diskVars, life, watch, started, events, taskVars, netVars, sigVars, faults>>

----------------------------------------------------------------------------
(* The signalling thread: check_task                                       *)

Event == life = "up" /\ pc = "event" /\ adding = NoFile
Relist(T, s) == [t \in Task |-> IF t \in T THEN s ELSE stat[t]]

(* First loop: what waited for a tracker goes back to WAIT_SYNC.  Seeded   *)
(* fault: the loop is left out.                                            *)
NotRequeued == {}
Requeued == {t \in Task : stat[t] = "WAIT_SYNC_IP"}

TickBegin ==
    /\ Event
    /\ stat' = Relist(Requeued, "WAIT_SYNC")
    /\ pc' = "check_task" /\ once' = 0
    /\ UNCHANGED <<fetchVars, now, diskVars, procVars, events, scan, base, ct, hashed, owner, met, netVars, faults>>

(* once++ comes before the comparison: one task fewer than fcs_max_task.   *)
MayDispatch == life = "up" /\ pc = "check_task" /\ once + 1 < FcsMaxTask

(* The least loaded tracker; among equals the one that logged in first,    *)
(* here any of them.                                                       *)
UsePeer(p) == p \in login /\ \A q \in login : load[p] =< load[q]

(* add_task_to_alltask.  Seeded fault: it is forgotten.                    *)
NotAdded(t) == hashed
AddToAllTask(t) == hashed \union {t}

(* The request is sent and the task moves to the tracker's tasklist.       *)
Dispatch(t, p) ==
    /\ MayDispatch /\ stat[t] = "WAIT_SYNC" /\ UsePeer(p)
    /\ stat' = Relist({t}, "RUN")
    /\ hashed' = AddToAllTask(t)
    /\ owner' = [owner EXCEPT ![t] = p]
    /\ load' = [load EXCEPT ![p] = @ + 1]
    /\ owed' = [owed EXCEPT ![p][base[t]] = @ + Answers]
    /\ once' = once + 1
    /\ UNCHANGED <<fetchVars, now, diskVars, procVars, events, scan, base, ct, met, login, pc, faults>>

(* No tracker: the task waits for the next tick.  Seeded fault: it is      *)
(* given up.                                                               *)
GivenUp == "CLEAN"
Waiting == "WAIT_SYNC_IP"
NoPeer(t) ==
    /\ MayDispatch /\ stat[t] = "WAIT_SYNC" /\ login = {}
    /\ stat' = Relist({t}, Waiting)
    /\ owner' = [owner EXCEPT ![t] = NoTracker]
    /\ once' = once + 1
    /\ UNCHANGED <<fetchVars, now, diskVars, procVars, events, scan, base, ct, hashed, met, netVars, pc, faults>>

TickEnd ==
    /\ life = "up" /\ pc = "check_task"
    /\ ~MayDispatch \/ \A t \in Task : stat[t] # "WAIT_SYNC"
    /\ pc' = "event" /\ once' = 0
    /\ UNCHANGED <<fetchVars, now, diskVars, procVars, events, scan, taskVars, netVars, faults>>

(* list_del_init of hlist.  Seeded fault: it is forgotten.                 *)
StillInAllTask(t) == hashed
NotInAllTask(t) == hashed \ {t}

(* do_timeout_task, as for the tracker.                                    *)
Expire(t) ==
    /\ Event /\ Live(t) /\ Fault("expire")
    /\ stat' = Relist({t}, "HOME")
    /\ base' = [base EXCEPT ![t] = Blank]
    /\ ct' = [ct EXCEPT ![t] = 0]
    /\ hashed' = NotInAllTask(t)
    /\ owner' = [owner EXCEPT ![t] = NoTracker]
    /\ expired' = expired \union {<<base[t].file, base[t].ver>>}
    /\ stray' = IF stat[t] = "WAIT" THEN stray \union {base[t].file} ELSE stray
    /\ UNCHANGED <<askVars, hidden, missed, fetched, now, ctime, stamp, answered, set, met, procVars, events, scan, netVars, sigVars>>

(* get_data_from_task of the agent thread.                                 *)
AgentReap(t) ==
    /\ life = "up" /\ stat[t] = "CLEAN"
    /\ stat' = Relist({t}, "HOME")
    /\ base' = [base EXCEPT ![t] = Blank]
    /\ ct' = [ct EXCEPT ![t] = 0]
    /\ UNCHANGED <<fetchVars, now, diskVars, procVars, events, scan, hashed, owner, met, netVars, sigVars, faults>>

----------------------------------------------------------------------------
(* Answers                                                                 *)

(* set_fcs_time_stamp: only upwards.  Seeded fault: the present instead of *)
(* the task's ctime.                                                       *)
StampNow(t) == now
SetStamp(t) == IF stamp >= ct[t] THEN stamp ELSE ct[t]

(* get_task_from_alltask: file and type, neither version nor tracker.      *)
Match(r) == {t \in hashed : base[t].file = r.file /\ base[t].kind = r.kind}

Relay(p, r) ==
    /\ Event /\ p \in login /\ owed[p][r] > 0
    /\ owed' = [owed EXCEPT ![p][r] = @ - 1]
    /\ answered' = answered \union {<<r.file, r.ver>>}

(* NEWTASK_RSP without a task: nothing.                                    *)
UnknownAnswer(p, r) ==
    /\ Relay(p, r) /\ Match(r) = {}
    /\ UNCHANGED <<fetchVars, now, ctime, stamp, expired, set, procVars, events, scan, taskVars, login, load,
                   sigVars, faults>>

(* peer->taskcount--, not below 0.  Seeded fault: below 0.                 *)
UncountBelow(p) == [load EXCEPT ![p] = @ - 1]
Uncount(p) == [load EXCEPT ![p] = IF @ = 0 THEN 0 ELSE @ - 1]

(* NEWTASK_RSP, whatever its status: the stamp moves to the ctime of the   *)
(* task found, the task goes to CLEAN, the sender's taskcount goes down.   *)
FinalAnswer(p, r, t) ==
    /\ Relay(p, r) /\ t \in Match(r)
    /\ stamp' = IF r.kind = "ADD" THEN SetStamp(t) ELSE stamp
    /\ stat' = Relist({t}, "CLEAN")
    /\ hashed' = NotInAllTask(t)
    /\ owner' = [owner EXCEPT ![t] = NoTracker]
    /\ load' = Uncount(p)
    /\ UNCHANGED <<fetchVars, now, ctime, expired, set, procVars, events, scan, base, ct, met, login, sigVars,
                   faults>>

Answer(p, r) == UnknownAnswer(p, r) \/ \E t \in Task : FinalAnswer(p, r, t)

----------------------------------------------------------------------------
(* Trackers                                                                *)

(* svc_initconn, then ADDONE_REQ: from then on the peer is in trackerlist. *)
Login(p) ==
    /\ Event /\ p \notin login
    /\ login' = login \union {p}
    /\ load' = [load EXCEPT ![p] = 0]
    /\ UNCHANGED <<fetchVars, now, diskVars, procVars, events, scan, taskVars, owed, sigVars, faults>>

(* svc_finiconn: refresh_tracker_task puts every task of the peer back on  *)
(* WAIT_SYNC.  Seeded fault: one of them is missed.                        *)
TasksOf(p) == {t \in Task : owner[t] = p}
AllButOneOf(p) == {t \in TasksOf(p) : \E u \in TasksOf(p) : u # t}
Refreshed(p) == TasksOf(p)

Close(p) ==
    /\ Event /\ p \in login /\ Fault("close")
    /\ login' = login \ {p}
    /\ load' = [load EXCEPT ![p] = 0]
    /\ stat' = Relist(Refreshed(p), "WAIT_SYNC")
    /\ owner' = [t \in Task |-> IF t \in TasksOf(p) THEN NoTracker ELSE owner[t]]
    /\ UNCHANGED <<fetchVars, now, diskVars, procVars, events, scan, base, ct, hashed, met, owed, sigVars>>

(* A tracker without a connection to this FCS drops an answer (do_rsp is   *)
(* not called) or dies; what it keeps it relays on a later connection.     *)
TrackerForgets(p, r) ==
    /\ p \notin login /\ owed[p][r] > 0
    /\ owed' = [owed EXCEPT ![p][r] = @ - 1]
    /\ UNCHANGED <<fetchVars, now, diskVars, procVars, events, scan, taskVars, login, load, sigVars, faults>>

----------------------------------------------------------------------------
(* Fetching a directory back from the CSs                                  *)

Fetching == {t \in Task : stat[t] \in {"WAIT", "FIN"}}

(* init_sync_list finds a file of the operator: the directory goes into    *)
(* sync_list, and the stamp is set to the present at once.                 *)
SyncCommand ==
    /\ Event /\ Fault("command")
    /\ stamp' = now /\ set' = now
    /\ listed' = TRUE
    /\ UNCHANGED <<asked, adding, hideVars, fetched, now, ctime, answered, expired, procVars, events, scan,
                   taskVars, netVars, sigVars>>

(* do_active_sync, when a CS that has the directory is connected: it is    *)
(* asked for all there is.                                                 *)
ActiveSync ==
    /\ Event /\ listed
    /\ listed' = FALSE /\ asked' = File
    /\ UNCHANGED <<adding, hideVars, fetched, now, diskVars, procVars, events, scan, taskVars, netVars,
                   sigVars, faults>>

(* A CS offers its copy of f (NEWTASK_REQ), or never does.                 *)
Quiet(f) == Settled(f) /\ scan.mode = "none" /\ self # "UNKOWN_STAT"
Offered(f) ==
    /\ Event /\ f \in asked
    /\ Quiet(f) \/ "twice" \in Windows
    /\ asked' = asked \ {f}

(* do_newtask: the same md5, or a task for f in alltask, or no free node.  *)
(* check_localfile_md5 sets the times and mode of a file it finds equal,   *)
(* and so moves its ctime: left out, since the content is the one that was *)
(* answered for, and only scans of a restart find it newer.                *)
MayRefuse(f) ==
    \/ ctime[f] # 0
    \/ Match([file |-> f, kind |-> "ADD"]) # {}
    \/ \A t \in Task : stat[t] # "HOME"

NotWanted(f) ==
    /\ Offered(f) /\ MayRefuse(f)
    /\ UNCHANGED <<listed, adding, hideVars, fetched, now, diskVars, procVars, events, scan,
                   taskVars, netVars, sigVars, faults>>

(* do_newtask: the node goes to the data thread and to alltask ...         *)
Wanted(f) ==
    /\ Offered(f)
    /\ Match([file |-> f, kind |-> "ADD"]) = {}
    /\ \E t \in Task :
        /\ NewNode(t, [file |-> f, kind |-> "ADD", ver |-> 0], "WAIT")
        /\ ct' = [ct EXCEPT ![t] = 0]
        /\ hashed' = AddToAllTask(t)
    /\ adding' = f
    /\ UNCHANGED <<listed, hideVars, fetched, now, diskVars, procVars, events, scan, owner,
                   netVars, sigVars, faults>>

(* ... and only then its file into sync_dir_list, so that its own change   *)
(* will not be taken for one of a user.  Seeded fault: it is left out.     *)
NotHidden(f) == hidden
Hidden(f) == [hidden EXCEPT ![f] = @ + 1]
AddToSyncDirList ==
    /\ life = "up" /\ adding # NoFile
    /\ hidden' = Hidden(adding)
    /\ adding' = NoFile
    /\ UNCHANGED <<listed, asked, stray, missed, fetched, now, diskVars, procVars, events, scan, taskVars,
                   netVars, sigVars, faults>>

(* The data thread (Transfer has its steps) puts the new file in place, or *)
(* ends without it.                                                        *)
Fetched(t) ==
    /\ life = "up" /\ stat[t] = "WAIT"
    /\ adding # base[t].file \/ "echo" \in Windows
    /\ stat' = Relist({t}, "FIN")

FetchOk(t) ==
    /\ Fetched(t)
    /\ LET f == base[t].file IN
        /\ ctime[f] # now
        /\ ctime' = [ctime EXCEPT ![f] = now]
        /\ fetched' = fetched \union {<<f, now>>}
        /\ Notify([file |-> f, kind |-> "ADD"])
        /\ stray' = IF watch THEN stray ELSE stray \union {f}
    /\ UNCHANGED <<askVars, hidden, missed, now, stamp, answered, expired, set, procVars, scan, base,
                   ct, hashed, owner, met, netVars, sigVars, faults>>

FetchFails(t) ==
    /\ Fetched(t)
    /\ stray' = stray \union {base[t].file}
    /\ UNCHANGED <<askVars, hidden, missed, fetched, now, diskVars, procVars, events, scan, base, ct,
                   hashed, owner, met, netVars, sigVars, faults>>

(* do_fin_task: whatever became of it, the stamp moves to the present.     *)
FinTask(t) ==
    /\ Event /\ stat[t] = "FIN"
    /\ stamp' = Max({stamp, now}) /\ set' = IF now > stamp THEN now ELSE set
    /\ hashed' = hashed \ {u \in Match(base[t]) : u = CHOOSE v \in Match(base[t]) : TRUE}
    /\ stat' = Relist({t}, "CLEAN")
    /\ UNCHANGED <<fetchVars, now, ctime, answered, expired, procVars, events, scan, base, ct,
                   owner, met, netVars, sigVars, faults>>

(* scan_sync_dir_list: an entry goes when it is a hundred hours old, by    *)
(* when no fetch of its file is under way.                                 *)
ScanSyncDirList(f) ==
    /\ Event /\ hidden[f] > 0 /\ Settled(f)
    /\ TakeOut(f)
    /\ UNCHANGED <<askVars, missed, fetched, now, diskVars, procVars, events, scan, taskVars,
                   netVars, sigVars, faults>>

----------------------------------------------------------------------------
(* Life of the process                                                     *)

(* Everything but the disk and the trackers is lost.                       *)
Crash ==
    /\ life = "up" /\ Fault("crash")
    /\ life' = "down" /\ watch' = FALSE /\ started' = 0 /\ self' = "ON_LINE"
    /\ events' = <<>>
    /\ scan' = NoScan
    /\ stat' = [t \in Task |-> "HOME"]
    /\ base' = [t \in Task |-> Blank]
    /\ ct' = [t \in Task |-> 0]
    /\ hashed' = {}
    /\ owner' = [t \in Task |-> NoTracker]
    /\ login' = {}
    /\ load' = [p \in Tracker |-> 0]
    /\ pc' = "event" /\ once' = 0
    /\ listed' = FALSE /\ asked' = {} /\ adding' = NoFile
    /\ hidden' = [f \in File |-> 0] /\ stray' = {}
    /\ UNCHANGED <<now, diskVars, owed, met, missed, fetched>>

(* svc_init starts the inotify thread and the scanning thread; main sets   *)
(* vfs_start_time after that, at any point of their work.                  *)
Start ==
    /\ life = "down"
    /\ life' = "up"
    /\ scan' = [NoScan EXCEPT !.mode = "start"]
    /\ UNCHANGED <<fetchVars, now, diskVars, self, watch, started, events, taskVars, netVars, sigVars, faults>>

AddWatch ==
    /\ life = "up" /\ ~watch
    /\ watch' = TRUE
    /\ UNCHANGED <<fetchVars, now, diskVars, life, self, started, events, scan, taskVars, netVars, sigVars, faults>>

SetStartTime ==
    /\ life = "up" /\ started = 0
    /\ started' = now
    /\ UNCHANGED <<fetchVars, now, diskVars, life, self, watch, events, scan, taskVars, netVars, sigVars, faults>>

(* do_ip_off_line, by the maintenance port or by a reload.                 *)
SetOffline ==
    /\ life = "up" /\ self # "OFF_LINE" /\ Fault("offline")
    /\ scan.mode # "again" \/ "offline" \in Windows
    /\ self' = "OFF_LINE"
    /\ UNCHANGED <<fetchVars, now, diskVars, life, watch, started, events, scan, taskVars, netVars, sigVars>>

SetOnline ==
    /\ life = "up" /\ self = "OFF_LINE"
    /\ Fetching = {} \/ "twice" \in Windows
    /\ self' = "UNKOWN_STAT"
    /\ UNCHANGED <<fetchVars, now, diskVars, life, watch, started, events, scan, taskVars, netVars, sigVars, faults>>

----------------------------------------------------------------------------
TryDispatch(t) == NoPeer(t) \/ \E p \in Tracker : Dispatch(t, p)

Next ==
    \/ Clock \/ \E f \in File : Write(f) \/ Unlink(f)
    \/ InotifyEvent
    \/ ScanBegin \/ ScanFile \/ ScanEnd
    \/ TickBegin \/ TickEnd
    \/ \E t \in Task : TryDispatch(t) \/ Expire(t) \/ AgentReap(t)
    \/ \E p \in Tracker, r \in Request : Answer(p, r) \/ TrackerForgets(p, r)
    \/ \E p \in Tracker : Login(p) \/ Close(p)
    \/ Crash \/ Start \/ AddWatch \/ SetStartTime
    \/ SetOffline \/ SetOnline
    \/ SyncCommand \/ ActiveSync \/ AddToSyncDirList
    \/ \E f \in File : NotWanted(f) \/ Wanted(f) \/ ScanSyncDirList(f)
    \/ \E t \in Task : FetchOk(t) \/ FetchFails(t) \/ FinTask(t)

Spec == Init /\ [][Next]_vars

(* Every thread of the process keeps taking its steps: the inotify thread, *)
(* the ticks with a dispatch whenever one is possible again and again, the *)
(* agent; some tracker logs in if one can again and again, and some owed   *)
(* answer arrives if one can.                                              *)
Fairness ==
    /\ WF_vars(InotifyEvent) /\ WF_vars(AddToSyncDirList)
    /\ SF_vars(\E t \in Task : FinTask(t))
    /\ WF_vars(TickBegin) /\ WF_vars(TickEnd)
    /\ SF_vars(\E t \in Task : TryDispatch(t))
    /\ WF_vars(\E t \in Task : AgentReap(t))
    /\ SF_vars(\E p \in Tracker : Login(p))
    /\ SF_vars(\E p \in Tracker, r \in Request : Answer(p, r))

FairSpec == Spec /\ Fairness

----------------------------------------------------------------------------
(* Properties                                                              *)

(* Every variable stays in its domain, peer->taskcount at least 0.         *)
TypeOK ==
    /\ now \in Time \ {0}
    /\ ctime \in [File -> Time]
    /\ stamp \in Time
    /\ life \in {"up", "down"} /\ self \in {"ON_LINE", "OFF_LINE", "UNKOWN_STAT"}
    /\ watch \in BOOLEAN /\ started \in Time
    /\ events \in Seq([file : File, kind : Kind])
    /\ scan.mode \in {"none", "start", "first", "again"}
    /\ scan.listed \in Seq(File \X Time) /\ scan.left \in 0 .. Cardinality(File)
    /\ stat \in [Task -> Status]
    /\ base \in [Task -> Request \union {Blank}]
    /\ ct \in [Task -> (-TaskTimeout) .. MaxTime]
    /\ hashed \subseteq Task
    /\ owner \in [Task -> Tracker \union {NoTracker}]
    /\ login \subseteq Tracker
    /\ load \in [Tracker -> Nat]
    /\ owed \in [Tracker -> [Request -> Nat]]
    /\ listed \in BOOLEAN /\ asked \subseteq File /\ adding \in File \union {NoFile}
    /\ hidden \in [File -> Nat] /\ stray \subseteq File
    /\ missed \subseteq File \X Time /\ fetched \subseteq File \X Time
    /\ pc \in {"event", "check_task"}
    /\ once \in 0 .. (FcsMaxTask + 1)
    /\ answered \subseteq File \X Time /\ expired \subseteq File \X Time
    /\ set \in Time /\ met \subseteq File
    /\ faults \in 0 .. MaxFault

(* A task at a tracker can be found by its answer; one that is not is      *)
(* linked in no tasklist, so that no disconnect moves it.                  *)
RunIsFindable ==
    \A t \in Task :
        /\ stat[t] = "RUN" => t \in hashed /\ owner[t] \in login
        /\ stat[t] # "RUN" => owner[t] = NoTracker

(* A node at rest is in alltask no more: neither an answer that comes late *)
(* nor one about another file can pull it off HOME or CLEAN.               *)
RestIsUnhashed == \A t \in Task : ~Live(t) => t \notin hashed

(* Unless a second task was made about its file, a task at a tracker has   *)
(* an answer of that tracker to come.                                      *)
RunIsAwaited ==
    \A t \in Task : stat[t] = "RUN" /\ base[t].file \notin met =>
        \E p \in login : owner[t] = p /\ owed[p][base[t]] > 0

(* The lists, alltask, the tasklists of the trackers and what the trackers *)
(* owe agree, so that vfs_task.c finds and moves the right nodes.          *)
ListsSound == TypeOK /\ RunIsFindable /\ RestIsUnhashed /\ RunIsAwaited

Noticed(f) == \E i \in DOMAIN events : events[i] = [file |-> f, kind |-> "ADD"]
Held(f) == \E t \in Task : Live(t) /\ base[t] = [file |-> f, kind |-> "ADD", ver |-> ctime[f]]
Dealt(f) ==
    \/ ctime[f] = 0 \/ <<f, ctime[f]>> \in answered \union expired \union fetched \union missed
    \/ Noticed(f) \/ Held(f)

(* No step of an FCS that is on line lets go of a change it holds before   *)
(* some tracker has answered for it, whatever trackers close and come      *)
(* back.  Three things do: a crash; do_timeout_task, which drops a task    *)
(* older than task_timeout with the change nobody answered for (expired);  *)
(* and the entry of sync_dir_list that a fetch without a file leaves       *)
(* behind, which hides the next change (missed).  What a fetch brought is  *)
(* no change to tell.                                                      *)
HeldUntilAnswered ==
    [][\A f \in File :
         Dealt(f) /\ ctime'[f] = ctime[f] /\ life' = "up" /\ self # "OFF_LINE"
           => Dealt(f)']_vars

(* The directory has been scanned since the start or since coming back.    *)
Recovered == life = "up" /\ watch /\ scan.mode = "none" /\ self = "ON_LINE"

(* After a crash, or a time off line, a change no tracker has answered for *)
(* is held again, unless the time stamp has passed it.                     *)
RecoveredOrBelowStamp ==
    Recovered => \A f \in File : Dealt(f) \/ ctime[f] < stamp

(* The stamp never runs ahead of the answers: unless an operator has set   *)
(* it, a change at least as new has been answered for (doc/56vfs.txt:47    *)
(* says it is updated when the task is complete).                          *)
StampIsEarned == stamp = set \/ \E a \in answered : a[2] >= stamp

(* A fetch is silent and leaves no trace: no task is made of the change it *)
(* makes itself, unless a later scan finds it, and its entry goes with it, *)
(* so that the changes of users after it are seen; except that a fetch     *)
(* without a file, or one the FCS did not look at, leaves the entry.       *)
UnderWay(f) == \E t \in Fetching : base[t].file = f
FetchSound ==
    /\ \A t \in Task :
        Live(t) /\ t \notin Fetching /\ ct[t] = base[t].ver =>
            <<base[t].file, base[t].ver>> \notin fetched
    /\ \A f \in File : hidden[f] > 0 => f \in stray \/ UnderWay(f) \/ Noticed(f)

(* What a restart relies on: the stamp covers only what was answered, and  *)
(* what is neither answered nor held is covered by the stamp.              *)
StampSound == StampIsEarned /\ RecoveredOrBelowStamp

(* The nodes that hold a change of f; one the data thread has is left out, *)
(* since the FCS closes no data connection for its silence.                *)
Busy(f) == {t \in Task : stat[t] \notin {"HOME", "WAIT"} /\ base[t].file = f}

(* Trackers that fail and come back do not leave a task waiting, unless a  *)
(* second task about its file may have taken its answer.                   *)
EventuallyDone ==
    \A f \in File : Busy(f) # {} ~> (Busy(f) = {} \/ f \in met)
=============================================================================
