------------------------------ MODULE Transfer ------------------------------
(***************************************************************************)
(* The life of a task on a content server (CS) and the data connections it *)
(* runs over: cs/vfs_sig_task.c and cs/vfs_sig_sub.c on the signalling     *)
(* thread, data/*.c and vfs_localfile.c on the data thread.  One file of   *)
(* one domain, and the name of a hard link to it, are fetched from the     *)
(* servers that have them, checked by md5, renamed into place, linked,     *)
(* reported to the tracker and announced to the mates of the group.        *)
(*                                                                         *)
(* A version of the file is a number, its content a sequence of chunks, so *)
(* that a partial or mixed temporary file is told from a whole one.  The   *)
(* order of a task list is abstracted: any task of a list may be the next. *)
(***************************************************************************)
EXTENDS Naturals, Sequences, FiniteSets, Functions

CONSTANTS
  Task,        \* slots of the task pool
  Conn,        \* data connections this CS may hold open
  Origin,      \* the server of the file's domain (an FCS)
  Mate,        \* the other CS of the group
  MaxVer,      \* versions of the file are 1 .. MaxVer; 0 is "no file"
  Size,        \* chunks of each version
  Retry,       \* g_config.retry
  MaxRunOnce,  \* g_config.cs_max_task_run_once
  MaxConnects, \* g_config.cs_max_connects, fcs_max_connects
  Continue,    \* g_config.continue_flag
  CalcuMd5,    \* g_config.data_calcu_md5
  Announcement,\* what may be announced: <<server, need_sync, type>>
  MaxSubmit,   \* bound: announcements
  MaxFault,    \* bound: faults of any kind
  NoTask

Server  == Mate \cup {Origin}
Version == 1 .. MaxVer
Content(v) == [i \in 1 .. Size[v] |-> v]
Name == {"file", "link"}

ASSUME TransferAssumption ==
  /\ Origin \notin Mate /\ NoTask \notin Task
  /\ MaxVer \in Nat \ {0}
  /\ Size \in [Version -> Nat \ {0}]
  /\ Retry \in Nat /\ MaxRunOnce \in Nat \ {0} /\ MaxConnects \in Nat
  /\ Continue \in BOOLEAN /\ CalcuMd5 \in BOOLEAN
  /\ Announcement \subseteq
       ({Origin} \X {"SOURCE", "SYNC_ISDIR"} \X {"add", "del", "link"})
         \cup (Mate \X {"SRC_NOSYNC", "SYNC_ISDIR"} \X {"add", "del", "link"})

VARIABLES
  task,     \* the pool: list, operation, server, base and sub of each slot
  disk,     \* content of the two names on this CS; <<>> is "no file"
  at,       \* version each server has
  conn,     \* the data connections, with what is in flight on them
  tick,     \* tasks the data thread's check_task may still take
  online,   \* mates with a signalling connection
  full,     \* the disk is below mindiskfree
  stamp,    \* the version of the directory's time stamp
  told,     \* kinds and versions announced to each mate (history)
  had,      \* versions that were ever whole on this disk (history)
  settled,  \* no server's file changed since a task announced it (history)
  submits, faults

vars == <<task, disk, at, conn, tick, online, full, stamp, told, had, settled,
          submits, faults>>

Lists == {"HOME", "DELAY", "WAIT", "WAIT_SYNC", "WAIT_SYNC_IP", "WAIT_TMP",
          "Q_SYNC_DIR", "Q_SYNC_DIR_TMP", "RECV", "FIN", "CLEAN"}
Overs == {"UNKNOWN", "OK", "E_MD5", "E_OPEN_SRCFILE", "E_OPEN_DSTFILE",
          "E_IP", "TOO_MANY_TRY"}

\* A slot of the pool: the fields of t_task_base and t_task_sub the handlers
\* read, and what its temporary file holds.
Blank == [list |-> "HOME", kind |-> "add", need |-> "DST", peer |-> Origin,
          ver |-> 0, off |-> 0, retry |-> 0, over |-> "UNKNOWN",
          tmp |-> <<>>]

\* A data connection: the peer of vfs_data.h and the stream each way.
Closed == [stat |-> "LOGOUT", peer |-> Origin, recvtask |-> NoTask,
           last |-> 0, len |-> 0, up |-> <<>>, down |-> <<>>]

Init ==
  /\ task = [t \in Task |-> Blank]
  /\ disk = [n \in Name |-> <<>>]
  /\ at = [s \in Server |-> 1]
  /\ conn = [c \in Conn |-> Closed]
  /\ tick = 0
  /\ online = Mate
  /\ full = FALSE
  /\ stamp = 0
  /\ told = [m \in Mate |-> {}]
  /\ had = {}
  /\ settled = TRUE
  /\ submits = 0
  /\ faults = 0

Fault == faults < MaxFault /\ faults' = faults + 1
Home  == {t \in Task : task[t].list = "HOME"}

\* vfs_set_task, with the end status when the task is over.
Finished(t, over) == [task EXCEPT ![t].list = "FIN", ![t].over = over]

-----------------------------------------------------------------------------
(* The signalling thread: a task is announced, ends, is copied and expires. *)

\* delete_localfile, which also notes the deletion for later askers.
Deleted(d) == [d EXCEPT !["file"] = <<>>]

\* do_newtask: s announces what it has; the FCS through the tracker (SOURCE),
\* a mate itself (SRC_NOSYNC), either in answer to SYNC_DIR_REQ (SYNC_ISDIR).
\* That the linked name has the content does not count: it is compared with the
\* md5 of an empty base.
NewTask(t, s, need, kind) ==
  /\ submits < MaxSubmit
  /\ submits' = submits + 1
  /\ t \in Home
  /\ at[s] > 0 \/ kind = "del"
  /\ LET new == [Blank EXCEPT !.kind = kind, !.need = need, !.peer = s,
                              !.ver = at[s]]
         have == at[s] > 0 /\ disk["file"] = Content(at[s])
     IN  task' = [task EXCEPT ![t] =
           IF kind = "del" \/ have
             THEN [new EXCEPT !.list = "FIN", !.over = "OK"]
             ELSE [new EXCEPT !.list = IF need = "SYNC_ISDIR"
                                         THEN "Q_SYNC_DIR" ELSE "WAIT"]]
  /\ disk' = IF kind = "del" THEN Deleted(disk) ELSE disk
  /\ UNCHANGED <<at, conn, tick, online, full, stamp, told, had, settled, faults>>

\* do_fin_task, its first half: an attempt that may be made again, from the
\* same server or, when a mate could not open the file, from its source.
MayRetry(t) ==
  /\ task[t].retry < Retry
  /\ \/ task[t].over = "E_MD5"
     \/ task[t].over = "E_OPEN_SRCFILE" /\ task[t].peer # Origin

RetryFin(t) ==
  /\ task[t].list = "FIN" /\ MayRetry(t)
  /\ task' = [task EXCEPT ![t].list = "WAIT", ![t].over = "UNKNOWN",
                          ![t].retry = @ + 1,
                          ![t].peer = IF task[t].over = "E_MD5"
                                        THEN @ ELSE Origin]
  /\ UNCHANGED <<disk, at, conn, tick, online, full, stamp, told, had, settled,
                 submits, faults>>

\* set_cs_time_stamp: the stamp never goes back, and stays while self_stat,
\* which is CsSync's, is not ON_LINE.  Seeded fault: it becomes the present
\* time, not the ctime of the file.
StampedNow(v) == {stamp, at[Origin]}
Stamped(v) == {stamp, IF stamp >= v THEN stamp ELSE v}

\* Seeded fault: the ip is not written into the copy.
CopiesToNobody(t, g) ==
  [u \in Task |-> IF u \in DOMAIN g
     THEN [Blank EXCEPT !.list = "WAIT_SYNC", !.peer = NoTask] ELSE task[u]]

\* sync_task_2_group, create_delay_task: the mates online are told, for each
\* of the others a slot of the pool waits, as far as the pool has one.
Copies(t, g) ==
  [u \in Task |->
     IF u \in DOMAIN g
       THEN [Blank EXCEPT !.list = "WAIT_SYNC", !.kind = task[t].kind,
                          !.ver = task[t].ver, !.retry = task[t].retry,
                          !.over = task[t].over, !.peer = g[u]]
       ELSE task[u]]

\* The copies that fit into the pool.
Copying ==
  LET offline == Mate \ online
      n == IF Cardinality(Home) < Cardinality(offline)
             THEN Cardinality(Home) ELSE Cardinality(offline)
  IN  UNION {Injection(S, offline) :
               S \in {U \in SUBSET Home : Cardinality(U) = n}}

\* localfile_link_task with okindex = 1: of two files that differ, the one
\* under the linked name stays.
Linked(d) ==
  IF d["link"] # <<>> THEN [d EXCEPT !["file"] = d["link"]]
                      ELSE [d EXCEPT !["link"] = d["file"]]

\* Seeded fault: a file the server refused counts.
IsGoodEnough(t) == task[t].over # "E_MD5"

IsGood(t) == task[t].over = "OK"

\* do_fin_task, its second half: tell the group, link, leave the pool.
Finish(t) ==
  /\ task[t].list = "FIN" /\ ~MayRetry(t)
  /\ LET ok == IsGood(t)
         source == ok /\ task[t].need = "SOURCE"
     IN  /\ \E g \in IF source THEN Copying ELSE {<<>>} :
              task' = [Copies(t, g) EXCEPT ![t].list = "CLEAN"]
         /\ told' = [m \in Mate |->
                       IF source /\ m \in online
                         THEN told[m] \cup {<<task[t].kind, task[t].ver>>}
                         ELSE told[m]]
         /\ IF ok /\ task[t].kind # "del" THEN stamp' \in Stamped(task[t].ver)
            ELSE UNCHANGED stamp
         /\ disk' = IF ok /\ task[t].kind = "link" THEN Linked(disk) ELSE disk
  /\ UNCHANGED <<at, conn, tick, online, full, had, settled, submits, faults>>

\* sync_task_2_group finds no directory of the group (the tables are being
\* reloaded): the task is put off to the next tick of the signalling thread.
PutOff(t) ==
  /\ task[t].list = "FIN" /\ ~MayRetry(t)
  /\ task[t].over = "OK" /\ task[t].need = "SOURCE"
  /\ Fault
  /\ task' = [task EXCEPT ![t].list = "DELAY"]
  /\ UNCHANGED <<disk, at, conn, tick, online, full, stamp, told, had, settled, submits>>

\* The first three loops of check_task: put-off tasks end, copies whose mate is
\* not connected wait for the next tick, the others are sent and their slot
\* goes home.
CheckTask(t) ==
  LET m == task[t].peer IN
  /\ \/ /\ task[t].list = "DELAY"
        /\ task' = [task EXCEPT ![t].list = "FIN"]
        /\ told' = told
     \/ /\ task[t].list = "WAIT_SYNC_IP"
        /\ task' = [task EXCEPT ![t].list = "WAIT_SYNC"]
        /\ told' = told
     \/ /\ task[t].list = "WAIT_SYNC" /\ m \notin online
        /\ task' = [task EXCEPT ![t].list = "WAIT_SYNC_IP"]
        /\ told' = told
     \/ /\ task[t].list = "WAIT_SYNC" /\ m \in online
        /\ task' = [task EXCEPT ![t] = Blank]
        /\ told' = [told EXCEPT ![m] = @ \cup {<<task[t].kind, task[t].ver>>}]
  /\ UNCHANGED <<disk, at, conn, tick, online, full, stamp, had, settled, submits, faults>>

\* do_timeout_task: any list before CLEAN is scanned; RECV comes after it.
Expire(t) ==
  /\ task[t].list \notin {"HOME", "CLEAN", "RECV"}
  /\ Fault
  /\ task' = [task EXCEPT ![t] = Blank]
  /\ UNCHANGED <<disk, at, conn, tick, online, full, stamp, told, had, settled, submits>>

\* The agent thread reports a task of CLEAN and gives its slot back.
Reap(t) ==
  /\ task[t].list = "CLEAN"
  /\ task' = [task EXCEPT ![t] = Blank]
  /\ UNCHANGED <<disk, at, conn, tick, online, full, stamp, told, had, settled,
                 submits, faults>>

-----------------------------------------------------------------------------
(* The data thread: check_task gives tasks to connections. *)

\* The tick begins: tasks put aside are looked at again.  The loop counts
\* before it compares, so that it takes one task less than it is allowed.
TickBegin ==
  /\ tick = 0
  /\ tick' = MaxRunOnce - 1
  /\ task' = [t \in Task |->
       CASE task[t].list = "WAIT_TMP" -> [task[t] EXCEPT !.list = "WAIT"]
         [] task[t].list = "Q_SYNC_DIR_TMP" ->
              [task[t] EXCEPT !.list = "Q_SYNC_DIR"]
         [] OTHER -> task[t]]
  /\ UNCHANGED <<disk, at, conn, online, full, stamp, told, had, settled, submits, faults>>

Waiting(l) == {t \in Task : task[t].list = l}

TickEnd ==
  /\ tick > 0
  /\ Waiting("WAIT") \cup Waiting("Q_SYNC_DIR") = {}
  /\ tick' = 0
  /\ UNCHANGED <<task, disk, at, conn, online, full, stamp, told, had, settled,
                 submits, faults>>

\* A task of WAIT is next, or one of Q_SYNC_DIR when there is none.
IsNext(t) ==
  /\ tick > 0
  /\ \/ task[t].list = "WAIT"
     \/ task[t].list = "Q_SYNC_DIR" /\ Waiting("WAIT") = {}

\* The task ends at once: tried too often, or the file is there already.
Spare(t) ==
  /\ IsNext(t)
  /\ tick' = tick - 1
  /\ \/ /\ task[t].retry > Retry
        /\ task' = [Finished(t, "TOO_MANY_TRY") EXCEPT ![t].tmp = <<>>]
     \/ /\ task[t].retry <= Retry /\ disk["file"] = Content(task[t].ver)
        /\ task' = Finished(t, "OK")
  /\ UNCHANGED <<disk, at, conn, online, full, stamp, told, had, settled, submits, faults>>

IsDue(t) ==
  /\ IsNext(t)
  /\ task[t].retry <= Retry /\ disk["file"] # Content(task[t].ver)

PeerConns(s) == {c \in Conn : conn[c].stat # "LOGOUT" /\ conn[c].peer = s}
Idle(s) == {c \in PeerConns(s) : conn[c].stat = "IDLE"}

CanConnect(s) ==
  /\ Cardinality(PeerConns(s)) <= MaxConnects
  /\ \E c \in Conn : conn[c].stat = "LOGOUT"

\* The disk is full, too many connections to the server are busy, there is no
\* descriptor left or the connect fails: the task is put aside until the next
\* tick.
PutAside(t) ==
  /\ IsDue(t)
  /\ tick' = tick - 1
  /\ \/ full /\ UNCHANGED faults
     \/ /\ ~full /\ Idle(task[t].peer) = {}
        /\ IF CanConnect(task[t].peer) THEN Fault ELSE UNCHANGED faults
  /\ task' = [task EXCEPT ![t].list =
                IF task[t].need = "SYNC_ISDIR" THEN "Q_SYNC_DIR_TMP"
                                               ELSE "WAIT_TMP"]
  /\ UNCHANGED <<disk, at, conn, online, full, stamp, told, had, settled, submits>>

\* CMD_GET_FILE_REQ on an idle connection, or on a new one.
Request(t, c) ==
  /\ IsDue(t) /\ ~full
  /\ LET s == task[t].peer IN
     /\ IF Idle(s) # {} THEN c \in Idle(s)
          ELSE CanConnect(s) /\ conn[c].stat = "LOGOUT"
     /\ conn' = [conn EXCEPT ![c] =
          [Closed EXCEPT !.stat = "PREPARE_RECVFILE", !.peer = s,
             !.recvtask = t,
             !.up = <<[ver |-> task[t].ver, off |-> task[t].off,
                       retry |-> task[t].retry]>>]]
  /\ task' = [task EXCEPT ![t].list = "RECV"]
  /\ tick' = tick - 1
  /\ UNCHANGED <<disk, at, online, full, stamp, told, had, settled, submits, faults>>

-----------------------------------------------------------------------------
(* The far end of a connection: the server's data thread, same program. *)

\* open_localfile_4_read: the file as it is when the request is served.
ToRead(s) == Content(at[s])

\* do_send_task and the sendfile that follows: the announced version is
\* renewed from the disk when asked again or so configured, the bytes sent
\* are what the file has from the offset on.
SendTask(c) ==
  /\ conn[c].up # <<>>
  /\ LET req == Head(conn[c].up)
         has == at[conn[c].peer]
         ver == IF CalcuMd5 \/ req.retry > 0 THEN has ELSE req.ver
         len == Size[ver] - req.off
         last == IF Size[ver] < Size[has] THEN Size[ver] ELSE Size[has]
         head == [ok |-> TRUE, ver |-> ver, len |-> len]
     IN  conn' = [conn EXCEPT ![c].up = <<>>,
           ![c].down = IF has = 0
             THEN <<[ok |-> FALSE]>>
             ELSE <<head>> \o SubSeq(ToRead(conn[c].peer), req.off + 1, last)]
  /\ UNCHANGED <<task, disk, at, tick, online, full, stamp, told, had, settled,
                 submits, faults>>

-----------------------------------------------------------------------------
(* The data thread: svc_recv, do_recv_task, svc_finiconn. *)

\* A handler of the data thread runs to its end; it is not in check_task.
Idling == tick = 0

\* do_recv_task: the server refuses, or the temporary file cannot be opened.
RefusedBy(c, over) ==
  /\ task' = Finished(conn[c].recvtask, over)
  /\ conn' = [conn EXCEPT ![c] = Closed]

\* open_tmp_localfile_4_write: appended to when there is an offset, else new.
OpenTmp(t) == IF task[t].off > 0 THEN task[t].tmp ELSE <<>>

\* do_recv_task: the server's base replaces the task's when the md5 differs.
RecvTask(c) ==
  /\ Idling /\ conn[c].stat = "PREPARE_RECVFILE" /\ conn[c].down # <<>>
  /\ LET rsp == Head(conn[c].down)
         t == conn[c].recvtask
     IN  \/ ~rsp.ok /\ RefusedBy(c, "E_OPEN_SRCFILE") /\ UNCHANGED faults
         \/ rsp.ok /\ RefusedBy(c, "E_OPEN_DSTFILE") /\ Fault
         \/ /\ rsp.ok
            /\ task' = [task EXCEPT ![t].ver = rsp.ver,
                                   ![t].tmp = OpenTmp(t)]
            /\ conn' = [conn EXCEPT ![c].stat = "RECVFILEING", ![c].last = 0,
                 ![c].len = rsp.len, ![c].down = Tail(@)]
            /\ UNCHANGED faults
  /\ UNCHANGED <<disk, at, tick, online, full, stamp, told, had, settled, submits>>

\* Seeded fault: only what came last is checked.
Md5Last(t, got) == got[Len(got)] = task[t].ver

\* check_localfile_md5 of what was received.
Md5Ok(t, got) == got = Content(task[t].ver)

\* close_tmp_check_mv: what is good is renamed to its name.
MovedIn(t, got) ==
  IF Md5Ok(t, got) THEN [disk EXCEPT !["file"] = got] ELSE disk

\* svc_recv in RECVFILEING: a chunk is written; the last one closes the
\* temporary file, checks its md5 and renames it (close_tmp_check_mv).
RecvData(c) ==
  /\ Idling /\ conn[c].stat = "RECVFILEING" /\ conn[c].down # <<>>
  /\ LET t == conn[c].recvtask
         got == Append(task[t].tmp, Head(conn[c].down))
         done == conn[c].last + 1 >= conn[c].len
         good == Md5Ok(t, got)
     IN  \/ /\ ~done
            /\ task' = [task EXCEPT ![t].tmp = got]
            /\ conn' = [conn EXCEPT ![c].last = @ + 1, ![c].down = Tail(@)]
            /\ UNCHANGED <<disk, stamp, had>>
         \/ /\ done /\ good
            /\ disk' = MovedIn(t, got)
            /\ stamp' \in Stamped(task[t].ver)
            /\ had' = had \cup {v \in Version : got = Content(v)}
            /\ task' = [Finished(t, "OK") EXCEPT ![t].tmp = <<>>]
            /\ conn' = [conn EXCEPT ![c].stat = "IDLE", ![c].recvtask = NoTask,
                                    ![c].down = <<>>]
         \/ /\ done /\ ~good
            /\ task' = [Finished(t, "E_MD5") EXCEPT ![t].tmp = got]
            /\ conn' = [conn EXCEPT ![c] = Closed]
            /\ UNCHANGED <<disk, stamp, had>>
  /\ UNCHANGED <<at, tick, online, full, told, settled, submits, faults>>

\* Seeded fault: the file goes although its length is counted.
RemovedEver(t) == <<>>

\* What stays of the temporary file of a broken transfer.
Kept(t) == IF Continue THEN task[t].tmp ELSE <<>>

\* Seeded fault: the task is not given back to WAIT.
FiniConnDrops(c) ==
  /\ conn' = [conn EXCEPT ![c] = Closed]
  /\ UNCHANGED <<task, disk, at, online, full, stamp, told, had, settled, submits>>

\* svc_finiconn: the task of a connection that ends waits for another one; it
\* goes on where it stopped, or its temporary file is removed.
FiniConn(c) ==
  LET t == conn[c].recvtask IN
  /\ conn' = [conn EXCEPT ![c] = Closed]
  /\ task' = IF t = NoTask THEN task ELSE
       [task EXCEPT ![t].list = "WAIT", ![t].retry = @ + 1,
          ![t].off = IF Continue THEN @ + conn[c].last ELSE @,
          ![t].tmp = Kept(t)]
  /\ UNCHANGED <<disk, at, online, full, stamp, told, had, settled, submits>>

\* The connection breaks.
Lost(c) ==
  /\ Idling /\ conn[c].stat # "LOGOUT"
  /\ Fault
  /\ FiniConn(c) /\ UNCHANGED tick

\* Seeded fault: the scan of activelist stops too early.
SilentNever(c) == FALSE

\* svc_timeout closes a connection on which nothing has come for long; the
\* server closes one whose file turned out shorter than announced.
Silent(c) == conn[c].stat # "LOGOUT" /\ conn[c].up = <<>> /\ conn[c].down = <<>>

Timeout(c) ==
  /\ Idling /\ Silent(c)
  /\ FiniConn(c) /\ UNCHANGED <<tick, faults>>

-----------------------------------------------------------------------------
(* The environment. *)

\* A server's file is replaced by the next version, or deleted.
Publish(s) ==
  /\ Fault
  /\ at' = [at EXCEPT ![s] = (@ + 1) % (MaxVer + 1)]
  /\ settled' = FALSE
  /\ UNCHANGED <<task, disk, conn, tick, online, full, stamp, told, had, submits>>

MateConn(m) ==
  /\ \/ m \in online /\ online' = online \ {m} /\ Fault
     \/ m \notin online /\ online' = online \cup {m} /\ UNCHANGED faults
  /\ UNCHANGED <<task, disk, at, conn, tick, full, stamp, told, had, settled, submits>>

DiskSpace ==
  /\ full' = ~full
  /\ IF full THEN UNCHANGED faults ELSE Fault
  /\ UNCHANGED <<task, disk, at, conn, tick, online, stamp, told, had, settled, submits>>

Announce ==
  \E t \in Task, a \in Announcement : NewTask(t, a[1], a[2], a[3])

Signalling(t) == RetryFin(t) \/ Finish(t) \/ CheckTask(t) \/ Reap(t)
TickStep == TickBegin \/ TickEnd
              \/ \E t \in Task : Spare(t) \/ PutAside(t)
                                 \/ \E c \in Conn : Request(t, c)
Data(c) == SendTask(c) \/ RecvTask(c) \/ RecvData(c) \/ Timeout(c)

Next ==
  \/ Announce
  \/ \E t \in Task : Signalling(t) \/ PutOff(t) \/ Expire(t)
  \/ TickStep
  \/ \E c \in Conn : Data(c) \/ Lost(c)
  \/ \E s \in Server : Publish(s)
  \/ \E m \in Mate : MateConn(m)
  \/ DiskSpace

\* Both threads run their loops, and a server answers.
Spec == Init /\ [][Next]_vars
FairSpec ==
  /\ Spec
  /\ \A t \in Task : WF_vars(Signalling(t))
  /\ WF_vars(TickStep)
  /\ \A c \in Conn : SF_vars(Data(c))

-----------------------------------------------------------------------------
TypeOK ==
  /\ task \in [Task -> [list : Lists, kind : {"add", "del", "link"},
                         need : {"DST", "SOURCE", "SRC_NOSYNC", "SYNC_ISDIR"},
                         peer : Server, ver : 0 .. MaxVer, off : Nat,
                         retry : Nat, over : Overs, tmp : Seq(Version)]]
  /\ DOMAIN disk = Name
  /\ at \in [Server -> 0 .. MaxVer]
  /\ \A c \in Conn : conn[c].recvtask \in Task \cup {NoTask}
  /\ tick \in Nat /\ online \subseteq Mate /\ had \subseteq Version
  /\ stamp \in 0 .. MaxVer

\* A task is in RECV exactly while one connection carries it: no ending of a
\* connection (svc_finiconn, a refusal, a bad md5) loses it or gives it twice.
RecvIsCarried ==
  /\ \A t \in Task : task[t].list = "RECV" <=>
       \E c \in Conn : conn[c].recvtask = t
  /\ \A c, d \in Conn : conn[c].recvtask = conn[d].recvtask
                         /\ conn[c].recvtask # NoTask => c = d

\* A name of this CS never shows a partial file or one mixed of two versions,
\* however often the transfer broke off and was resumed (close_tmp_check_mv).
FileIsWhole ==
  \A n \in Name : disk[n] = <<>> \/ \E v \in Version : disk[n] = Content(v)

\* A mate is told to fetch a version only once this CS has had it whole
\* (do_fin_task, sync_task_2_group, create_delay_task).
ToldIsHad ==
  \A m \in Mate : \A x \in told[m] : x[1] = "del" \/ x[2] \in had

\* The stamp from which this CS asks for changes when it starts again is that
\* of a version it has had whole (close_tmp_check_mv, do_fin_task), whatever
\* was refused, broken off or announced anew.
StampIsHad == stamp # 0 => stamp \in had

\* While no server's file changes, no transfer ends in a bad md5: resumption
\* after a break appends exactly what is missing (svc_finiconn, do_recv_task).
NoFalseMd5 == settled => \A t \in Task : task[t].over # "E_MD5"

\* The tasks and the connections agree, and no ending of the one spoils the
\* other, whichever thread sees it first.
TasksSound == TypeOK /\ RecvIsCarried /\ NoFalseMd5

\* What this CS tells of itself, to its mates at once and to others when it
\* starts again, is so.
ClaimsAreTrue == ToldIsHad /\ StampIsHad

\* A task of the data thread ends, unless the disk stays full: RECV is not
\* scanned by do_timeout_task, so only the connection can end it.
TaskEnds ==
  \A t \in Task : task[t].list # "HOME" ~>
     \/ task[t].list = "HOME" \/ full
     \/ task[t].list \in {"WAIT_SYNC", "WAIT_SYNC_IP"} /\ task[t].peer \notin online
=============================================================================
