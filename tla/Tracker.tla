------------------------------ MODULE Tracker ------------------------------
(***************************************************************************)
(* The Tracker role: the signalling thread of network/tracker/ on top of   *)
(* the task lists of network/vfs_task.c, and the agent thread that reaps   *)
(* finished tasks.                                                         *)
(*                                                                         *)
(* An FCS submits a file; the tracker makes one task for each of the two   *)
(* big ISPs, gives each to a content server (CS) of that ISP, retries it   *)
(* on an error, re-dispatches it when the CS connection closes, and        *)
(* relays the CS's answer to the FCS.                                      *)
(*                                                                         *)
(* A task is one t_vfs_tasklist node: stat is the list it is linked in,    *)
(* hashed the membership in alltask, owner the peer whose tasklist it is   *)
(* linked in (userlist), slot whether task.user holds a slot of the        *)
(* status file.  The order inside a list is abstracted to a set.           *)
(***************************************************************************)
EXTENDS Integers, FiniteSetsExt

CONSTANTS
    Task,        \* the pool of t_vfs_tasklist nodes
    Key,         \* filename|src_domain|type of a file
    Cs,          \* the content servers of the directory's t_cs_dir_info
    IspOf,       \* their ISP
    Rank,        \* their index in t_cs_dir_info
    MaxRunOnce,  \* g_config.cs_max_task_run_once
    RetryTop,    \* largest value of the int8_t retry (127)
    MaxFault,    \* bound on connection closes, timeouts, offline commands
    NoCs,        \* no content server (dstip = 0, empty userlist)
    Orphan,      \* linked in a tasklist whose peer has been cleared
    NoKey        \* a zeroed task.base

Isp == {"TEL", "CNC"}
NoIsp == "none"

ASSUME CsAssumption ==
    /\ NoCs \notin Cs /\ Orphan \notin Cs /\ NoCs # Orphan
    /\ IspOf \in [Cs -> Isp]
    /\ Rank \in [Cs -> Nat]
    /\ \A c, d \in Cs : Rank[c] = Rank[d] => c = d
ASSUME KeyAssumption == NoKey \notin Key
ASSUME BoundAssumption ==
    /\ MaxRunOnce \in Nat \ {0} /\ RetryTop \in Nat \ {0, 1} /\ MaxFault \in Nat

Owner == Cs \union {NoCs, Orphan}
Status == {"HOME", "WAIT", "WAIT_SYNC", "RUN", "CLEAN"}
Retry == (-(RetryTop + 1)) .. RetryTop

VARIABLES
    stat,     \* the list each task is in (vfstask[], task->status)
    key,      \* task.base: what the task is about
    isp,      \* task.sub.isp
    dst,      \* task.base.dstip: the CS of the last dispatch
    retry,    \* task.base.retry, an int8_t
    hashed,   \* tasks linked in alltask (hlist)
    owner,    \* the peer whose tasklist holds the task (userlist)
    slot,     \* tasks with task.user # NULL, a slot of vfs_tmp_status
    conn,     \* connection of each CS: "down", "open" or "login"
    load,     \* peer->taskcount
    offline,  \* CSs set off line by the maintenance port
    fcs,      \* the FCS connection is up
    work,     \* work[c][k]: NEWTASK_REQs for k sent to c and not answered
    pc,       \* what the signalling thread is in: an event or check_task
    once,     \* the loop counter of check_task
    met,      \* history: what was submitted while a task about it was live
    faults    \* bounds the environment's faults

taskVars == <<stat, key, isp, dst, retry, hashed, owner, slot>>
netVars  == <<conn, load, offline, fcs, work>>
vars     == <<taskVars, netVars, pc, once, faults, met>>

(* A task that a list other than HOME and CLEAN holds.                     *)
Live(t) == stat[t] \notin {"HOME", "CLEAN"}

(* base->retry++ on an int8_t.                                             *)
Incr(n) == IF n = RetryTop THEN -(RetryTop + 1) ELSE n + 1

Init ==
    /\ stat = [t \in Task |-> "HOME"]
    /\ key = [t \in Task |-> NoKey]
    /\ isp = [t \in Task |-> NoIsp]
    /\ dst = [t \in Task |-> NoCs]
    /\ retry = [t \in Task |-> 0]
    /\ hashed = {}
    /\ owner = [t \in Task |-> NoCs]
    /\ slot = {}
    /\ conn = [c \in Cs |-> "down"]
    /\ load = [c \in Cs |-> 0]
    /\ offline = {}
    /\ fcs = FALSE
    /\ work = [c \in Cs |-> [k \in Key |-> 0]]
    /\ pc = "event"
    /\ once = 0
    /\ faults = 0
    /\ met = {}

Fault == faults < MaxFault /\ faults' = faults + 1

----------------------------------------------------------------------------
(* The task lists of vfs_task.c                                            *)

(* vfs_set_task on each task of T: out of the list it is in, into list s.  *)
Relist(T, s) == [t \in Task |-> IF t \in T THEN s ELSE stat[t]]

(* add_task_to_alltask.  Seeded fault: a task is added only when no equal  *)
(* one is there.                                                           *)
AddUnlessEqual(t) ==
    IF \E u \in hashed : key[u] = key[t] /\ isp[u] = isp[t]
    THEN hashed ELSE hashed \union {t}
AddToAllTask(t) == hashed \union {t}

(* list_del_init of hlist.  Seeded fault: it is forgotten.                 *)
StillInAllTask(t) == hashed
NotInAllTask(t) == hashed \ {t}

(* set_tmp_blank on task.user.  Seeded fault: it is forgotten.             *)
NotBlanked(t) == slot
Blanked(t) == slot \ {t}

(* memset of task.task before the node goes HOME.                          *)
Zero(t) ==
    /\ key' = [key EXCEPT ![t] = NoKey]
    /\ isp' = [isp EXCEPT ![t] = NoIsp]
    /\ dst' = [dst EXCEPT ![t] = NoCs]
    /\ retry' = [retry EXCEPT ![t] = 0]

----------------------------------------------------------------------------
(* New tasks                                                               *)

(* vfs_get_task takes the first node of HOME.  Free nodes are alike: a     *)
(* fixed order of the nodes stands for the order they came back in.        *)
FreeNode(T) == CHOOSE t \in T : stat[t] = "HOME"

(* do_newtask: two zeroed nodes are taken from HOME, one per big ISP, and  *)
(* put on WAIT with a slot each.  Nothing looks for an equal live task.    *)
NewTask(k) ==
    /\ pc = "event" /\ fcs
    /\ met' = met \union {j \in {k} : \E u \in Task : Live(u) /\ key[u] = j}
    /\ \E t, u \in Task :
        /\ t # u /\ stat[t] = "HOME" /\ stat[u] = "HOME"
        /\ t = FreeNode(Task) /\ u = FreeNode(Task \ {t})
        /\ stat' = Relist({t, u}, "WAIT")
        /\ key' = [key EXCEPT ![t] = k, ![u] = k]
        /\ isp' = [isp EXCEPT ![t] = "TEL", ![u] = "CNC"]
        /\ dst' = [dst EXCEPT ![t] = NoCs, ![u] = NoCs]
        /\ retry' = [retry EXCEPT ![t] = 0, ![u] = 0]
        /\ owner' = [owner EXCEPT ![t] = NoCs, ![u] = NoCs]
        /\ slot' = slot \union {t, u}
    /\ UNCHANGED <<hashed, netVars, pc, once, faults>>

----------------------------------------------------------------------------
(* check_task, run by svc_timeout                                          *)

(* First loop: every WAIT_SYNC task goes back to WAIT.  Seeded fault: the  *)
(* loop is left out.                                                       *)
NotRequeued == {}
Requeued == {t \in Task : stat[t] = "WAIT_SYNC"}

TickBegin ==
    /\ pc = "event"
    /\ stat' = Relist(Requeued, "WAIT")
    /\ pc' = "check_task"
    /\ once' = 0
    /\ UNCHANGED <<key, isp, dst, retry, hashed, owner, slot, netVars, faults, met>>

(* get_a_good_ip keeps the CSs of the task's ISP that have a connection,   *)
(* logged in or not, and are not off line.  The first of them is a         *)
(* candidate whatever it is, the others unless they are the last target.   *)
(* Seeded fault: find_ip_stat is not asked.                                *)
EligibleOffline(t) == {c \in Cs : IspOf[c] = isp[t] /\ c \notin offline}
Eligible(t) == {c \in Cs : IspOf[c] = isp[t] /\ conn[c] # "down" /\ c \notin offline}
FirstEligible(t) == {c \in Eligible(t) : \A d \in Eligible(t) : Rank[c] =< Rank[d]}
Candidate(t) == FirstEligible(t) \union {c \in Eligible(t) : c # dst[t]}

(* "<=" in the loop: of the least loaded candidates the last one wins.     *)
IsGoodIp(t, c) ==
    /\ c \in Candidate(t)
    /\ \A d \in Candidate(t) :
        load[c] < load[d] \/ (load[c] = load[d] /\ Rank[d] =< Rank[c])

MoreToDispatch == once < MaxRunOnce /\ \E t \in Task : stat[t] = "WAIT"

(* A successful do_dispatch: the request is sent, the task moves to the    *)
(* chosen peer's tasklist, to RUN and to the head of alltask.              *)
Dispatch(t, c) ==
    /\ pc = "check_task" /\ once < MaxRunOnce
    /\ stat[t] = "WAIT" /\ IsGoodIp(t, c)
    /\ stat' = Relist({t}, "RUN")
    /\ dst' = [dst EXCEPT ![t] = c]
    /\ retry' = [retry EXCEPT ![t] = Incr(@)]
    /\ hashed' = AddToAllTask(t)
    /\ owner' = [owner EXCEPT ![t] = c]
    /\ load' = [load EXCEPT ![c] = @ + 1]
    /\ work' = [work EXCEPT ![c][key[t]] = @ + 1]
    /\ once' = once + 1
    /\ UNCHANGED <<key, isp, slot, conn, offline, fcs, pc, faults, met>>

(* do_dispatch finds no CS: the task waits for the next tick, keeping its  *)
(* userlist and its place in alltask.                                      *)
DispatchFails(t) ==
    /\ pc = "check_task" /\ once < MaxRunOnce
    /\ stat[t] = "WAIT" /\ Eligible(t) = {}
    /\ stat' = Relist({t}, "WAIT_SYNC")
    /\ once' = once + 1
    /\ UNCHANGED <<key, isp, dst, retry, hashed, owner, slot, netVars, pc, faults, met>>

TickEnd ==
    /\ pc = "check_task" /\ ~MoreToDispatch
    /\ pc' = "event"
    /\ UNCHANGED <<taskVars, netVars, once, faults, met>>

(* do_timeout_task: a task older than task_timeout is taken off its list,  *)
(* alltask and the peer's tasklist, and goes straight to HOME.  The peer's *)
(* taskcount keeps counting it.                                            *)
Expire(t) ==
    /\ pc = "event" /\ Live(t) /\ Fault
    /\ stat' = Relist({t}, "HOME")
    /\ Zero(t)
    /\ hashed' = NotInAllTask(t)
    /\ owner' = [owner EXCEPT ![t] = NoCs]
    /\ slot' = Blanked(t)
    /\ UNCHANGED <<netVars, pc, once, met>>

----------------------------------------------------------------------------
(* Answers                                                                 *)

(* get_task_from_alltask for an answer of c about k: a hashed task of the  *)
(* same key and of c's ISP, whichever CS it was sent to and whatever list  *)
(* it is in.  Seeded fault: the ISP is not compared.                       *)
MatchAnyIsp(c, k) == {t \in hashed : key[t] = k}
Match(c, k) == {t \in hashed : key[t] = k /\ isp[t] = IspOf[c]}

(* The answer is consumed and peer->taskcount decremented, not below 0.    *)
(* Seeded fault: the count is left alone.                                  *)
AnsweredUncounted(c, k) ==
    /\ pc = "event" /\ conn[c] = "login" /\ work[c][k] > 0
    /\ work' = [work EXCEPT ![c][k] = @ - 1]
    /\ UNCHANGED load
Answered(c, k) ==
    /\ pc = "event" /\ conn[c] = "login" /\ work[c][k] > 0
    /\ work' = [work EXCEPT ![c][k] = @ - 1]
    /\ load' = [load EXCEPT ![c] = IF @ = 0 THEN 0 ELSE @ - 1]

(* update_task when alltask has no such task: the body is relayed to the   *)
(* FCS, nothing else changes.                                              *)
UnknownAnswer(c, k) ==
    /\ Answered(c, k) /\ Match(c, k) = {}
    /\ UNCHANGED <<taskVars, conn, offline, fcs, pc, once, faults, met>>

(* update_task on a retryable error with retry < 2: back to WAIT, still in *)
(* the peer's tasklist, out of alltask.                                    *)
RetryAnswer(c, k, t) ==
    /\ Answered(c, k) /\ t \in Match(c, k)
    /\ retry[t] < 2
    /\ stat' = Relist({t}, "WAIT")
    /\ hashed' = NotInAllTask(t)
    /\ UNCHANGED <<key, isp, dst, retry, owner, slot, conn, offline, fcs, pc, once, faults, met>>

(* update_task otherwise (OVER_OK, OVER_E_OPEN_SRCFILE, or an error after  *)
(* two dispatches): the slot is blanked, the task goes to CLEAN.  With the *)
(* FCS away process_timeout does the same, without the answer.             *)
FinalAnswer(c, k, t) ==
    /\ Answered(c, k) /\ t \in Match(c, k)
    /\ slot' = Blanked(t)
    /\ stat' = Relist({t}, "CLEAN")
    /\ hashed' = NotInAllTask(t)
    /\ owner' = [owner EXCEPT ![t] = NoCs]
    /\ UNCHANGED <<key, isp, dst, retry, conn, offline, fcs, pc, once, faults, met>>

(* get_data_from_task of the agent thread, at any moment.                  *)
AgentReap(t) ==
    /\ stat[t] = "CLEAN"
    /\ stat' = Relist({t}, "HOME")
    /\ Zero(t)
    /\ UNCHANGED <<hashed, owner, slot, netVars, pc, once, faults, met>>

----------------------------------------------------------------------------
(* Connections                                                             *)

(* svc_initconn on an accepted connection: find_ip_stat finds the peer     *)
(* from now on, its role is still unknown.                                 *)
CsConnect(c) ==
    /\ pc = "event" /\ conn[c] = "down"
    /\ conn' = [conn EXCEPT ![c] = "open"]
    /\ load' = [load EXCEPT ![c] = 0]
    /\ UNCHANGED <<taskVars, offline, fcs, work, pc, once, faults, met>>

(* ADDONE_REQ: init_cfg_connect sets the role and the ISP.                 *)
CsLogin(c) ==
    /\ pc = "event" /\ conn[c] = "open"
    /\ conn' = [conn EXCEPT ![c] = "login"]
    /\ UNCHANGED <<taskVars, load, offline, fcs, work, pc, once, faults, met>>

(* The peer's tasklist.                                                    *)
TasksOf(c) == {t \in Task : owner[t] = c}

(* svc_finiconn: only a peer known as a CS has its tasks refreshed; the    *)
(* tasks of another stay linked to each other without a head.              *)
CsClose(c) ==
    /\ pc = "event" /\ conn[c] # "down" /\ Fault
    /\ conn' = [conn EXCEPT ![c] = "down"]
    /\ load' = [load EXCEPT ![c] = 0]
    /\ stat' = Relist(IF conn[c] = "login" THEN TasksOf(c) ELSE {}, "WAIT")
    /\ owner' = [t \in Task |->
                    IF t \notin TasksOf(c) THEN owner[t]
                    ELSE IF conn[c] = "login" THEN NoCs ELSE Orphan]
    /\ UNCHANGED <<key, isp, dst, retry, hashed, slot, offline, fcs, work, pc, once, met>>

(* A request or its answer is lost with the connection, or the CS process  *)
(* restarts; what is not lost is answered on a later connection.           *)
CsForgets(c, k) ==
    /\ conn[c] = "down" /\ work[c][k] > 0
    /\ work' = [work EXCEPT ![c][k] = @ - 1]
    /\ UNCHANGED <<taskVars, conn, load, offline, fcs, pc, once, faults, met>>

SetOffline(c) ==
    /\ c \notin offline /\ Fault
    /\ offline' = offline \union {c}
    /\ UNCHANGED <<taskVars, conn, load, fcs, work, pc, once, met>>

SetOnline(c) ==
    /\ c \in offline
    /\ offline' = offline \ {c}
    /\ UNCHANGED <<taskVars, conn, load, fcs, work, pc, once, faults, met>>

FcsConnect ==
    /\ pc = "event" /\ ~fcs
    /\ fcs' = TRUE
    /\ UNCHANGED <<taskVars, conn, load, offline, work, pc, once, faults, met>>

FcsClose ==
    /\ pc = "event" /\ fcs /\ Fault
    /\ fcs' = FALSE
    /\ UNCHANGED <<taskVars, conn, load, offline, work, pc, once, met>>

----------------------------------------------------------------------------
Answer(c, k) ==
    \/ UnknownAnswer(c, k)
    \/ \E t \in Task : RetryAnswer(c, k, t) \/ FinalAnswer(c, k, t)

TryDispatch(t) == DispatchFails(t) \/ \E c \in Cs : Dispatch(t, c)

Next ==
    \/ \E k \in Key : NewTask(k)
    \/ TickBegin \/ TickEnd
    \/ \E t \in Task : TryDispatch(t) \/ Expire(t) \/ AgentReap(t)
    \/ \E c \in Cs, k \in Key : Answer(c, k) \/ CsForgets(c, k)
    \/ \E c \in Cs : CsConnect(c) \/ CsLogin(c) \/ CsClose(c)
    \/ \E c \in Cs : SetOffline(c) \/ SetOnline(c)
    \/ FcsConnect \/ FcsClose

Spec == Init /\ [][Next]_vars

(* The signalling thread is driven by epoll and by svc_timeout, which runs *)
(* check_task at every turn; a list is a FIFO, so a task that keeps being  *)
(* in WAIT when ticks run gets its turn; the agent scans CLEAN every few   *)
(* seconds.  Of the environment: a CS answers every request while its      *)
(* connection stays up.                                                    *)
Fairness ==
    /\ WF_vars(TickBegin \/ TickEnd)
    /\ \A t \in Task : SF_vars(TryDispatch(t)) /\ WF_vars(AgentReap(t))
    /\ \A c \in Cs, k \in Key : SF_vars(Answer(c, k))

FairSpec == Spec /\ Fairness

----------------------------------------------------------------------------
(* Properties                                                              *)

(* Every variable stays in its domain: retry in an int8_t, the loop of     *)
(* check_task within cs_max_task_run_once.                                 *)
TypeOK ==
    /\ stat \in [Task -> Status]
    /\ key \in [Task -> Key \union {NoKey}]
    /\ isp \in [Task -> Isp \union {NoIsp}]
    /\ dst \in [Task -> Cs \union {NoCs}]
    /\ retry \in [Task -> Retry]
    /\ hashed \subseteq Task
    /\ owner \in [Task -> Owner]
    /\ slot \subseteq Task
    /\ conn \in [Cs -> {"down", "open", "login"}]
    /\ load \in [Cs -> Nat]
    /\ offline \subseteq Cs
    /\ fcs \in BOOLEAN
    /\ work \in [Cs -> [Key -> Nat]]
    /\ pc \in {"event", "check_task"}
    /\ once \in 0 .. MaxRunOnce
    /\ faults \in 0 .. MaxFault
    /\ met \subseteq Key

(* A running task can be found by the answer that is to come: no path      *)
(* through retries, disconnects and equal tasks leaves RUN unhashed.       *)
RunIsHashed == \A t \in Task : stat[t] = "RUN" => t \in hashed

(* A task the agent may reap, or hand out again, is linked nowhere else:   *)
(* not in alltask, where an answer would pull it off HOME; not in a peer's *)
(* tasklist, where a disconnect would; get_data_from_task itself unlinks   *)
(* neither.                                                                *)
RestHoldsNothing ==
    \A t \in Task : ~Live(t) => t \notin hashed /\ owner[t] = NoCs

(* The tasks that hold a slot of the status file are exactly the           *)
(* unfinished ones, whatever way a task ends: none is lost to a crash and  *)
(* no slot leaks.  What a restart makes of the slots is TmpStatus's.       *)
SlotIffLive == slot = {t \in Task : Live(t)}

(* A running task sits in the tasklist of the connected CS it was sent to, *)
(* of its own ISP, so that the close of that connection re-dispatches it;  *)
(* the exception is a CS that closed before it logged in.                  *)
OwnerOnline ==
    \A t \in Task : stat[t] = "RUN" /\ owner[t] # Orphan =>
        /\ owner[t] \in Cs /\ owner[t] = dst[t]
        /\ conn[owner[t]] # "down" /\ IspOf[owner[t]] = isp[t]

(* Of a file that was never submitted again while it had a live task, a    *)
(* running task's CS still owes an answer: answers of earlier connections, *)
(* retries and re-dispatches never eat it.                                 *)
RunIsAwaited ==
    \A t \in Task :
        stat[t] = "RUN" /\ owner[t] \in Cs /\ key[t] \notin met =>
            work[owner[t]][key[t]] > 0

(* peer->taskcount, the load the dispatch balances, never exceeds the      *)
(* requests the CS still owes an answer, whatever late answers of an       *)
(* earlier connection did to it.                                           *)
Owed(c) == UNION {{k} \X (1 .. work[c][k]) : k \in Key}
LoadBounded == \A c \in Cs : load[c] =< Cardinality(Owed(c))

(* Once every CS stays logged in and on line, the tasks of a file end for  *)
(* both ISPs, without waiting for their timeout, except one left with no   *)
(* owner, and those of a file submitted again while it had a live task,    *)
(* whose answer an equal task may have taken.                              *)
AllUp == offline = {} /\ \A c \in Cs : conn[c] = "login"
Unfinished(k) == {t \in Task : Live(t) /\ key[t] = k /\ owner[t] # Orphan}
EventuallyDone ==
    <>[]AllUp => \A k \in Key : Unfinished(k) # {} ~> (Unfinished(k) = {} \/ k \in met)
=============================================================================
