-------------------------------- MODULE Serve --------------------------------
(***************************************************************************)
(* The serving side of directory synchronisation, on an FCS and on a CS:   *)
(* a SYNC_DIR_REQ is taken on by the signalling thread, the directory is   *)
(* listed by sync_dir_thread while its files go on changing, and the       *)
(* signalling thread sends what was listed to whatever connection of the   *)
(* asker it finds (do_sync_dir_req, do_sync_dir_req_sub, process_dir_sync, *)
(* sync_dir_thread and do_fin_task of network/fcs and network/cs).         *)
(*                                                                         *)
(* A version of a file stands for its ctime.  A NEWTASK_REQ of the answer  *)
(* is <<file, version stat saw, version the md5 is of>>.  That two names   *)
(* of one inode become a link task is left out.                            *)
(***************************************************************************)
EXTENDS Naturals, SequencesExt, FiniteSetsExt

CONSTANTS
    Cs,         \* the content servers that ask
    Dir,        \* the directories, all with the same names
    File,       \* the names in a directory
    Task,       \* the t_vfs_tasklist nodes left to requests
    NoTask,     \* sync_dir_thread has no request
    MaxList,    \* NEWTASK_REQs that fit into MAXSYNCBUF
    MaxFile,    \* MAXFILE: the files an FCS notes of a directory
    Day, Limit, \* of check_count_one_day: 86400 s and g_config.sync_dir_count
    MaxVer,     \* bound on the versions of a file
    MaxAsk,     \* bound on the requests
    MaxFault    \* bound on closed connections and failed allocations

ASSUME ServeAssumption ==
    /\ Cs # {} /\ Dir # {} /\ IsFiniteSet(Task)
    /\ NoTask \notin Task /\ MaxList \in Nat /\ MaxFile \in Nat
    /\ Day \in Nat \ {0} /\ Limit \in Nat
    /\ MaxVer \in Nat \ {0} /\ MaxAsk \in Nat /\ MaxFault \in Nat

Version == 1 .. MaxVer

\* starttime and endtime.  A CS always sends an endtime, its own clock of when
\* it made the list of directories; starttime may be 0.
Request == [cs : Cs, dir : Dir, from : 0 .. MaxVer, to : Version]

VARIABLES
    role,    \* self_ipinfo.role: "FCS" or "CS"
    up,      \* the askers find_ip_stat finds
    disk,    \* disk[d][f]: the version of a file, 0 when there is none
    clock,   \* the newest version
    req,     \* task.base of each node in use: the request, as copied
    home,    \* the nodes in HOME
    reqs,    \* TASK_Q_SYNC_DIR_REQ
    rsps,    \* TASK_Q_SYNC_DIR_RSP
    lister,  \* sync_dir_thread
    given,   \* history: answers sent
    changed, \* history: <<dir, file>>s changed since sync_dir_thread opened its directory
    since, begun, count, taken,  \* of check_count_one_day
    asks, faults

limitVars == <<since, begun, count, taken>>
nodeVars  == <<req, home, reqs, rsps>>
diskVars  == <<disk, clock, changed>>
vars == <<role, up, diskVars, nodeVars, lister, given, limitVars, asks, faults>>

Lim == INSTANCE SyncLimit

Fault == faults < MaxFault /\ faults' = faults + 1

\* sync_dir_thread between requests.  unread: names readdir has not given;
\* noted: files stat'ed and waiting for their md5, of which `left' turns of the
\* loop remain; out: the NEWTASK_REQs in task.user; full: names were left
\* unread because MAXFILE had been noted.
Idle == [task |-> NoTask, unread |-> {}, noted |-> <<>>, left |-> 0,
         out |-> {}, gone |-> FALSE, full |-> FALSE, cut |-> FALSE]

Init ==
    /\ role \in {"FCS", "CS"}
    /\ up = {}
    /\ disk = [d \in Dir |-> [f \in File |-> 1]] /\ clock = 1
    /\ req = [t \in Task |-> [cs |-> CHOOSE c \in Cs : TRUE,
                              dir |-> CHOOSE d \in Dir : TRUE, from |-> 0, to |-> 1]]
    /\ home = Task
    /\ reqs = <<>> /\ rsps = <<>>
    /\ lister = Idle
    /\ given = [c \in Cs |-> [d \in Dir |-> 0]]
    /\ changed = {}
    /\ Lim!Init
    /\ asks = 0 /\ faults = 0

----------------------------------------------------------------------------
(* The askers and the disk                                                 *)

Connect(c) ==
    /\ c \notin up /\ up' = up \union {c}
    /\ UNCHANGED <<role, diskVars, nodeVars, lister, given, limitVars, asks, faults>>

Close(c) ==
    /\ c \in up /\ Fault /\ up' = up \ {c}
    /\ UNCHANGED <<role, diskVars, nodeVars, lister, given, limitVars, asks>>

\* A file is written or deleted.
Change(d, f) ==
    /\ clock < MaxVer /\ clock' = clock + 1
    /\ \/ disk' = [disk EXCEPT ![d][f] = clock + 1]
       \/ disk[d][f] # 0 /\ disk' = [disk EXCEPT ![d][f] = 0]
    /\ changed' = changed \union {<<d, f>>}
    /\ UNCHANGED <<role, up, nodeVars, lister, given, limitVars, asks, faults>>

DayPasses ==
    /\ Lim!Tick
    /\ UNCHANGED <<role, up, diskVars, nodeVars, lister, given, asks, faults>>

----------------------------------------------------------------------------
(* The signalling thread                                                   *)

\* Only an FCS counts the requests of a day.
TakesOn ==
    IF role = "FCS" THEN Lim!Count \/ Lim!NewDay ELSE UNCHANGED limitVars

Queue(r) ==
    \E t \in home :
        /\ home' = home \ {t}
        /\ req' = [req EXCEPT ![t] = r]
        /\ reqs' = Append(reqs, t)
        /\ UNCHANGED <<rsps, given>>

\* With no node left the request is answered as if the directory were empty.
AnswerAtOnce(r) ==
    /\ home = {}
    /\ given' = [given EXCEPT ![r.cs][r.dir] = @ + 1]
    /\ UNCHANGED nodeVars

\* do_sync_dir_req
SyncDirReq(r) ==
    /\ r.cs \in up /\ asks < MaxAsk /\ asks' = asks + 1
    /\ TakesOn
    /\ Queue(r) \/ AnswerAtOnce(r)
    /\ UNCHANGED <<role, up, diskVars, lister, faults>>

\* Over the limit of the day: the connection is closed.
TooMany(r) ==
    /\ r.cs \in up /\ asks < MaxAsk /\ asks' = asks + 1
    /\ role = "FCS" /\ Lim!Refuse
    /\ up' = up \ {r.cs}
    /\ UNCHANGED <<role, diskVars, nodeVars, lister, given, faults>>

\* do_fin_task sends an answer, on the connection the ip has now.  Without one
\* the node goes back all the same.  Seeded fault: it does not.
Leaked(t) == IF req[t].cs \in up THEN home \union {t} ELSE home
Returned(t) == home \union {t}
SendAnswer ==
    /\ rsps # <<>>
    /\ LET t == Head(rsps) IN
        /\ given' = IF req[t].cs \in up
                    THEN [given EXCEPT ![req[t].cs][req[t].dir] = @ + 1]
                    ELSE given
        /\ home' = Returned(t)
    /\ rsps' = Tail(rsps)
    /\ UNCHANGED <<role, up, diskVars, req, reqs, lister, limitVars, asks, faults>>

----------------------------------------------------------------------------
(* sync_dir_thread                                                         *)

Busy == lister.task # NoTask
Listing == req[lister.task]
Content == disk[Listing.dir]

\* The next request; malloc and opendir may fail, and then it is answered with
\* what there is: nothing.
TakeRequest ==
    /\ ~Busy /\ reqs # <<>>
    /\ reqs' = Tail(reqs)
    /\ \/ /\ lister' = [Idle EXCEPT !.task = Head(reqs), !.unread = File]
          /\ changed' = {}
          /\ UNCHANGED <<rsps, faults>>
       \/ /\ Fault
          /\ rsps' = Append(rsps, Head(reqs))
          /\ UNCHANGED <<lister, changed>>
    /\ UNCHANGED <<role, up, disk, clock, req, home, given, limitVars, asks>>

\* stat: a file whose ctime is outside the asker's window is passed over.
\* Seeded faults: so is one as old as the start of it; the end is forgotten.
InOpenWindow(f) == Content[f] > Listing.from /\ Content[f] =< Listing.to
NeverTooNew(f) == Content[f] # 0 /\ Content[f] >= Listing.from
InWindow(f) ==
    Content[f] # 0 /\ Content[f] >= Listing.from /\ Content[f] =< Listing.to

\* readdir.  A CS takes the md5 of a file before it reads the next name, an FCS
\* after it has read them all, or has noted MAXFILE of them and reads no more.
ReadName ==
    /\ Busy /\ ~lister.cut
    /\ role = "CS" => lister.noted = <<>>
    /\ \E f \in lister.unread :
        LET rest == lister.unread \ {f}
            full == role = "FCS" /\ Len(lister.noted) + 1 >= MaxFile
        IN  lister' =
              IF ~InWindow(f) THEN [lister EXCEPT !.unread = rest]
              ELSE [lister EXCEPT !.unread = IF full THEN {} ELSE rest,
                                  !.full = @ \/ (full /\ rest # {}),
                                  !.noted = Append(@, <<f, Content[f]>>),
                                  !.left = @ + 1]
    /\ UNCHANGED <<role, up, diskVars, nodeVars, given, limitVars, asks, faults>>

\* A file that has gone: the CS goes on to the next name, the FCS loop goes
\* round with the same file again.  Seeded fault: the turn is not counted.
SkipUncounted == [lister EXCEPT !.gone = TRUE, !.noted = Tail(@)]
Skip ==
    [lister EXCEPT !.left = @ - 1, !.gone = TRUE,
                   !.noted = IF role = "CS" THEN Tail(@) ELSE @]

\* getfilemd5view and the room left in task.user.
AddFile ==
    /\ Busy /\ ~lister.cut /\ lister.left > 0
    /\ role = "FCS" => lister.unread = {}
    /\ LET f == Head(lister.noted)[1] IN
        lister' =
            IF Content[f] = 0 THEN Skip
            ELSE IF Cardinality(lister.out) = MaxList THEN [lister EXCEPT !.cut = TRUE]
            ELSE [lister EXCEPT !.left = @ - 1, !.noted = Tail(@),
                       !.out = @ \union {<<f, Head(lister.noted)[2], Content[f]>>}]
    /\ UNCHANGED <<role, up, diskVars, nodeVars, given, limitVars, asks, faults>>

Listed == Busy /\ (lister.cut \/ (lister.unread = {} /\ lister.left = 0))

ListEnd ==
    /\ Listed
    /\ rsps' = Append(rsps, lister.task)
    /\ lister' = Idle
    /\ UNCHANGED <<role, up, diskVars, req, home, reqs, given, limitVars, asks, faults>>

----------------------------------------------------------------------------
SyncDirThread == TakeRequest \/ ReadName \/ AddFile \/ ListEnd

Next ==
    \/ \E c \in Cs : Connect(c) \/ Close(c)
    \/ \E d \in Dir, f \in File : Change(d, f)
    \/ DayPasses
    \/ \E r \in Request : SyncDirReq(r) \/ TooMany(r)
    \/ SendAnswer
    \/ SyncDirThread

Spec == Init /\ [][Next]_vars

\* Both threads go on: the listing thread sleeps only when it has nothing to
\* do, the signalling thread empties the queue of answers on every tick.
FairSpec == Spec /\ WF_vars(SyncDirThread) /\ WF_vars(SendAnswer)

----------------------------------------------------------------------------
(* Properties                                                              *)

TypeOK ==
    /\ role \in {"FCS", "CS"} /\ up \subseteq Cs
    /\ disk \in [Dir -> [File -> 0 .. MaxVer]] /\ clock \in Version
    /\ req \in [Task -> Request] /\ home \subseteq Task
    /\ reqs \in Seq(Task) /\ rsps \in Seq(Task)
    /\ lister.task \in Task \union {NoTask}
    /\ lister.left =< Len(lister.noted)
    /\ lister.out \subseteq File \X Version \X Version
    /\ given \in [Cs -> [Dir -> Nat]]

\* A directory that is listed to its end, while other files of it come, change
\* and go, gives of the files that stood still those whose ctime is between the
\* asker's starttime and endtime, and no others, each with the md5 of what stat
\* saw.  Four things cut it short: a directory of more than MAXFILE such files,
\* of which an FCS reads no further; a file that went away between its stat and
\* its md5, which an FCS tries again for all the turns it has left
\* (process_dir_sync); and an answer that is longer than MAXSYNCBUF.
ListingWhole ==
    Listed /\ ~lister.cut /\ (role = "FCS" => ~lister.gone /\ ~lister.full) =>
        \A f \in File :
            <<Listing.dir, f>> \notin changed =>
               IF Content[f] \in Version /\ Content[f] \in Listing.from .. Listing.to
                 THEN <<f, Content[f], Content[f]>> \in lister.out
                 ELSE \A v, w \in Version : <<f, v, w>> \notin lister.out

\* The listing in the making is one of the request being served, and whole.
ListingSound == TypeOK /\ ListingWhole

\* An FCS takes on less than twice its limit in any span of a day
\* (check_count_one_day), whoever asks and whatever becomes of the requests.
LessThanTwice == Lim!LessThanTwice

Pending(c, d) ==
    Cardinality({t \in Task \ home : req[t].cs = c /\ req[t].dir = d})

\* Every request taken on is answered once or dropped for want of a connection,
\* in the end: the two threads, the pool and the queues implement DirService.
Service == INSTANCE DirService WITH
    owed <- [c \in Cs |-> [d \in Dir |-> Pending(c, d)]]
ServiceSpec == Service!Spec
=============================================================================
