------------------------------- MODULE Config -------------------------------
(***************************************************************************)
(* The table of servers of one process, and the life of that process.     *)
(*                                                                         *)
(* network/vfs_init.c reads the lists of servers into two structures: the  *)
(* servers of each directory (csinfo) and the table by address             *)
(* (cfg_iplist).  The main thread reloads them every reload_time seconds   *)
(* under init_rwmutex; the signalling thread walks the table under the     *)
(* same lock; the agent thread runs the operator's OFFLINE, ONLINE,        *)
(* SYNCDIR and CONFUPDA commands, which flag entries of the table and keep *)
(* a list, offlinehome, from which a reload renews the flags.  All three   *)
(* write self_stat.  network/watchdog.c, thread.c and daemon.c start the   *)
(* threads, kill a process one of whose threads hangs, and start the next. *)
(*                                                                         *)
(* The server is a CS.  The locks are timed: whoever does not get one      *)
(* within lock_timeout gives up what it wanted it for.                     *)
(***************************************************************************)
EXTENDS Integers, SequencesExt

CONSTANTS
    Host,           \* the servers, by address
    Self,           \* this server
    NoHost,
    CsDir,          \* the directories d1/d2
    NoIsp,          \* not on a list of archives
    Dialler,        \* the servers that connect to this one by themselves
    Lists,          \* the contents the lists of servers may have
    MaxCell,        \* MAXCS_ONEGRUOP
    MaxDir,         \* MAXDIR_FOR_CS
    DeadlockCount,  \* rounds without a sign of life the watchdog allows
    Told,           \* the servers the operator commands name
    Deeds,          \* the deeds of operator, administrator and environment
    MaxDeed         \* bound on their number

DeedKind == {"edit", "OFFLINE", "ONLINE", "SYNCDIR", "CONFUPDA", "NEWVOSS",
             "hang", "term"}
Thread == {"main", "agent", "sig"}
SelfStat == {"UNKOWN_STAT", "WAIT_SYNC", "ON_LINE", "OFF_LINE"}

LineOf == [d : CsDir, ip : Host, isp : {"TEL", "CNC"}, arch : {"FCS", "ARCHIVE", "ARCHIVE2"}]

ASSUME ListAssumption ==
    /\ IsFiniteSet(Host) /\ Self \in Host /\ NoHost \notin Host /\ Told \subseteq Host
    /\ Dialler \subseteq Host \ {Self}
    /\ Deeds \subseteq DeedKind
    /\ MaxCell \in Nat \ {0} /\ MaxDir \in Nat \ {0} /\ DeadlockCount \in Nat
    /\ MaxDeed \in Nat
    /\ \A f \in Lists :
         /\ f.cs \in Seq(LineOf) /\ f.archive \in Seq(LineOf) /\ f.hot \in Seq(Host)
         /\ \A s \in {f.tracker, f.fcs, f.afcs, f.voss} :
               s \in Seq(Host \ {Self}) \* this server is a CS
         /\ f.missing \in BOOLEAN

VARIABLES
    files,    \* what the lists of servers say now
    conf,     \* cs_sync_dir in the file of myconfig, or a torn file
    key,      \* cs_sync_dir and voss_server_ip in memory
    gsync,    \* g_config.cs_sync_dir
    csinfo,   \* for each directory the rows of its servers
    table,    \* cfg_iplist: from address to t_ip_info
    offlinehome,  \* the servers the operator took off line
    selfdir,  \* self_ipinfo.dirs[0], as it was at the start
    self_stat,
    stop,     \* the process is to end
    main,     \* what the main thread does, and to which server
    op,       \* the command the agent thread runs, and its step
    told,     \* a SYNCDIR task waits for the signalling thread
    sig,      \* what the signalling thread does
    conn,     \* the servers this one has a connection with
    ended,    \* the threads that have returned
    hung,     \* the thread that hangs, if any
    badcnt,   \* its rounds without a sign of life
    proc,     \* "up", or how the process ended
    term,     \* the watchdog was told to end: restart is 0
    waits,    \* the watchdog is in wait()
    want,     \* what each server was last told to be by an operator
    lost,     \* the servers for which that was not written to offlinehome
    deeds     \* deeds so far

cfg == <<csinfo, table>>
ops == <<op, told, want, lost, offlinehome>>
life == <<ended, hung, badcnt, proc, term, waits, stop>>
configVars == <<files, conf, key, gsync, csinfo, table, offlinehome, selfdir, self_stat,
          stop, main, op, told, sig, conn, ended, hung, badcnt, proc, term, waits,
          want, lost, deeds>>

(***************************************************************************)
(* Reading the lists                                                       *)
(***************************************************************************)
Nothing == [cells |-> [d \in CsDir |-> <<>>], tab |-> <<>>]

IpInfo(role, isp, arch) ==
    [role |-> role, isp |-> isp, real |-> isp, arch |-> arch,
     archive |-> FALSE, list |-> NoIsp, hot |-> FALSE, dirs |-> <<>>,
     offline |-> FALSE]

(* init_fcs for the archives and the FCSs, init_tracker, init_voss         *)
OfList(name) ==
    CASE name = "fcs"     -> IpInfo("FCS", "FCS", "FCS")
      [] name = "afcs"    -> IpInfo("FCS", "ARCHIVE", "ARCHIVE")
      [] name = "tracker" -> IpInfo("TRACKER", "TRACKER", NoIsp)
      [] name = "voss"    -> IpInfo("VOSS", "VOSS", NoIsp)

(* add_ip_info: the first mention of an address counts.                    *)
AddIpInfo(tab, h, e) ==
    [g \in DOMAIN tab \union {h} |-> IF g \in DOMAIN tab THEN tab[g] ELSE e]

NewCs(ln) ==
    [IpInfo("CS", ln.isp, ln.arch) EXCEPT
        !.archive = ln.arch # "FCS", !.dirs = <<ln.d>>,
        !.list = IF ln.arch = "FCS" THEN NoIsp ELSE ln.arch]

(* Seeded fault: the entry keeps its place among the archives.             *)
MoreCsUnlisted(e, ln, reuse) ==
    [e EXCEPT !.real = ln.isp, !.archive = @ \/ ln.arch # "FCS",
              !.arch = IF reuse THEN ln.arch ELSE @,
              !.dirs = IF Contains(@, ln.d) \/ Len(@) = MaxDir
                         THEN @ ELSE Append(@, ln.d)]

(* Seeded fault: a directory the entry has already is added again.         *)
MoreCsTwice(e, ln, reuse) ==
    [e EXCEPT !.real = ln.isp, !.archive = @ \/ ln.arch # "FCS",
              !.arch = IF reuse THEN ln.arch ELSE @,
              !.list = IF reuse THEN ln.arch ELSE @,
              !.dirs = IF Len(@) = MaxDir THEN @ ELSE Append(@, ln.d)]

MoreCs(e, ln, reuse) ==
    [e EXCEPT !.real = ln.isp, !.archive = @ \/ ln.arch # "FCS",
              !.arch = IF reuse THEN ln.arch ELSE @,
              !.list = IF reuse THEN ln.arch ELSE @,
              !.dirs = IF Contains(@, ln.d) \/ Len(@) = MaxDir
                         THEN @ ELSE Append(@, ln.d)]

(* pushcs: a line names a server of a directory.  A directory that gets    *)
(* its MaxCell-th server begins again at none.                             *)
PushCs(acc, ln) ==
    LET cell == acc.cells[ln.d]
        reuse == \E i \in DOMAIN cell : cell[i].ip = ln.ip
        row == [ip |-> ln.ip, isp |-> ln.isp, real |-> ln.isp, arch |-> ln.arch]
        grown == IF Len(cell) + 1 = MaxCell THEN <<>> ELSE Append(cell, row)
        reused == [i \in DOMAIN cell |->
                     IF cell[i].ip = ln.ip
                       THEN [cell[i] EXCEPT !.arch = ln.arch, !.real = ln.isp]
                       ELSE cell[i]]
    IN  IF reuse /\ ln.arch = "FCS" THEN acc
        ELSE [cells |-> [acc.cells EXCEPT ![ln.d] = IF reuse THEN reused ELSE grown],
              tab |-> IF ln.ip \in DOMAIN acc.tab
                        THEN [acc.tab EXCEPT ![ln.ip] = MoreCs(@, ln, reuse)]
                        ELSE AddIpInfo(acc.tab, ln.ip, NewCs(ln))]

PushHot(acc, h) ==
    IF h \in DOMAIN acc.tab THEN [acc EXCEPT !.tab[h].hot = TRUE] ELSE acc

(* A line of the list of that name.                                        *)
Take(acc, name, ln) ==
    CASE name \in {"cs", "archive"} -> PushCs(acc, ln)
      [] name = "hot" -> PushHot(acc, ln)
      [] OTHER -> [acc EXCEPT !.tab = AddIpInfo(@, ln, OfList(name))]

Named(f, name) == [i \in DOMAIN f[name] |-> <<name, f[name][i]>>]

(* The order of reload_cfg: archive FCSs, the CSs, the hot ones, the       *)
(* archives, the trackers, the FCSs, the master.                           *)
LinesOf(f) ==
    Named(f, "afcs") \o Named(f, "cs") \o Named(f, "hot") \o Named(f, "archive")
      \o Named(f, "tracker") \o Named(f, "fcs") \o Named(f, "voss")

TakeAll(all) ==
    LET after[n \in 0..Len(all)] ==
          IF n = 0 THEN Nothing ELSE Take(after[n - 1], all[n][1], all[n][2])
    IN  after[Len(all)]

ReadLists(f) == TakeAll(LinesOf(f))

(* A list cannot be opened.                                                *)
Unreadable(f) == f.missing

Readings == {[lists |-> f, result |-> ReadLists(f)] : f \in Lists}
Loaded(f) == (CHOOSE r \in Readings : r.lists = f).result

(* What vfs_init and get_self_info need to let the process start.          *)
Startable == ~Unreadable(files) /\ conf # "torn" /\ Self \in DOMAIN Loaded(files).tab

(* get_self_info copies the entry of this server, once.                    *)
SelfInfo == Head(Loaded(files).tab[Self].dirs)

(* myconfig_init reads the file of myconfig into memory.                   *)
ReadConf == [sync |-> conf, voss |-> TRUE]

(* myconfig_get_intval: "yes", "on" or a number                            *)
IntVal(v) == v = "yes"

(***************************************************************************)
(* The start of a process                                                  *)
(***************************************************************************)
MainAt(at) == [at |-> at, todo |-> <<>>]
OpAt(at, kind, h) == [at |-> at, kind |-> kind, host |-> h]
OpIdle == OpAt("idle", "ONLINE", NoHost)
SigIdle == [at |-> "idle", todo |-> <<>>]

ConfigInit ==
    /\ files \in Lists /\ conf = "no" /\ key = ReadConf /\ gsync = IntVal(conf) /\ Startable
    /\ csinfo = Loaded(files).cells /\ table = Loaded(files).tab
    /\ offlinehome = {} /\ selfdir = SelfInfo
    /\ self_stat = "UNKOWN_STAT" /\ stop = FALSE
    /\ main = MainAt("top") /\ op = OpIdle /\ told = FALSE
    /\ sig = SigIdle /\ conn = {} /\ ended = {} /\ hung = "none" /\ badcnt = 0
    /\ proc = "up" /\ term = FALSE /\ waits = FALSE
    /\ want = [h \in Host |-> "ONLINE"] /\ lost = {} /\ deeds = 0

(* A thread between its start and its return.                              *)
Runs(t) == proc = "up" /\ hung # t /\ t \notin ended

(***************************************************************************)
(* The locks                                                               *)
(***************************************************************************)
(* init_rwmutex is held for writing while the lists are read, and for ever *)
(* after they could not be.                                                *)
CfgWritten == main.at \in {"load", "failed"}
(* offline_rwmutex is held for reading while the flags are renewed.        *)
OfflineRead == main.at \in {"refresh", "flag"}

(* Seeded fault: a reload goes on without the lock it did not get.         *)
AnyReader == TRUE

NoReader == sig.at # "walk"

(***************************************************************************)
(* The main thread: main_loop, reload_cfg                                  *)
(***************************************************************************)
Turn ==
    /\ Runs("main") /\ main.at = "top" /\ ~stop
    /\ main' = MainAt("loop")
    /\ UNCHANGED <<files, conf, key, gsync, selfdir, self_stat, sig, conn, deeds, cfg,
                   ops, life>>

(* Turns in which it is not yet reload_time, or the write lock is not had, *)
(* change nothing; but the last one ends.                                  *)
LastTurn ==
    /\ Runs("main") /\ main.at = "loop" /\ stop
    /\ main' = MainAt("top")
    /\ UNCHANGED <<files, conf, key, gsync, selfdir, self_stat, sig, conn, deeds, cfg,
                   ops, life>>

Reload ==
    /\ Runs("main") /\ main.at = "loop" /\ NoReader
    /\ main' = MainAt("load")
    /\ table' = <<>>
    /\ UNCHANGED <<files, conf, key, gsync, csinfo, selfdir, self_stat, sig, conn,
                   deeds, ops, life>>

Load ==
    /\ Runs("main") /\ main.at = "load"
    /\ IF Unreadable(files) \/ ~key.voss
         THEN /\ main' = MainAt("failed") /\ stop' = TRUE
              /\ UNCHANGED cfg
         ELSE /\ main' = MainAt("unlock")
              /\ csinfo' = Loaded(files).cells /\ table' = Loaded(files).tab
              /\ UNCHANGED stop
    /\ UNCHANGED <<files, conf, key, gsync, selfdir, self_stat, sig, conn, deeds,
                   ops, ended, hung, badcnt, proc, term, waits>>

(* The first half of do_ip_off_line, on the server's own state.            *)
SelfTold(kind, h) ==
    IF h # Self THEN self_stat
    ELSE IF kind = "OFFLINE" THEN "OFF_LINE"
    ELSE IF self_stat = "OFF_LINE" THEN "UNKOWN_STAT" ELSE self_stat

(* Its second half, on the table.                                          *)
Flagged(kind, h) ==
    IF h \in DOMAIN table THEN [table EXCEPT ![h].offline = (kind = "OFFLINE")]
    ELSE table

(* Seeded fault: a reload forgets who is off line.                         *)
NoneOffline == {}

Offline == offlinehome

(* refresh_offline takes the lock, flags one server after another.         *)
RefreshBegin ==
    /\ Runs("main") /\ main.at = "unlock"
    /\ main' = [MainAt("refresh") EXCEPT !.todo = SetToSeq(Offline)]
    /\ UNCHANGED <<files, conf, key, gsync, selfdir, self_stat, sig, conn, deeds,
                   cfg, ops, life>>

RefreshSelf ==
    /\ Runs("main") /\ main.at = "refresh" /\ main.todo # <<>>
    /\ self_stat' = SelfTold("OFFLINE", Head(main.todo))
    /\ main' = [main EXCEPT !.at = "flag"]
    /\ UNCHANGED <<files, conf, key, gsync, selfdir, sig, conn, deeds, cfg, ops, life>>

RefreshFlag ==
    /\ Runs("main") /\ main.at = "flag"
    /\ table' = Flagged("OFFLINE", Head(main.todo))
    /\ main' = [main EXCEPT !.at = "refresh", !.todo = Tail(@)]
    /\ UNCHANGED <<files, conf, key, gsync, csinfo, selfdir, self_stat, sig, conn,
                   deeds, ops, life>>

(* check_self_stat: the entry is copied, then judged.                      *)
CheckSelf ==
    /\ Runs("main") /\ main.at = "refresh" /\ main.todo = <<>>
    /\ main' = MainAt(IF Self \in DOMAIN table /\ ~table[Self].offline
                        THEN "listed" ELSE "unlisted")
    /\ UNCHANGED <<files, conf, key, gsync, selfdir, self_stat, sig, conn, deeds,
                   cfg, ops, life>>

(* Seeded fault: a server that is off line stays so.                       *)
JudgedOnce == IF main.at = "unlisted" THEN "OFF_LINE" ELSE self_stat

Judged ==
    CASE main.at = "unlisted"      -> "OFF_LINE"
      [] self_stat = "OFF_LINE"    -> "UNKOWN_STAT"
      [] OTHER                     -> self_stat

Judge ==
    /\ Runs("main") /\ main.at \in {"listed", "unlisted"}
    /\ self_stat' = Judged
    /\ main' = MainAt("top")
    /\ UNCHANGED <<files, conf, key, gsync, selfdir, sig, conn, deeds, cfg, ops, life>>

(* stop_threads joins the others; then main returns.                       *)
MainEnds ==
    /\ Runs("main") /\ stop /\ main.at \in {"top", "failed"}
    /\ {"agent", "sig"} \subseteq ended
    /\ ended' = Thread /\ proc' = "exited"
    /\ UNCHANGED <<files, conf, key, gsync, selfdir, self_stat, main, sig, conn, deeds,
                   cfg, ops, hung, badcnt, term, waits, stop>>

(***************************************************************************)
(* The agent thread: do_request                                            *)
(***************************************************************************)
OpSelf ==
    /\ Runs("agent") /\ op.at = "self"
    /\ self_stat' = SelfTold(op.kind, op.host)
    /\ op' = [op EXCEPT !.at = "flag"]
    /\ UNCHANGED <<files, conf, key, gsync, selfdir, main, told, sig, conn, want,
                   lost, offlinehome, deeds, cfg, life>>

OpFlag ==
    /\ Runs("agent") /\ op.at = "flag"
    /\ table' = IF CfgWritten THEN table ELSE Flagged(op.kind, op.host)
    /\ op' = [op EXCEPT !.at = "list"]
    /\ UNCHANGED <<files, conf, key, gsync, csinfo, selfdir, self_stat, main, told, sig,
                   conn, want, lost, offlinehome, deeds, life>>

(* oper_ip_off_line; the lock may not be had while the flags are renewed.  *)
OpList ==
    /\ Runs("agent") /\ op.at = "list"
    /\ \/ /\ ~OfflineRead
          /\ offlinehome' = IF op.kind = "OFFLINE" THEN offlinehome \union {op.host}
                            ELSE offlinehome \ {op.host}
          /\ lost' = lost \ {op.host}
       \/ /\ OfflineRead
          /\ lost' = lost \union {op.host} /\ UNCHANGED offlinehome
    /\ op' = OpIdle
    /\ UNCHANGED <<files, conf, key, gsync, selfdir, self_stat, main, told, sig, conn,
                   want, deeds, cfg, life>>

(* voss_sync_dir leaves the signalling thread a task.                      *)
OpSyncDir ==
    /\ Runs("agent") /\ op.at = "task"
    /\ told' = TRUE /\ op' = OpIdle
    /\ UNCHANGED <<files, conf, key, gsync, selfdir, self_stat, main, sig, conn, want,
                   lost, offlinehome, deeds, cfg, life>>

(* do_confupda: the key is deleted from memory, put there again with its   *)
(* new value, the file is written anew, and reload_config sets g_config.   *)
OpDelete ==
    /\ Runs("agent") /\ op.at = "delete"
    /\ key' = IF op.kind = "NEWVOSS" THEN [key EXCEPT !.voss = FALSE]
              ELSE [key EXCEPT !.sync = "none"]
    /\ op' = [op EXCEPT !.at = "put"]
    /\ UNCHANGED <<files, conf, gsync, selfdir, self_stat, main, told, sig, conn,
                   want, lost, offlinehome, deeds, cfg, life>>

OpPut ==
    /\ Runs("agent") /\ op.at = "put"
    /\ \E v \in {"yes", "no"} :
         key' = IF op.kind = "NEWVOSS" THEN [key EXCEPT !.voss = TRUE]
                ELSE [key EXCEPT !.sync = v]
    /\ op' = [op EXCEPT !.at = "dump"]
    /\ UNCHANGED <<files, conf, gsync, selfdir, self_stat, main, told, sig, conn,
                   want, lost, offlinehome, deeds, cfg, life>>

OpDump ==
    /\ Runs("agent") /\ op.at \in {"dump", "close"}
    /\ \/ op.at = "dump" /\ conf' = "torn" /\ op' = [op EXCEPT !.at = "close"]
       \/ op.at = "close" /\ conf' = key.sync /\ op' = [op EXCEPT !.at = "config"]
    /\ UNCHANGED <<files, key, gsync, selfdir, self_stat, main, told, sig, conn,
                   want, lost, offlinehome, deeds, cfg, life>>

ReloadConfig ==
    /\ Runs("agent") /\ op.at = "config"
    /\ gsync' = IntVal(key.sync)
    /\ op' = OpIdle
    /\ UNCHANGED <<files, conf, key, selfdir, self_stat, main, told, sig, conn, want,
                   lost, offlinehome, deeds, cfg, life>>

AgentEnds ==
    /\ Runs("agent") /\ stop /\ op.at = "idle"
    /\ ended' = ended \union {"agent"}
    /\ UNCHANGED <<files, conf, key, gsync, selfdir, self_stat, main, sig, conn, deeds,
                   cfg, ops, hung, badcnt, proc, term, waits, stop>>

(***************************************************************************)
(* The signalling thread: svc_timeout of the CS                            *)
(***************************************************************************)
(* scan_cfg_iplist_and_connect wants the lock.                             *)
WalkWanted ==
    /\ Runs("sig") /\ ~stop /\ sig.at = "idle"
    /\ sig' = [sig EXCEPT !.at = "lock"]
    /\ UNCHANGED <<files, conf, key, gsync, selfdir, self_stat, main, conn, deeds, cfg,
                   ops, life>>

WalkBegin ==
    /\ Runs("sig") /\ sig.at = "lock" /\ ~CfgWritten
    /\ sig' = [at |-> "walk", todo |-> SetToSeq(DOMAIN table)]
    /\ UNCHANGED <<files, conf, key, gsync, selfdir, self_stat, main, conn, deeds, cfg,
                   ops, life>>

(* Seeded fault: it waits for the lock without a limit.                    *)
WaitForEver == FALSE

(* Reading the lists takes less than lock_timeout, if it does not hang.    *)
GivesUp == main.at = "failed" \/ (main.at = "load" /\ hung = "main")

WalkGivesUp ==
    /\ Runs("sig") /\ sig.at = "lock" /\ GivesUp
    /\ sig' = [sig EXCEPT !.at = "stat"]
    /\ UNCHANGED <<files, conf, key, gsync, selfdir, self_stat, main, conn, deeds, cfg,
                   ops, life>>

(* Whom a CS keeps a connection with: all but the master, and the CSs of   *)
(* other directories.                                                      *)
Near(h) ==
    /\ h # Self /\ h \in DOMAIN table /\ table[h].role # "VOSS"
    /\ table[h].role = "CS" => Head(table[h].dirs) = selfdir


Walked(h) ==
    IF ~Near(h) THEN conn
    ELSE IF self_stat = "OFF_LINE" THEN conn \ {h}
    ELSE IF table[h].offline THEN conn ELSE conn \union {h}

WalkOne ==
    /\ Runs("sig") /\ sig.at = "walk" /\ sig.todo # <<>>
    /\ conn' = Walked(Head(sig.todo))
    /\ sig' = [sig EXCEPT !.todo = Tail(@)]
    /\ UNCHANGED <<files, conf, key, gsync, selfdir, self_stat, main, deeds, cfg, ops,
                   life>>

WalkEnd ==
    /\ Runs("sig") /\ sig.at = "walk" /\ sig.todo = <<>>
    /\ sig' = [sig EXCEPT !.at = "stat"]
    /\ UNCHANGED <<files, conf, key, gsync, selfdir, self_stat, main, conn, deeds, cfg,
                   ops, life>>

(* Between its ticks the signalling thread takes the connections others    *)
(* make, whatever self_stat is, unless it has one with them (svc_initconn),*)
(* and loses those they close.                                             *)
Accept(h) ==
    /\ Runs("sig") /\ sig.at = "idle" /\ h \notin conn /\ conn' = conn \union {h}
    /\ UNCHANGED <<files, conf, key, gsync, selfdir, self_stat, main, sig, deeds, cfg, ops,
                   life>>

Lose(h) ==
    /\ Runs("sig") /\ sig.at = "idle" /\ h \in conn /\ conn' = conn \ {h}
    /\ UNCHANGED <<files, conf, key, gsync, selfdir, self_stat, main, sig, deeds, cfg, ops,
                   life>>

(* svc_timeout tests self_stat and then sets it; CsSync has the            *)
(* synchronisation that ends with "finish".                                *)
StatRead ==
    /\ Runs("sig") /\ sig.at = "stat"
    /\ sig' = [sig EXCEPT !.at = IF gsync \/ self_stat = "UNKOWN_STAT"
                                   THEN "begin" ELSE "again"]
    /\ UNCHANGED <<files, conf, key, gsync, selfdir, self_stat, main, conn, deeds, cfg,
                   ops, life>>

SyncBegin ==
    /\ Runs("sig") /\ sig.at = "begin"
    /\ gsync' = FALSE /\ self_stat' = "WAIT_SYNC"
    /\ sig' = [sig EXCEPT !.at = "again"]
    /\ UNCHANGED <<files, conf, key, selfdir, main, conn, deeds, cfg, ops, life>>

StatAgain ==
    /\ Runs("sig") /\ sig.at = "again"
    /\ sig' = [sig EXCEPT !.at = IF self_stat = "WAIT_SYNC" THEN "syncing" ELSE "task"]
    /\ UNCHANGED <<files, conf, key, gsync, selfdir, self_stat, main, conn, deeds, cfg,
                   ops, life>>

Syncing ==
    /\ Runs("sig") /\ sig.at = "syncing"
    /\ \/ self_stat' = "ON_LINE"
       \/ UNCHANGED self_stat
    /\ sig' = [sig EXCEPT !.at = "task"]
    /\ UNCHANGED <<files, conf, key, gsync, selfdir, main, conn, deeds, cfg, ops, life>>

(* check_task, where do_voss_sync_dir begins the synchronisation asked for *)
CheckTask ==
    /\ Runs("sig") /\ sig.at = "task"
    /\ told' = FALSE
    /\ self_stat' = IF told THEN "WAIT_SYNC" ELSE self_stat
    /\ sig' = SigIdle
    /\ UNCHANGED <<files, conf, key, gsync, selfdir, main, conn, op, want, lost,
                   offlinehome, deeds, cfg, life>>

SigEnds ==
    /\ Runs("sig") /\ stop /\ sig.at = "idle"
    /\ ended' = ended \union {"sig"}
    /\ UNCHANGED <<files, conf, key, gsync, selfdir, self_stat, main, sig, conn, deeds,
                   cfg, ops, hung, badcnt, proc, term, waits, stop>>

(***************************************************************************)
(* The watchdog                                                            *)
(***************************************************************************)
(* check_threadmap, every ten seconds.  A thread that does not hang is     *)
(* taken to give a sign of life within DeadlockCount rounds.               *)
Round ==
    /\ proc = "up" /\ hung # "none"
    /\ IF badcnt >= DeadlockCount
         THEN proc' = "killed" /\ UNCHANGED badcnt
         ELSE badcnt' = badcnt + 1 /\ UNCHANGED proc
    /\ UNCHANGED <<files, conf, key, gsync, selfdir, self_stat, main, sig, conn, deeds,
                   cfg, ops, ended, hung, term, waits, stop>>

(* start_watchdog goes back to wait() for its process.                     *)
Wait ==
    /\ proc = "up" /\ ~waits /\ waits' = TRUE
    /\ UNCHANGED <<files, conf, key, gsync, selfdir, self_stat, main, sig, conn, deeds,
                   cfg, ops, ended, hung, badcnt, proc, term, stop>>

(* Seeded fault: SIGTERM leaves restart as it is.                          *)
RestartAnyway == TRUE

MayRestart == ~term

(* wait() has returned a process that did not exit by itself: daemon_stop  *)
(* looks at restart and sleeps a second.                                   *)
Sleep ==
    /\ proc = "killed" /\ MayRestart /\ proc' = "asleep"
    /\ UNCHANGED <<files, conf, key, gsync, selfdir, self_stat, main, sig, conn, deeds,
                   cfg, ops, ended, hung, badcnt, term, waits, stop>>

(* execv: a new image, which has not heard of any signal.                  *)
Replace ==
    /\ proc = "asleep" /\ Startable
    /\ key' = ReadConf /\ gsync' = IntVal(conf)
    /\ csinfo' = Loaded(files).cells /\ table' = Loaded(files).tab
    /\ offlinehome' = {} /\ selfdir' = SelfInfo
    /\ self_stat' = "UNKOWN_STAT" /\ stop' = FALSE
    /\ main' = MainAt("top") /\ op' = OpIdle /\ told' = FALSE
    /\ sig' = SigIdle /\ conn' = {} /\ ended' = {} /\ hung' = "none" /\ badcnt' = 0
    /\ proc' = "up" /\ term' = FALSE /\ waits' = FALSE
    /\ lost' = {h \in Host : want[h] = "OFFLINE"}
    /\ UNCHANGED <<files, conf, want, deeds>>

(* A process that exited is not replaced.                                  *)
GoDown ==
    /\ \/ proc = "exited"
       \/ proc = "killed" /\ ~MayRestart
       \/ proc = "asleep" /\ ~Startable
    /\ proc' = "down"
    /\ UNCHANGED <<files, conf, key, gsync, selfdir, self_stat, main, sig, conn, deeds,
                   cfg, ops, ended, hung, badcnt, term, waits, stop>>

(***************************************************************************)
(* The operator, the administrator, the other servers and misfortune       *)
(***************************************************************************)
Deed(kind) == kind \in Deeds /\ deeds < MaxDeed /\ deeds' = deeds + 1

FirstStep(kind) ==
    CASE kind = "SYNCDIR" -> "task" [] kind \in {"CONFUPDA", "NEWVOSS"} -> "delete"
      [] OTHER -> "self"

Command(kind, h) ==
    /\ Deed(kind) /\ Runs("agent") /\ ~stop /\ op.at = "idle"
    /\ op' = OpAt(FirstStep(kind), kind, h)
    /\ want' = IF h = NoHost THEN want ELSE [want EXCEPT ![h] = kind]
    /\ UNCHANGED <<files, conf, key, gsync, selfdir, self_stat, main, told, sig, conn,
                   lost, offlinehome, cfg, life>>

EditLists ==
    /\ Deed("edit") /\ files' \in Lists \ {files}
    /\ UNCHANGED <<conf, key, gsync, selfdir, self_stat, main, sig, conn, cfg, ops, life>>

Hang ==
    /\ Deed("hang") /\ hung = "none" /\ \E t \in Thread : Runs(t) /\ hung' = t
    /\ UNCHANGED <<files, conf, key, gsync, selfdir, self_stat, main, sig, conn, cfg, ops,
                   ended, badcnt, proc, term, waits, stop>>

(* SIGTERM to the watchdog.  wait() returns and it passes the signal on;   *)
(* a signal that comes before it waits again is only noted.                *)
Term ==
    /\ Deed("term") /\ proc # "down" /\ term' = TRUE
    /\ stop' = (stop \/ (proc = "up" /\ waits))
    /\ waits' = (waits /\ proc # "up")
    /\ UNCHANGED <<files, conf, key, gsync, selfdir, self_stat, main, sig, conn, cfg, ops,
                   ended, hung, badcnt, proc>>

-----------------------------------------------------------------------------
Main == Turn \/ LastTurn \/ RefreshBegin \/ RefreshSelf \/ RefreshFlag \/ CheckSelf \/ Judge \/ Load \/ MainEnds
Agent == OpSelf \/ OpFlag \/ OpList \/ OpSyncDir \/ OpDelete
         \/ OpPut \/ OpDump \/ ReloadConfig \/ AgentEnds
Sig == WalkWanted \/ WalkBegin \/ WalkGivesUp \/ WalkOne \/ WalkEnd \/ StatRead
       \/ StatAgain \/ SyncBegin \/ Syncing \/ CheckTask \/ SigEnds
Peers == \E h \in Dialler : Accept(h) \/ Lose(h)
Watchdog == Round \/ Wait \/ Sleep \/ Replace \/ GoDown

ConfigNext ==
    \/ Reload \/ Main \/ Agent \/ Sig \/ Peers \/ Watchdog
    \/ \E kind \in {"OFFLINE", "ONLINE"}, h \in Told : Command(kind, h)
    \/ \E kind \in {"SYNCDIR", "CONFUPDA", "NEWVOSS"} : Command(kind, NoHost)
    \/ EditLists \/ Hang \/ Term

(* Every thread that does not hang takes its next step, and the watchdog   *)
(* its next round.  The write lock is tried for every two seconds, and     *)
(* between two walks nobody reads; a walk is tried for every cktimeout     *)
(* seconds, and the table is written once in reload_time: strong fairness. *)
ConfigFairness ==
    /\ WF_configVars(Main) /\ WF_configVars(Agent) /\ WF_configVars(Sig) /\ WF_configVars(Watchdog)
    /\ SF_configVars(Reload) /\ SF_configVars(WalkBegin)

ConfigSpec == ConfigInit /\ [][ConfigNext]_configVars /\ ConfigFairness

-----------------------------------------------------------------------------
ConfigTypeOK ==
    /\ files \in Lists /\ conf \in {"yes", "no", "torn"} /\ gsync \in BOOLEAN
    /\ \A d \in CsDir : /\ Len(csinfo[d]) < MaxCell
                      /\ \A i \in DOMAIN csinfo[d] : csinfo[d][i].ip \in Host
    /\ DOMAIN table \subseteq Host
    /\ \A h \in DOMAIN table : /\ table[h].dirs \in BoundedSeq(CsDir, MaxDir)
                               /\ IsInjective(table[h].dirs)
                               /\ table[h].offline \in BOOLEAN
    /\ offlinehome \subseteq Host /\ selfdir \in CsDir /\ self_stat \in SelfStat
    /\ main.at \in {"top", "loop", "load", "failed", "unlock", "refresh", "flag",
                    "listed", "unlisted"}
    /\ main.todo \in BoundedSeq(Host, Cardinality(Host))
    /\ op.at \in {"idle", "self", "flag", "list", "task", "delete", "put", "dump",
                  "close", "config"}
    /\ key \in [sync : {"yes", "no", "none"}, voss : BOOLEAN]
    /\ sig.at \in {"idle", "lock", "walk", "stat", "begin", "again", "syncing", "task"}
    /\ sig.todo \in BoundedSeq(Host, Cardinality(Host)) /\ conn \subseteq Host \ {Self}
    /\ ended \subseteq Thread /\ hung \in Thread \union {"none"}
    /\ badcnt \in 0..DeadlockCount /\ proc \in {"up", "exited", "killed", "asleep", "down"}
    /\ want \in [Host -> {"ONLINE", "OFFLINE"}] /\ lost \subseteq Host
    /\ stop \in BOOLEAN /\ told \in BOOLEAN /\ term \in BOOLEAN /\ waits \in BOOLEAN
    /\ deeds \in 0..MaxDeed

(* csinfo and cfg_iplist tell the same: a server with a row in a directory *)
(* is in the table and has the directory among its own, if there was room; *)
(* a server with a directory has a row there, if the row did not go with a *)
(* directory that began again, for which it takes MaxCell servers that     *)
(* have the directory or have no room; an archive row makes an archive,    *)
(* and a server is on the list of the archives it belongs to.  Callers ask *)
(* csinfo for candidates and the table for their state (get_cs_info,       *)
(* get_ip_info).                                                           *)
Full(h) == Len(table[h].dirs) = MaxDir
Owners(d) == {h \in DOMAIN table : Contains(table[h].dirs, d)}
MayHaveHadRow(d) == Owners(d) \union {h \in DOMAIN table : Full(h)}
RowIsKnown(d, i) ==
    LET row == csinfo[d][i] IN
    /\ row.ip \in DOMAIN table
    /\ Contains(table[row.ip].dirs, d) \/ Full(row.ip)
    /\ row.arch # "FCS" => table[row.ip].archive

HasRow(d, h) == \E i \in DOMAIN csinfo[d] : csinfo[d][i].ip = h

TablesAgree ==
    ~CfgWritten =>
       /\ \A d \in CsDir : \A i \in DOMAIN csinfo[d] : RowIsKnown(d, i)
       /\ \A d \in CsDir : \A h \in Owners(d) :
             HasRow(d, h) \/ Cardinality(MayHaveHadRow(d)) >= MaxCell
       /\ \A h \in DOMAIN table :
             table[h].role = "CS" =>
                table[h].list = (IF table[h].arch = "FCS" THEN NoIsp ELSE table[h].arch)

(* The signalling thread never stands on an entry that a reload has taken  *)
(* out of the table: it would walk on in the list of free entries.         *)
WalkIsSafe == sig.at = "walk" => ToSet(sig.todo) \subseteq DOMAIN table

(* The tables are fit for the threads that use them while they are rebuilt *)
(* by another.                                                             *)
TablesSound == ConfigTypeOK /\ TablesAgree /\ WalkIsSafe

Settled == proc = "up" /\ main.at \in {"top", "loop"} /\ ~stop

(* When the operator has finished, the flags come to be what was asked     *)
(* last, whatever reloads and commands did to each other: a flag set in    *)
(* the old table, or not set for want of a lock, is set by the next        *)
(* reload.  Only what was not written to offlinehome, or was lost with it, *)
(* is excepted.                                                            *)
FlagsFollow ==
    \A h \in DOMAIN table \ lost : table[h].offline = (want[h] = "OFFLINE")

(* The server's own state follows: it is OFF_LINE if and only if it was    *)
(* told so or is no longer listed, although the signalling thread, a sync  *)
(* command and a reload may each overwrite it.                             *)
SelfFollows ==
    Self \notin lost =>
       (self_stat = "OFF_LINE" <=> want[Self] = "OFFLINE" \/ Self \notin DOMAIN table)

(* The operator's last word on a server, this one or another, stands.      *)
OperatorIsFollowed == <>[](Settled => FlagsFollow /\ SelfFollows)

(* A server that stays OFF_LINE walks on, and in the end no walk of it     *)
(* leaves a connection with a server of its group, an FCS or a tracker:    *)
(* those that were never told go on connecting to it, and each time its    *)
(* next walk closes what they made.                                        *)
WalkDone == sig.at = "walk" /\ sig.todo = <<>>

(* A process whose watchdog is told to end does end and is not replaced,   *)
(* also if a thread hangs or the write lock is never given back; if the    *)
(* watchdog was in wait(), or the process already dead.  A signal that     *)
(* comes between two calls of wait() is not passed on, and one that comes  *)
(* in the second before execv is lost: `restart' is looked at before it.   *)
Ending == term /\ (proc \in {"killed", "exited"} \/ (proc = "up" /\ stop))
TermEnds ==
    /\ [][Ending => Ending' \/ proc' = "down"]_configVars
    /\ []<>~Ending

(* A process that is to end, for a signal or for lists that cannot be      *)
(* read, or one of whose threads hangs, does not stay.                     *)
StopEnds == []<>(proc # "up" \/ (~stop /\ hung = "none"))

(* Nothing keeps a server up that has to go down.                          *)
GoesDown == TermEnds /\ StopEnds
=============================================================================
