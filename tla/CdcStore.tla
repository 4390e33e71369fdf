------------------------------ MODULE CdcStore ------------------------------
(***************************************************************************)
(* How the CDC keeps what the servers report.  The daemon (cdc/src/cdc.c,  *)
(* cdc_sub.c, fp.c) reads the logs that arrive in indir into the table in  *)
(* shared memory, links each to outdir for the loaders, moves it to        *)
(* workdir, and now and then saves the table and empties workdir: a table  *)
(* lost with the machine is the newest save and the logs of workdir.  Two  *)
(* loaders (cdc_db.c, cdc_db_sub.c), one for the logs of the day and one   *)
(* for older ones, put the lines of the logs of outdir into MySQL.         *)
(* cdctool takes servers out of the table.                                 *)
(*                                                                         *)
(* One file is followed and a log has one line about it; the hash table is *)
(* CdcHash.                                                                *)
(***************************************************************************)
EXTENDS Naturals, FiniteSets, FiniteSetsExt

CONSTANTS
    Host, NoHost,  \* servers; ip 0
    Log,           \* log files
    Others,        \* slots a file may have had all along, taken by other servers
    HostOf,        \* HostOf[l]: the server that wrote l
    TimeOf,        \* TimeOf[l]: when the server had the file (rec[7]), 1 ..
    SourceOf,      \* SourceOf[l]: when its source last changed (rec[9]), 0 if the line does not say
    StatusOf,      \* StatusOf[l]: CDC_F_OK or CDC_F_UNKNOWN
    DayOf,         \* DayOf[l]: the day in its name
    MaxIp,         \* MAX_IP_IN_DIR: slots of the entry of a file
    MaxDay,        \* bound on the days
    MaxCrash,      \* bound on the kills and reboots
    MaxClean       \* bound on the runs of cdctool

ASSUME StoreAssumption ==
    /\ NoHost \notin Host /\ HostOf \in [Log -> Host]
    /\ Others \in [1 .. MaxIp -> [ip : Host, mtime : Nat, st : {"OK", "UNKNOWN"}]]
    /\ \A i, j \in 1 .. MaxIp : i # j => Others[i].ip # Others[j].ip
    /\ \A i \in 1 .. MaxIp, l \in Log : Others[i].ip # HostOf[l]
    /\ TimeOf \in [Log -> Nat \ {0}] /\ SourceOf \in [Log -> Nat]
    /\ DayOf \in [Log -> 1 .. MaxDay]
    /\ StatusOf \in [Log -> {"OK", "UNKNOWN"}]
    /\ MaxIp \in Nat \ {0} /\ MaxDay \in Nat /\ MaxCrash \in Nat /\ MaxClean \in Nat

VARIABLES
    indir, workdir, outdir, bkdir, \* logs by directory
    shm,      \* the shared memory exists
    entry,    \* the entry of the file in it
    save,     \* the newest save: none, or an entry
    d,        \* the daemon
    loader,   \* loader["cur"], loader["old"]
    rows,     \* rows[l]: rows MySQL has of the line of l
    today,
    crashes,  \* kills of a process; a restart of the machine counts for two
    cut,      \* history: a table was left half restored
    cleaned   \* history: runs of cdctool that took a server out

vars == <<indir, workdir, bkdir, outdir, shm, entry, save, d, loader, rows, today,
          crashes, cut, cleaned>>
dirs == <<indir, workdir, outdir>>
db == <<loader, rows, bkdir>>
env == <<today, crashes, cut, cleaned>>

Slot == 1 .. MaxIp
Free == [ip |-> NoHost, mtime |-> 0, st |-> "UNKNOWN"]
Blank == [fctime |-> 0, slot |-> [i \in Slot |-> Free]]
NoSave == [fctime |-> 0, slot |-> << >>]
Instance == {"cur", "old"}

Down == [pc |-> "down", mode |-> "real", todo |-> {}, log |-> {}, at |-> {}]

LoaderIdle == [pc |-> "idle", item |-> {}]

Init ==
    /\ indir = {} /\ workdir = {} /\ bkdir = {} /\ outdir = {}
    /\ \/ shm = FALSE /\ entry = Blank /\ save = NoSave
       \/ shm = TRUE /\ entry = [fctime |-> 0, slot |-> Others] /\ save = entry
    /\ d = Down
    /\ loader = [x \in Instance |-> LoaderIdle]
    /\ rows = [l \in Log |-> 0]
    /\ today = 1
    /\ crashes = 0 /\ cut = FALSE /\ cleaned = 0

Cur == CHOOSE l \in d.log : TRUE
Consumed == (workdir \union bkdir \union outdir) \ indir
Arrived == indir \union Consumed
----------------------------------------------------------------------------
(* The daemon comes up                                                     *)

\* init_shm: attach to the memory if it is there, and then nothing is restored
\* or replayed; else the newest save; else an empty table.
Start ==
    /\ d.pc = "down" /\ shm' = TRUE
    /\ d' = IF shm THEN [Down EXCEPT !.pc = "pass"]
            ELSE IF save = NoSave
                 THEN [Down EXCEPT !.pc = "pick", !.mode = "plus", !.todo = workdir]
                 ELSE [Down EXCEPT !.pc = "restore"]
    /\ entry' = IF shm THEN entry ELSE Blank
    /\ UNCHANGED <<dirs, save, db, env>>

\* cdc_restore_data, read in parts; then cdc_sub(CDC_PLUS) over workdir.
Restore ==
    /\ d.pc = "restore" /\ entry' = save
    /\ d' = [Down EXCEPT !.pc = "pick", !.mode = "plus", !.todo = workdir]
    /\ UNCHANGED <<dirs, shm, save, db, env>>

\* The daemon is killed: the memory stays.  The machine restarts: it does not.
Kill ==
    /\ crashes < MaxCrash /\ crashes' = crashes + 1
    /\ d.pc # "down" /\ d' = Down
    /\ cut' = \/ cut
              \/ d.pc = "restore"
              \/ d.mode = "plus" /\ d.todo \union d.log # {}
    /\ UNCHANGED <<dirs, shm, entry, save, db, today, cleaned>>

Reboot ==
    /\ crashes < MaxCrash /\ crashes' = crashes + 2
    /\ d' = Down /\ shm' = FALSE /\ entry' = Blank
    /\ loader' = [x \in Instance |-> LoaderIdle]
    /\ UNCHANGED <<dirs, save, rows, bkdir, today, cut, cleaned>>

----------------------------------------------------------------------------
(* cdc_sub                                                                 *)

\* A turn of main's loop: cdc_sub reads what indir has.
Pass ==
    /\ d.pc = "pass" /\ indir # {}
    /\ d' = [d EXCEPT !.pc = "pick", !.todo = indir]
    /\ UNCHANGED <<dirs, shm, entry, save, db, env>>

\* The next log, in the order of readdir; at the end either the table is due to
\* be saved or it is not.
Pick ==
    /\ d.pc = "pick"
    /\ \/ \E l \in d.todo : d' = [d EXCEPT !.pc = "claim", !.log = {l}, !.todo = @ \ {l}]
       \/ /\ d.todo = {}
          /\ d' \in {[Down EXCEPT !.pc = "pass"], [Down EXCEPT !.pc = "save"]}
    /\ UNCHANGED <<dirs, shm, entry, save, db, env>>

\* process_line_fcs keeps the time (and the sum and the mtime) of the source if
\* the line has one that is not older than the entry's; process_line
\* takes the first slot that is the server's or free, or if there is none leaves
\* the table alone (the copy of such a line that goes to the loaders a second time,
\* in a hot file, is left out).  Seeded faults: the source of the last line read is
\* kept; the first free slot is taken.
SourceOfLast(old) == IF SourceOf[Cur] = 0 THEN old ELSE SourceOf[Cur]
NewerSource(old) == IF SourceOf[Cur] > 0 /\ old =< SourceOf[Cur] THEN SourceOf[Cur] ELSE old
FirstFree(h) ==
    LET fit == {i \in Slot : entry.slot[i].ip = NoHost} IN
    IF fit = {} THEN {} ELSE {Min(fit)}
SlotFor(h) ==
    LET fit == {i \in Slot : entry.slot[i].ip \in {h, NoHost}} IN
    IF fit = {} THEN {} ELSE {Min(fit)}

Claim ==
    /\ d.pc = "claim"
    /\ LET at == SlotFor(HostOf[Cur]) IN
       /\ d' = [d EXCEPT !.pc = IF at = {} THEN "link" ELSE "fill", !.at = at]
       /\ entry' = [entry EXCEPT
                !.fctime = NewerSource(@),
                !.slot = [i \in Slot |->
                        IF i \in at /\ @[i].ip = NoHost
                        THEN [ip |-> HostOf[Cur], mtime |-> 0, st |-> @[i].st] ELSE @[i]]]
    /\ UNCHANGED <<dirs, shm, save, db, env>>

\* The status and the time, unless the slot has a later one.  Seeded fault: the
\* last log read wins.
Always(new, old) == TRUE
IsNews(new, old) == new >= old
Fill ==
    /\ d.pc = "fill" /\ d' = [d EXCEPT !.pc = "link", !.at = {}]
    /\ entry' = [entry EXCEPT !.slot = [i \in Slot |->
                    IF i \in d.at /\ IsNews(TimeOf[Cur], @[i].mtime)
                    THEN [@[i] EXCEPT !.mtime = TimeOf[Cur], !.st = StatusOf[Cur]] ELSE @[i]]]
    /\ UNCHANGED <<dirs, shm, save, db, env>>

\* link_fcs_cs_file links a log of indir to outdir; a link that is there stays.
Link ==
    /\ d.pc = "link" /\ d.mode = "real" /\ d' = [d EXCEPT !.pc = "rename"]
    /\ outdir' = outdir \union d.log
    /\ UNCHANGED <<indir, workdir, shm, entry, save, db, env>>

Replayed ==
    /\ d.pc = "link" /\ d.mode = "plus" /\ d' = [d EXCEPT !.pc = "pick", !.log = {}]
    /\ UNCHANGED <<dirs, shm, entry, save, db, env>>

\* Seeded fault: the log stays in indir as well.
Stays == indir
Gone == indir \ d.log
Rename ==
    /\ d.pc = "rename" /\ d' = [d EXCEPT !.pc = "pick", !.log = {}]
    /\ indir' = Gone /\ workdir' = workdir \union d.log
    /\ UNCHANGED <<outdir, shm, entry, save, db, env>>

----------------------------------------------------------------------------
(* do_sync_2_disk                                                          *)

\* The table is written under a temporary name and renamed; then the logs it
\* covers are unlinked one by one (clear_plus).  Seeded fault: they go before it is written.
Write ==
    /\ d.pc = "save" /\ save' = entry /\ d' = [d EXCEPT !.pc = "clear"]
    /\ UNCHANGED <<dirs, shm, entry, db, env>>

ClearFirst == {"save", "clear"}
ClearWhen == {"clear"}
ClearPlus ==
    /\ d.pc \in ClearWhen
    /\ \/ \E l \in workdir : workdir' = workdir \ {l} /\ UNCHANGED d
       \/ d.pc = "clear" /\ workdir = {} /\ d' = [Down EXCEPT !.pc = "pass"] /\ UNCHANGED workdir
    /\ UNCHANGED <<indir, outdir, shm, entry, save, db, env>>

----------------------------------------------------------------------------
(* The loaders                                                             *)

\* do_refresh_run_task: process_curday chooses the logs of today or the others; the
\* line of one is inserted (mydb_update_voss).  A missing table is made and the line
\* inserted again; any other refusal loses the line.  Seeded fault: the
\* older ones are nobody's.
OnlyToday(x, l) == DayOf[l] = today /\ x = "cur"
Mine(x, l) == (DayOf[l] = today) = (x = "cur")
Load(x) ==
    /\ loader[x].pc = "idle"
    /\ \E l \in outdir :
        /\ Mine(x, l) /\ loader' = [loader EXCEPT ![x] = [pc |-> "bk", item |-> {l}]]
        /\ \/ rows' = [rows EXCEPT ![l] = @ + 1]
           \/ UNCHANGED rows
    /\ UNCHANGED <<dirs, shm, entry, save, d, bkdir, env>>

\* do_bk_file.  Seeded fault: the file is copied.
Copied(x) == outdir
Moved(x) == outdir \ loader[x].item
Backup(x) ==
    /\ loader[x].pc = "bk" /\ loader' = [loader EXCEPT ![x] = LoaderIdle]
    /\ outdir' = Moved(x) /\ bkdir' = bkdir \union loader[x].item
    /\ UNCHANGED <<indir, workdir, shm, entry, save, d, rows, env>>

\* Killed, and started again sooner or later.
KillLoader(x) ==
    /\ crashes < MaxCrash /\ crashes' = crashes + 1
    /\ loader[x].pc # "idle" /\ loader' = [loader EXCEPT ![x] = LoaderIdle]
    /\ UNCHANGED <<dirs, shm, entry, save, d, rows, bkdir, today, cut, cleaned>>

----------------------------------------------------------------------------
(* The world                                                               *)

\* A server's log arrives, on its day or later.
Arrive(l) ==
    /\ l \notin Arrived /\ DayOf[l] =< today
    /\ indir' = indir \union {l}
    /\ UNCHANGED <<workdir, outdir, shm, entry, save, d, db, env>>

Midnight ==
    /\ today < MaxDay /\ today' = today + 1
    /\ UNCHANGED <<dirs, shm, entry, save, d, db, crashes, cut, cleaned>>

\* cdctool takes a server out (do_sub_clean): every slot of its, up to the first
\* free one.
CleanIp(h) ==
    /\ shm /\ cleaned < MaxClean /\ cleaned' = cleaned + 1
    /\ entry' = [entry EXCEPT !.slot = [i \in Slot |->
                    IF @[i].ip = h /\ \A j \in 1 .. i : @[j].ip # NoHost
                    THEN [@[i] EXCEPT !.ip = NoHost] ELSE @[i]]]
    /\ UNCHANGED <<dirs, shm, save, d, db, today, crashes, cut>>

----------------------------------------------------------------------------
Daemon ==
    \/ Restore \/ Pass \/ Pick \/ Claim \/ Fill \/ Link \/ Rename \/ Replayed
    \/ Write \/ ClearPlus
Loader(x) == Load(x) \/ Backup(x)

Next ==
    \/ Daemon
    \/ \E x \in Instance : Loader(x) \/ KillLoader(x)
    \/ Start \/ Kill \/ Reboot
    \/ \E l \in Log : Arrive(l)
    \/ \E h \in Host : CleanIp(h)
    \/ Midnight

\* The daemon and the loaders are loops that sleep a few seconds; that somebody
\* starts the daemon again is not assumed.
Fairness == WF_vars(Daemon) /\ \A x \in Instance : WF_vars(Loader(x))

Spec == Init /\ [][Next]_vars /\ Fairness

----------------------------------------------------------------------------
(* Properties                                                              *)

EntryOK(e) ==
    e \in [fctime : Nat,
           slot : [Slot -> [ip : Host \union {NoHost}, mtime : Nat, st : {"OK", "UNKNOWN"}]]]

\* Types, and that a log is in indir or among those to replay, never in both: what
\* rename(2) and not link(2) gives.
TypeOK ==
    /\ indir \union workdir \union bkdir \subseteq Log /\ outdir \subseteq Log
    /\ indir \intersect workdir = {}
    /\ EntryOK(entry) /\ (save = NoSave \/ EntryOK(save))
    /\ d.todo \subseteq Log /\ d.log \subseteq Log /\ d.at \subseteq Slot
    /\ rows \in [Log -> Nat]

\* While the daemon serves, the table has the newest report of every server among
\* all logs read since the beginning, in whatever order they were read and however
\* often the daemon was killed or the machine restarted; only a server that found
\* every slot taken by others is not in the table.  The source is the newest any of
\* the logs told of, by its own clock, whatever slots there are.  It is not said of a
\* table that was half restored (a daemon was killed while it was restoring, and
\* the next took the half for the whole), nor once cdctool has taken a server out.
Newest(h) ==
    LET of == {l \in Consumed : HostOf[l] = h} IN
    of # {} /\ (\E i \in Slot : entry.slot[i].ip \in {h, NoHost}) => \E i \in Slot, l \in Arrived :
                /\ HostOf[l] = h /\ \A m \in of : TimeOf[l] >= TimeOf[m]
                /\ entry.slot[i] = [ip |-> h, mtime |-> TimeOf[l], st |-> StatusOf[l]]
NewestSource ==
    /\ \A l \in Consumed : entry.fctime >= SourceOf[l]
    /\ entry.fctime \in {0} \union {SourceOf[l] : l \in Arrived}
NewestWins ==
    d.pc \notin {"down", "restore"} /\ d.mode = "real" /\ ~cut /\ cleaned = 0
        => NewestSource /\ \A h \in {HostOf[l] : l \in Log} : Newest(h)

\* A server has one slot of a file, and no slot is free before a taken one: as long
\* as cdctool takes no server out, which leaves holes the daemon then fills.
SlotPerHost ==
    cleaned = 0 => \A i, j \in Slot : i < j =>
        /\ entry.slot[i].ip = NoHost => entry.slot[j].ip = NoHost
        /\ entry.slot[i].ip = entry.slot[j].ip => entry.slot[i].ip = NoHost

\* The entry of a file tells front ends where it is: one slot for a server, with
\* the newest that server reported, and the newest source any server was given.
EntrySound == TypeOK /\ SlotPerHost /\ NewestWins

\* MySQL gets the line of a log once, and at most once more for each crash
\* (between the link and the rename, or before do_bk_file) and for the turn of
\* the day, when each instance finds the log to be of its own day.
RowsBounded ==
    \A l \in Log : rows[l] =< 1 + crashes + IF DayOf[l] < today THEN 1 ELSE 0

\* As long as the daemon runs, a log that arrived is loaded (or refused by MySQL)
\* and put away, whichever day it is of.
EveryLogIsLoaded ==
    <>[](d.pc # "down") => \A l \in Log : l \in indir ~> l \in bkdir
=============================================================================
