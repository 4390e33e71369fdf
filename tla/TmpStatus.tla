----------------------------- MODULE TmpStatus -----------------------------
(***************************************************************************)
(* The status file of network/vfs_tmp_status.c: one fixed-length record    *)
(* per unfinished task, written when the task is created, blanked when it  *)
(* ends, read back when the process restarts.                              *)
(*                                                                         *)
(* A file is a function from offsets to cells; a cell holds the task it    *)
(* belongs to, or Blank.  A record is RecLen cells (sizeof(t_vfs_tasklist) *)
(* = 1016 bytes on x86-64), of which one, NameCell, starts the file name.  *)
(* The size of the file is computed in units of NodeLen cells, the size of *)
(* t_tmp_status (24 bytes), which does not divide a record.                *)
(***************************************************************************)
EXTENDS Integers, SequencesExt

CONSTANTS
    Name,      \* the tasks, each submitted once
    Blank,     \* a zero byte
    Items,     \* DEFAULT_ITEMS, the records of a new file
    RecLen,    \* sizeof(t_vfs_tasklist), in cells
    NodeLen,   \* sizeof(t_tmp_status), in cells
    NameCell,  \* offset of task.base.filename in a record
    BigIsp,    \* self_ipinfo.isp is TEL or CNC
    MaxCrash   \* bound on restarts

ASSUME FileAssumption ==
    /\ Blank \notin Name
    /\ Items \in Nat \ {0} /\ RecLen \in Nat \ {0} /\ NodeLen \in 1 .. RecLen
    /\ NameCell \in 0 .. RecLen - 1
    /\ BigIsp \in BOOLEAN /\ MaxCrash \in Nat

VARIABLES
    disk,       \* vfs_tmp_status, open as tmp_status_fd
    copy,       \* vfs_tmp_status.tmp, read by init_load_tmp_status
    idle,       \* idletmp: offsets of the free slots, head first
    live,       \* the tasks in memory, each with its slot (task.user->pos)
    phase,      \* "run", or "load" in init_load_tmp_status
    index,      \* its loop counter
    submitted,  \* history: tasks that have been created
    finished,   \* history: tasks that have ended
    present,    \* history: records left in the copy, the file being there
    crashes

fileVars == <<disk, copy, idle, live, phase, index, submitted, finished, present, crashes>>

Size(f) == Cardinality(DOMAIN f)

(* lseek and write of one record; a write past the end leaves a hole of    *)
(* zeros.                                                                  *)
Write(f, pos, v) ==
    [c \in 0 .. Max({Size(f), pos + RecLen}) - 1 |->
        IF c >= pos /\ c < pos + RecLen THEN v
        ELSE IF c < Size(f) THEN f[c] ELSE Blank]

(* strlen(filename) == 0.  Seeded fault: the test is left out.             *)
NeverBlank(v) == FALSE
IsBlank(v) == v = Blank

(* list_del_init of the idle slot taken.  Seeded fault: it stays.          *)
StillIdle == idle
IdleRest == Tail(idle)

(* set_task_to_tmp: the first idle slot, or else a new one at the end of   *)
(* the file.                                                               *)
SetTaskToTmp(t) ==
    LET pos == IF idle # <<>> THEN Head(idle) ELSE Size(disk)
    IN  /\ disk' = Write(disk, pos, t)
        /\ idle' = IF idle # <<>> THEN IdleRest ELSE idle
        /\ live' = live \union {[name |-> t, pos |-> pos]}

(* set_tmp_blank: zeros on disk, the slot is the next to be used.  Seeded  *)
(* fault: the zeros are not written.                                       *)
SetTmpIdle(pos) ==
    /\ idle' = <<pos>> \o idle
    /\ UNCHANGED disk
SetTmpBlank(pos) ==
    /\ disk' = Write(disk, pos, Blank)
    /\ idle' = <<pos>> \o idle

(* The first start: a blank file, every slot idle, the last one on top.    *)
FileInit ==
    /\ disk = [c \in 0 .. Items * RecLen - 1 |-> Blank]
    /\ copy = disk
    /\ idle = [j \in 1 .. Items |-> (Items - j) * RecLen]
    /\ live = {}
    /\ phase = "run"
    /\ index = 0
    /\ submitted = {}
    /\ finished = {}
    /\ present = {}
    /\ crashes = 0

----------------------------------------------------------------------------
(* A task is created and gets a slot.                                      *)
Submit(t) ==
    /\ phase = "run" /\ t \notin submitted
    /\ SetTaskToTmp(t)
    /\ submitted' = submitted \union {t}
    /\ UNCHANGED <<copy, phase, index, finished, present, crashes>>

(* A task ends; its owner blanks the slot task.user points to.             *)
Finish(m) ==
    /\ phase = "run" /\ m \in live
    /\ SetTmpBlank(m.pos)
    /\ live' = live \ {m}
    /\ finished' = finished \union {m.name}
    /\ UNCHANGED <<copy, phase, index, submitted, present, crashes>>

(* The process dies, at any moment, and is started again.  The copy to     *)
(* read from is cut to init_size * sizeof(t_tmp_status).                   *)
InitSize == Max({Size(disk) \div NodeLen, Items})
Truncated(f, n) == [c \in 0 .. n - 1 |-> IF c < Size(f) THEN f[c] ELSE Blank]
Crash ==
    /\ crashes < MaxCrash
    /\ crashes' = crashes + 1
    /\ copy' = Truncated(disk, InitSize * NodeLen)
    /\ idle' = <<>>
    /\ live' = {}
    /\ phase' = "load"
    /\ index' = 0
    /\ UNCHANGED <<disk, submitted, finished, present>>

----------------------------------------------------------------------------
(* init_load_tmp_status                                                    *)

(* read() returns a whole record.                                          *)
HasRecord == index * RecLen + RecLen =< Size(copy)
Record == copy[index * RecLen + NameCell]

(* A blank record, or one that is not to be restored: an ISP that is not a *)
(* big one, or a file that is already there (check_localfile_md5).  Only   *)
(* the old file is blanked.                                                *)
LoadIdle ==
    /\ phase = "load" /\ HasRecord
    /\ IsBlank(Record) \/ ~BigIsp \/ Record \in finished
    /\ SetTmpBlank(index * RecLen)
    /\ index' = index + 1
    /\ present' = present \union ({Record} \intersect finished)
    /\ UNCHANGED <<copy, live, phase, submitted, finished, crashes>>

(* The record stays where it was read, in the copy.  Seeded fault: it is   *)
(* blanked there, the new one being in the old file.                       *)
CopyBlanked == Write(copy, index * RecLen, Blank)
CopyKept == copy

(* add_tmp_to_task: a task in memory, with another slot of the old file.   *)
LoadTask ==
    /\ phase = "load" /\ HasRecord
    /\ ~IsBlank(Record) /\ BigIsp
    /\ SetTaskToTmp(Record)
    /\ copy' = CopyKept
    /\ index' = index + 1
    /\ UNCHANGED <<phase, submitted, finished, present, crashes>>

(* rename: the copy takes the old file's place.                            *)
LoadEnd ==
    /\ phase = "load" /\ ~HasRecord
    /\ disk' = copy
    /\ phase' = "run"
    /\ UNCHANGED <<copy, idle, live, index, submitted, finished, present, crashes>>

FileNext ==
    \/ \E t \in Name : Submit(t)
    \/ \E m \in live : Finish(m)
    \/ Crash \/ LoadIdle \/ LoadTask \/ LoadEnd

FileSpec == FileInit /\ [][FileNext]_fileVars

----------------------------------------------------------------------------
(* Properties                                                              *)

(* Files are contiguous, tasks in memory are tasks that were submitted.    *)
FileTypeOK ==
    /\ \A f \in {disk, copy} :
        DOMAIN f = 0 .. Size(f) - 1 /\ \A c \in DOMAIN f : f[c] \in Name \union {Blank}
    /\ idle \in Seq(Nat)
    /\ live \subseteq [name : submitted, pos : Nat]
    /\ finished \subseteq submitted /\ submitted \subseteq Name
    /\ present \subseteq finished
    /\ phase \in {"run", "load"} /\ index \in Nat /\ crashes \in 0 .. MaxCrash

Apart(p, q) == p + RecLen =< q \/ q + RecLen =< p

(* Slots are not shared: two tasks have different slots, an idle slot is   *)
(* no task's and is idle once.  A shared slot is blanked by whichever task *)
(* ends first.                                                             *)
SlotsApart ==
    /\ \A m, n \in live : m # n => Apart(m.pos, n.pos)
    /\ \A m \in live, j \in DOMAIN idle : Apart(m.pos, idle[j])
    /\ \A j, k \in DOMAIN idle : j # k => Apart(idle[j], idle[k])

(* Whatever restarts there were, a task in memory has a record on disk,    *)
(* though after a restart it is not in the slot the task knows.            *)
LiveIsOnDisk ==
    \A m \in live : \E j \in 0 .. Size(disk) \div RecLen :
        LET c == j * RecLen + NameCell IN c \in DOMAIN disk /\ disk[c] = m.name

(* An idle slot holds zeros: what is taken from it next cannot bring back  *)
(* a task that has ended.  The exception is a task whose file a restart    *)
(* found in place.                                                          *)
IdleIsBlank ==
    phase = "run" /\ BigIsp => \A j \in DOMAIN idle : LET c == idle[j] + NameCell IN
        c \in DOMAIN disk => disk[c] \in {Blank} \union present

(* The slots in memory can be used: vfs_tmp_status.c blanks and takes them *)
(* without looking.                                                        *)
SlotsSound == FileTypeOK /\ SlotsApart /\ IdleIsBlank
=============================================================================
