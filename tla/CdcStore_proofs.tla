--------------------------- MODULE CdcStore_proofs ---------------------------
(***************************************************************************)
(* Theorems about CdcStore: the table has the newest report of every       *)
(* server, and MySQL gets no line more often than something was killed or  *)
(* a day ended.                                                            *)
(***************************************************************************)
EXTENDS CdcStore, WellFoundedInduction, TLAPS

----------------------------------------------------------------------------
(* The invariants                                                          *)

Reading == {"claim", "fill", "link", "rename"}

(* What the daemon is at, and where the logs it has to do with are.        *)
DaemonInv ==
    /\ d \in [pc : {"down", "restore", "pass", "pick", "save", "clear"} \union Reading,
              mode : {"real", "plus"}, todo : SUBSET Log, log : SUBSET Log, at : SUBSET Slot]
    /\ IF d.pc \in Reading THEN \E l \in Log : d.log = {l} ELSE d.log = {}
    /\ d.pc \notin Reading \union {"pick"} => d.todo = {} /\ d.mode = "real"
    /\ d.pc = "rename" => d.mode = "real"
    /\ d.pc = "fill" => \E i \in Slot : d.at = {i}
    /\ d.todo \intersect d.log = {}
    /\ d.todo \union d.log \subseteq IF d.mode = "real" THEN indir ELSE workdir
    /\ shm \in BOOLEAN /\ (d.pc # "down" => shm)
    /\ d.pc = "restore" => save # NoSave

(* A log read once has a name in outdir, or has been loaded from there.    *)
FilesInv ==
    /\ loader \in [Instance -> [pc : {"idle", "bk"}, item : SUBSET Log]]
    /\ \A x \in Instance : loader[x].item \subseteq outdir \union bkdir
    /\ \A x \in Instance : loader[x].pc = "idle" => loader[x].item = {}
    /\ workdir \subseteq outdir \union bkdir
    /\ d.pc = "rename" => d.log \subseteq outdir \union bkdir
    /\ \A l \in Arrived : DayOf[l] =< today
    /\ today \in Nat /\ crashes \in Nat /\ cleaned \in Nat /\ cut \in BOOLEAN

(* The loads of l to come if nothing is killed and no day ends: one if the *)
(* daemon has still to link it, one if it is linked and the loader whose   *)
(* day it is has not taken it.                                             *)
ToLink(l) == l \in indir \ (IF d.pc = "rename" THEN d.log ELSE {}) \/ l \notin Arrived
ToLoad(l) == l \in outdir /\ \E x \in Instance : Mine(x, l) /\ l \notin loader[x].item
Late(l) == DayOf[l] < today
Weight(p) == IF p THEN 1 ELSE 0
RowsInv ==
    \A l \in Log : rows[l] + Weight(ToLink(l)) + Weight(ToLoad(l)) =< 1 + crashes + Weight(Late(l))

OneSlotEach(e) == \A i, j \in Slot : i < j =>
    /\ e.slot[i].ip = NoHost => e.slot[j].ip = NoHost
    /\ e.slot[i].ip = e.slot[j].ip => e.slot[i].ip = NoHost
SlotInv == cleaned = 0 => OneSlotEach(entry) /\ (save # NoSave => OneSlotEach(save))

(* What e says of a server that logged, some log said, and so with what it *)
(* says of the source.                                                     *)
Said == {SourceOf[l] : l \in Arrived}
Reported(e) ==
    /\ \A i \in Slot :
        \/ e.slot[i].mtime = 0
        \/ \A l \in Log : HostOf[l] # e.slot[i].ip
        \/ \E l \in Arrived :
            e.slot[i].ip = HostOf[l] /\ e.slot[i].mtime = TimeOf[l] /\ e.slot[i].st = StatusOf[l]
    /\ e.fctime \in {0} \union Said

(* e knows what l said, or something later, or has no room for its server. *)
Has(e, l) ==
    /\ e # NoSave
    /\ e.fctime >= SourceOf[l]
    /\ (\E i \in Slot : e.slot[i].ip \in {HostOf[l], NoHost})
        => \E i \in Slot : e.slot[i].ip = HostOf[l] /\ e.slot[i].mtime >= TimeOf[l]

ToReplay == IF d.mode = "plus" THEN d.todo \union d.log ELSE {}

(* The log being read.                                                     *)
CurInv ==
    /\ d.pc = "fill" => \A l \in d.log, i \in d.at :
            entry.fctime >= SourceOf[l] /\ entry.slot[i].ip = HostOf[l]
    /\ d.pc \in {"link", "rename"} => \A l \in d.log : Has(entry, l)

ReportedInv == Reported(entry) /\ (save # NoSave => Reported(save))

(* The save and workdir have between them what was read, the table has it  *)
(* but for what is still to be read again.                                 *)
SaveInv ==
    /\ \A l \in Consumed \ workdir : Has(save, l)
    /\ d.pc = "clear" => \A l \in Consumed : Has(save, l)
EntryInv == shm /\ d.pc # "restore" => \A l \in Consumed \ ToReplay : Has(entry, l)

TableInv == ~cut /\ cleaned = 0 => ReportedInv /\ CurInv /\ SaveInv /\ EntryInv

----------------------------------------------------------------------------
(* The operators                                                           *)

LEMMA EntryIsSome == ASSUME NEW e, EntryOK(e) PROVE e # NoSave
  <1>1. 1 \in Slot
    BY StoreAssumption DEF Slot
  <1>2. DOMAIN e.slot = Slot /\ DOMAIN NoSave.slot = {}
    BY DEF EntryOK, NoSave
  <1> QED BY <1>1, <1>2

LEMMA CurIs == ASSUME NEW l, d.log = {l} PROVE Cur = l
  BY DEF Cur

LEMMA MinIs ==
  ASSUME NEW S, S \subseteq Nat, S # {}
  PROVE  Min(S) \in S /\ \A y \in S : Min(S) =< y
  <1>1. \E x \in S : \A y \in S : ~ (<<y, x>> \in OpToRel(<, Nat))
    BY WFMin, NatLessThanWellFounded, Zenon
  <1>2. \E x \in S : \A y \in S : ~ (y < x)
    BY <1>1, Zenon DEF OpToRel
  <1>3. \E x \in S : \A y \in S : x =< y
    BY <1>2
  <1> QED BY <1>3, Zenon DEF Min

(* The time of the source that is kept.                                    *)
LEMMA NewerSourceIs ==
  ASSUME NEW l \in Log, Cur = l, NEW old \in Nat
  PROVE  /\ NewerSource(old) \in Nat
         /\ NewerSource(old) >= SourceOf[l] /\ NewerSource(old) >= old
         /\ NewerSource(old) \in {old, SourceOf[l]}
  <1>1. SourceOf[l] \in Nat
    BY StoreAssumption
  <1> QED BY <1>1 DEF NewerSource

(* The first slot that the server has or can have.                         *)
LEMMA SlotForIs ==
  ASSUME NEW h, EntryOK(entry)
  PROVE  LET fit == {i \in Slot : entry.slot[i].ip \in {h, NoHost}}
         IN  \/ fit = {} /\ SlotFor(h) = {}
             \/ \E i \in fit : SlotFor(h) = {i} /\ \A j \in fit : i =< j
  <1> DEFINE fit == {i \in Slot : entry.slot[i].ip \in {h, NoHost}}
  <1>1. fit \subseteq Nat
    BY DEF Slot
  <1>2. CASE fit = {}
    BY <1>2 DEF SlotFor
  <1>3. CASE fit # {}
    <2>1. Min(fit) \in fit /\ \A y \in fit : Min(fit) =< y
      BY <1>1, <1>3, MinIs
    <2>2. SlotFor(h) = {Min(fit)}
      BY <1>3 DEF SlotFor
    <2> QED BY <2>1, <2>2
  <1> QED BY <1>2, <1>3

----------------------------------------------------------------------------
(* What the daemon is at                                                   *)

LEMMA NextDaemonInv == TypeOK /\ DaemonInv /\ [Next]_vars => DaemonInv'
  <1> SUFFICES ASSUME TypeOK, DaemonInv, [Next]_vars PROVE DaemonInv'
    OBVIOUS
  <1> USE DEF DaemonInv, Reading
  <1>1. /\ indir \subseteq Log /\ workdir \subseteq Log
        /\ save # NoSave => EntryOK(save)
    BY DEF TypeOK
  <1>2. entry # NoSave
    BY EntryIsSome DEF TypeOK
  <1>3. CASE Start
    BY <1>1, <1>3 DEF Start, Down, dirs, db, env
  <1>4. CASE Restore
    BY <1>1, <1>4 DEF Restore, Down, dirs, db, env
  <1>5. CASE Kill \/ Reboot
    <2>1. /\ d' = Down /\ save' = save /\ shm' \in BOOLEAN
      BY <1>5 DEF Kill, Reboot
    <2> QED BY <2>1 DEF Down
  <1>6. CASE Pass
    BY <1>1, <1>6 DEF Pass, dirs
  <1>7. CASE Pick
    <2>1. UNCHANGED <<indir, workdir, shm, save>> /\ d.pc = "pick" /\ d.log = {}
      BY <1>7 DEF Pick, dirs
    <2>2. ASSUME NEW l \in d.todo,
                 d' = [d EXCEPT !.pc = "claim", !.log = {l}, !.todo = @ \ {l}]
          PROVE  DaemonInv'
      <3>1. l \in Log
        OBVIOUS
      <3> QED BY <2>1, <2>2, <3>1
    <2>3. ASSUME d' \in {[Down EXCEPT !.pc = "pass"], [Down EXCEPT !.pc = "save"]}
          PROVE  DaemonInv'
      BY <2>1, <2>3 DEF Down
    <2> QED BY <1>7, <2>2, <2>3 DEF Pick
  <1>8. CASE Claim
    <2>1. PICK l \in Log : d.log = {l} /\ Cur = l
      BY <1>8, CurIs DEF Claim
    <2>2. SlotFor(HostOf[Cur]) = {} \/ \E i \in Slot : SlotFor(HostOf[Cur]) = {i}
      BY SlotForIs DEF TypeOK
    <2> QED BY <1>8, <2>1, <2>2 DEF Claim, dirs
  <1>9. CASE Fill
    BY <1>9 DEF Fill, dirs
  <1>10. CASE Link \/ Replayed
    BY <1>10 DEF Link, Replayed, dirs
  <1>11. CASE Rename
    BY <1>11 DEF Rename, Gone
  <1>12. CASE Write \/ ClearPlus
    BY <1>2, <1>12 DEF Write, ClearPlus, ClearWhen, Down, dirs, TypeOK
  <1>13. CASE \E x \in Instance : Loader(x) \/ KillLoader(x)
    BY <1>13 DEF Loader, Load, Backup, KillLoader, dirs
  <1>14. CASE \E l \in Log : Arrive(l)
    BY <1>14 DEF Arrive
  <1>15. CASE \E h \in Host : CleanIp(h)
    BY <1>15 DEF CleanIp, dirs
  <1>16. CASE Midnight
    BY <1>16 DEF Midnight, dirs
  <1>17. CASE UNCHANGED vars
    BY <1>17 DEF vars
  <1> QED
    BY <1>3, <1>4, <1>5, <1>6, <1>7, <1>8, <1>9, <1>10, <1>11, <1>12, <1>13, <1>14, <1>15,
       <1>16, <1>17 DEF Next, Daemon

----------------------------------------------------------------------------
(* Types, and the files                                                    *)

Taken == [ip : Host \union {NoHost}, mtime : Nat, st : {"OK", "UNKNOWN"}]

LEMMA NextTypeOK == TypeOK /\ DaemonInv /\ FilesInv /\ [Next]_vars => TypeOK'
  <1> SUFFICES ASSUME TypeOK, DaemonInv, FilesInv, [Next]_vars
               PROVE  /\ indir' \union workdir' \union bkdir' \subseteq Log /\ outdir' \subseteq Log
                      /\ indir' \intersect workdir' = {}
                      /\ EntryOK(entry') /\ (save' = NoSave \/ EntryOK(save'))
                      /\ rows' \in [Log -> Nat]
    BY NextDaemonInv DEF TypeOK, DaemonInv, EntryOK
  <1> USE DEF TypeOK
  <1>1. EntryOK(Blank)
    BY DEF EntryOK, Blank, Free
  <1>2. CASE Start \/ Restore
    <2>1. UNCHANGED <<indir, workdir, outdir, bkdir, save, rows>>
          /\ (entry' \in {entry, Blank} \/ (save # NoSave /\ entry' = save))
      BY <1>2 DEF Start, Restore, DaemonInv, dirs, db
    <2> QED BY <1>1, <2>1
  <1>3. CASE Kill \/ Reboot
    <2>1. UNCHANGED <<indir, workdir, outdir, bkdir, save, rows>> /\ entry' \in {entry, Blank}
      BY <1>3 DEF Kill, Reboot, dirs, db
    <2> QED BY <1>1, <2>1
  <1>4. CASE Pass \/ Pick \/ Midnight \/ Replayed \/ \E x \in Instance : KillLoader(x)
    BY <1>4 DEF Pass, Pick, Midnight, Replayed, KillLoader, dirs, db
  <1>5. CASE Claim
    <2>1. PICK l \in Log : d.log = {l} /\ Cur = l
      BY <1>5, CurIs DEF Claim, DaemonInv, Reading
    <2>2. NewerSource(entry.fctime) \in Nat
      BY <2>1, NewerSourceIs DEF EntryOK
    <2>3. HostOf[l] \in Host
      BY StoreAssumption
    <2>4. DEFINE at == SlotFor(HostOf[l])
    <2>5. entry' = [entry EXCEPT !.fctime = NewerSource(@),
                          !.slot = [i \in Slot |-> IF i \in at /\ @[i].ip = NoHost
                             THEN [ip |-> HostOf[l], mtime |-> 0, st |-> @[i].st] ELSE @[i]]]
      BY <1>5, <2>1 DEF Claim
    <2> HIDE DEF at
    <2>6. EntryOK(entry')
      BY <2>2, <2>3, <2>5 DEF EntryOK
    <2> QED BY <1>5, <2>6 DEF Claim, dirs, db
  <1>6. CASE Fill
    <2>1. PICK l \in Log : d.log = {l} /\ Cur = l
      BY <1>6, CurIs DEF Fill, DaemonInv, Reading
    <2>2. TimeOf[l] \in Nat /\ StatusOf[l] \in {"OK", "UNKNOWN"}
      BY StoreAssumption
    <2>3. entry' = [entry EXCEPT !.slot = [i \in Slot |->
                    IF i \in d.at /\ IsNews(TimeOf[l], @[i].mtime)
                    THEN [@[i] EXCEPT !.mtime = TimeOf[l], !.st = StatusOf[l]] ELSE @[i]]]
      BY <1>6, <2>1 DEF Fill
    <2>4. \A i \in Slot : entry.slot[i] \in Taken /\ [entry.slot[i] EXCEPT !.mtime = TimeOf[l], !.st = StatusOf[l]] \in Taken
      <3>1. ASSUME NEW r \in Taken, NEW t \in Nat, NEW st \in {"OK", "UNKNOWN"}
            PROVE  [r EXCEPT !.mtime = t, !.st = st] \in Taken
        BY DEF Taken
      <3>2. \A i \in Slot : entry.slot[i] \in Taken
        BY DEF EntryOK, Taken
      <3> QED BY <2>2, <3>1, <3>2, Zenon
    <2>5. EntryOK(entry')
      BY <2>3, <2>4 DEF EntryOK, Taken
    <2> QED BY <1>6, <2>5 DEF Fill, dirs, db
  <1>7. CASE Link \/ Rename
    BY <1>7 DEF Link, Rename, Gone, DaemonInv, db
  <1>8. CASE Write \/ ClearPlus
    BY <1>8 DEF Write, ClearPlus, dirs, db
  <1>9. CASE \E x \in Instance : Loader(x)
    <2>1. ASSUME NEW x \in Instance, Load(x)
          PROVE  UNCHANGED <<indir, workdir, outdir, bkdir, save, entry>> /\ rows' \in [Log -> Nat]
      BY <2>1 DEF Load, dirs
    <2>2. ASSUME NEW x \in Instance, Backup(x)
          PROVE  /\ UNCHANGED <<indir, workdir, save, entry, rows>>
                 /\ outdir' \subseteq Log /\ bkdir' \subseteq Log
      BY <2>2 DEF Backup, Moved, FilesInv
    <2> QED BY <1>9, <2>1, <2>2 DEF Loader
  <1>10. CASE \E l \in Log : Arrive(l)
    BY <1>10 DEF Arrive, Arrived, Consumed, db
  <1>11. CASE \E h \in Host : CleanIp(h)
    <2>1. PICK h \in Host : CleanIp(h)
      BY <1>11
    <2>2. \A i \in Slot : entry.slot[i] \in Taken /\ [entry.slot[i] EXCEPT !.ip = NoHost] \in Taken
      BY DEF EntryOK, Taken
    <2>3. entry' = [entry EXCEPT !.slot = [i \in Slot |->
                    IF @[i].ip = h /\ \A j \in 1 .. i : @[j].ip # NoHost
                    THEN [@[i] EXCEPT !.ip = NoHost] ELSE @[i]]]
      BY <2>1 DEF CleanIp
    <2>4. EntryOK(entry')
      BY <2>2, <2>3 DEF EntryOK, Taken
    <2> QED BY <2>1, <2>4 DEF CleanIp, dirs, db
  <1>12. CASE UNCHANGED vars
    BY <1>12 DEF vars
  <1> QED
    BY <1>2, <1>3, <1>4, <1>5, <1>6, <1>7, <1>8, <1>9, <1>10, <1>11, <1>12 DEF Next, Daemon

(* A log that arrived is somewhere for ever.                               *)
LEMMA ArrivedStays ==
  TypeOK /\ DaemonInv /\ FilesInv /\ [Next]_vars =>
      /\ Arrived \subseteq Arrived'
      /\ \A l \in Arrived' \ Arrived : DayOf[l] =< today
  <1> SUFFICES ASSUME TypeOK, DaemonInv, FilesInv, [Next]_vars
               PROVE  /\ Arrived \subseteq Arrived'
                      /\ \A l \in Arrived' \ Arrived : DayOf[l] =< today
    OBVIOUS
  <1> USE DEF Arrived, Consumed
  <1>1. CASE UNCHANGED <<indir, workdir, outdir, bkdir>>
    BY <1>1
  <1>2. CASE Link
    BY <1>2 DEF Link, DaemonInv, db
  <1>3. CASE Rename
    BY <1>3 DEF Rename, Gone, DaemonInv, db
  <1>4. CASE ClearPlus
    BY <1>4 DEF ClearPlus, FilesInv, db
  <1>5. CASE \E x \in Instance : Backup(x)
    BY <1>5 DEF Backup, Moved, FilesInv
  <1>6. CASE \E l \in Log : Arrive(l)
    BY <1>6 DEF Arrive, db
  <1> QED
    BY <1>1, <1>2, <1>3, <1>4, <1>5, <1>6
    DEF Next, Daemon, Start, Restore, Kill, Reboot, Pass, Pick, Claim, Fill, Replayed, Write,
        Loader, Load, KillLoader, CleanIp, Midnight, dirs, db, vars

LEMMA NextFilesInv == TypeOK /\ DaemonInv /\ FilesInv /\ [Next]_vars => FilesInv'
  <1> SUFFICES ASSUME TypeOK, DaemonInv, FilesInv, [Next]_vars PROVE FilesInv'
    OBVIOUS
  <1>1. today' \in Nat /\ crashes' \in Nat /\ cleaned' \in Nat /\ cut' \in BOOLEAN /\ today =< today'
    <2>1. today' \in {today, today + 1} /\ crashes' \in {crashes, crashes + 1, crashes + 2}
          /\ cleaned' \in {cleaned, cleaned + 1}
      BY DEF Next, Daemon, Start, Restore, Kill, Reboot, Pass, Pick, Claim, Fill, Link,
             Rename, Replayed, Write, ClearPlus, Loader, Load, Backup, KillLoader, Arrive, CleanIp,
             Midnight, env, vars
    <2>2. ASSUME Kill PROVE cut' \in BOOLEAN
      BY <2>2, Zenon DEF Kill
    <2>3. ASSUME ~Kill PROVE cut' \in BOOLEAN
      <3>1. UNCHANGED cut
        BY <2>3 DEF Next, Daemon, Start, Restore, Reboot, Pass, Pick, Claim, Fill, Link,
             Rename, Replayed, Write, ClearPlus, Loader, Load, Backup, KillLoader, Arrive, CleanIp,
             Midnight, env, vars
      <3> QED BY <3>1 DEF FilesInv
    <2>4. cut' \in BOOLEAN
      BY <2>2, <2>3
    <2> QED BY <2>1, <2>4 DEF FilesInv
  <1>2. \A l \in Arrived' : DayOf[l] =< today'
    <2>1. \A l \in Arrived' : l \in Log /\ DayOf[l] \in Nat /\ DayOf[l] =< today
      BY NextTypeOK, ArrivedStays, StoreAssumption DEF TypeOK, FilesInv, Arrived, Consumed
    <2> QED BY <1>1, <2>1 DEF FilesInv
  <1>3. SUFFICES /\ loader' \in [Instance -> [pc : {"idle", "bk"}, item : SUBSET Log]]
                 /\ \A x \in Instance : loader'[x].item \subseteq outdir' \union bkdir'
                 /\ \A x \in Instance : loader'[x].pc = "idle" => loader'[x].item = {}
                 /\ workdir' \subseteq outdir' \union bkdir'
                 /\ d'.pc = "rename" => d'.log \subseteq outdir' \union bkdir'
    BY <1>1, <1>2 DEF FilesInv
  <1> USE DEF FilesInv
  <1>4. CASE /\ UNCHANGED <<loader, workdir, outdir, bkdir>>
             /\ d'.pc = "rename" => d.pc = "rename" /\ d'.log = d.log
    BY <1>4
  <1>5. CASE Start \/ Restore \/ Kill \/ Pass \/ Replayed \/ Write \/ Midnight \/ UNCHANGED vars
             \/ (\E l \in Log : Arrive(l)) \/ (\E h \in Host : CleanIp(h)) \/ Pick \/ Claim \/ Fill
    <2>1. d'.pc = "rename" => d.pc = "rename" /\ d'.log = d.log
      <3>1. CASE Start \/ Restore \/ Kill
        <4>1. d' \in {Down, [Down EXCEPT !.pc = "pass"], [Down EXCEPT !.pc = "restore"],
                      [Down EXCEPT !.pc = "pick", !.mode = "plus", !.todo = workdir]}
          BY <3>1, Zenon DEF Start, Restore, Kill
        <4>2. \A p \in {"pass", "restore", "pick"}, m \in {"real", "plus"}, t \in SUBSET Log :
                  /\ [Down EXCEPT !.pc = p].pc = p
                  /\ [Down EXCEPT !.pc = p, !.mode = m, !.todo = t].pc = p
          BY DEF Down
        <4>3. Down.pc = "down" /\ workdir \in SUBSET Log
          BY DEF Down, TypeOK
        <4> QED BY <4>1, <4>2, <4>3
      <3>2. CASE Pick
        BY <3>2 DEF Pick, Down, DaemonInv
      <3>3. CASE Pass \/ Claim \/ Fill \/ Replayed \/ Write
        BY <3>3 DEF Pass, Claim, Fill, Replayed, Write, DaemonInv
      <3>4. CASE UNCHANGED d
        BY <3>4
      <3> QED
        BY <1>5, <3>1, <3>2, <3>3, <3>4 DEF Midnight, Arrive, CleanIp, vars
    <2> QED
      BY <1>4, <1>5, <2>1 DEF Start, Restore, Kill, Pass, Replayed, Write, Midnight, Arrive, CleanIp,
                              Pick, Claim, Fill, dirs, db, vars
  <1>6. CASE Reboot \/ \E x \in Instance : KillLoader(x)
    <2>1. UNCHANGED <<workdir, outdir, bkdir>> /\ d' \in {d, Down}
          /\ \E I \in SUBSET Instance :
                loader' = [x \in Instance |-> IF x \in I THEN LoaderIdle ELSE loader[x]]
      <3>1. ASSUME NEW x \in Instance, KillLoader(x)
            PROVE  loader' = [y \in Instance |-> IF y \in {x} THEN LoaderIdle ELSE loader[y]]
        BY <3>1 DEF KillLoader
      <3>2. ASSUME Reboot
            PROVE  loader' = [y \in Instance |-> IF y \in Instance THEN LoaderIdle ELSE loader[y]]
        BY <3>2 DEF Reboot
      <3>3. UNCHANGED <<workdir, outdir, bkdir>> /\ d' \in {d, Down}
        BY <1>6 DEF Reboot, KillLoader, dirs
      <3> QED BY <1>6, <3>1, <3>2, <3>3
    <2> QED BY <2>1 DEF LoaderIdle, Down
  <1>7. CASE Link \/ Rename \/ ClearPlus
    BY <1>7 DEF Link, Rename, ClearPlus, Down, DaemonInv, db
  <1>8. CASE \E x \in Instance : Loader(x)
    <2>1. PICK x \in Instance : Load(x) \/ Backup(x)
      BY <1>8 DEF Loader
    <2>2. CASE Load(x)
      BY <2>2 DEF Load, dirs, TypeOK
    <2>3. CASE Backup(x)
      BY <2>3 DEF Backup, Moved, LoaderIdle
    <2> QED BY <2>1, <2>2, <2>3
  <1> QED BY <1>5, <1>6, <1>7, <1>8 DEF Next, Daemon

----------------------------------------------------------------------------
(* Rows of MySQL                                                           *)

LEMMA NextRowsInv ==
  TypeOK /\ DaemonInv /\ FilesInv /\ RowsInv /\ [Next]_vars => RowsInv'
  <1> SUFFICES ASSUME TypeOK, DaemonInv, FilesInv, RowsInv, [Next]_vars, NEW l \in Log
               PROVE  (rows[l] + Weight(ToLink(l)) + Weight(ToLoad(l))
                          =< 1 + crashes + Weight(Late(l)))'
    BY DEF RowsInv
  <1>1. /\ rows[l] \in Nat /\ crashes \in Nat /\ today \in Nat /\ DayOf[l] \in Nat
        /\ rows[l] + Weight(ToLink(l)) + Weight(ToLoad(l)) =< 1 + crashes + Weight(Late(l))
    BY StoreAssumption DEF TypeOK, FilesInv, RowsInv
  <1>2. ASSUME rows'[l] = rows[l], ToLink(l)' => ToLink(l), ToLoad(l)' => ToLoad(l),
               crashes' = crashes, Late(l)' = Late(l)
        PROVE  (rows[l] + Weight(ToLink(l)) + Weight(ToLoad(l)) =< 1 + crashes + Weight(Late(l)))'
    BY <1>1, <1>2 DEF Weight
  <1>3. CASE UNCHANGED <<rows, crashes, today, loader, outdir>> /\ (ToLink(l)' => ToLink(l))
    <2>1. ToLoad(l)' = ToLoad(l) /\ Late(l)' = Late(l)
      BY <1>3 DEF ToLoad, Late, Mine
    <2> QED BY <1>2, <1>3, <2>1
  <1>4. CASE Start \/ Restore \/ Pass \/ Pick \/ Claim \/ Fill \/ Replayed \/ Write
             \/ (\E h \in Host : CleanIp(h)) \/ UNCHANGED vars
    <2>1. d.pc = "rename" => UNCHANGED d
      BY <1>4 DEF Start, Restore, Pass, Pick, Claim, Fill, Replayed, Write, CleanIp, vars
    <2>2. UNCHANGED <<rows, crashes, today, loader, outdir, indir, workdir, bkdir>>
      BY <1>4 DEF Start, Restore, Pass, Pick, Claim, Fill, Replayed, Write, CleanIp, dirs, db, env, vars
    <2>3. ToLink(l)' => ToLink(l)
      BY <2>1, <2>2 DEF ToLink, Arrived, Consumed, DaemonInv, Reading
    <2> QED BY <1>3, <2>2, <2>3
  <1>5. CASE Link
    <2>1. UNCHANGED <<rows, crashes, today, indir, workdir, bkdir>> /\ d.log \subseteq indir
          /\ d'.pc = "rename" /\ d'.log = d.log /\ d.pc # "rename"
          /\ loader' = loader /\ outdir' = outdir \union d.log
      BY <1>5 DEF Link, DaemonInv, db, env
    <2>2. CASE l \in d.log
      <3>1. ToLink(l) /\ ~ToLink(l)'
        BY <2>1, <2>2 DEF ToLink, Arrived
      <3> QED BY <1>1, <2>1, <3>1 DEF Weight, Late
    <2>3. CASE l \notin d.log
      <3>1. (ToLink(l)' => ToLink(l)) /\ (ToLoad(l)' => ToLoad(l)) /\ Late(l)' = Late(l)
        BY <2>1, <2>3 DEF ToLink, ToLoad, Arrived, Consumed, Mine, Late
      <3> QED BY <1>2, <2>1, <3>1
    <2> QED BY <2>2, <2>3
  <1>6. CASE Rename
    <2>1. UNCHANGED <<rows, crashes, today, loader, outdir, bkdir>> /\ d.pc = "rename"
          /\ indir' = indir \ d.log /\ workdir' = workdir \union d.log /\ d'.pc = "pick"
      BY <1>6 DEF Rename, Gone, DaemonInv, db, env
    <2>2. ToLink(l)' => ToLink(l)
      BY <2>1 DEF ToLink, Arrived, Consumed
    <2> QED BY <1>3, <2>1, <2>2
  <1>7. CASE ClearPlus
    <2>1. UNCHANGED <<rows, crashes, today, loader, outdir, bkdir, indir>> /\ d.pc = "clear"
          /\ workdir' \subseteq workdir /\ d'.pc # "rename"
      BY <1>7 DEF ClearPlus, ClearWhen, Down, db, env
    <2>2. ToLink(l)' => ToLink(l)
      BY <2>1 DEF ToLink, Arrived, Consumed, FilesInv
    <2> QED BY <1>3, <2>1, <2>2
  <1>8. CASE \E x \in Instance : Load(x)
    <2>1. PICK x \in Instance, m \in outdir :
              /\ loader[x].item = {} /\ Mine(x, m)
              /\ loader' = [loader EXCEPT ![x] = [pc |-> "bk", item |-> {m}]]
              /\ rows' = [rows EXCEPT ![m] = @ + 1] \/ UNCHANGED rows
              /\ UNCHANGED <<crashes, today, outdir, indir, workdir, bkdir, d>>
      BY <1>8 DEF Load, FilesInv, dirs, env
    <2>2. /\ loader \in [Instance -> [pc : {"idle", "bk"}, item : SUBSET Log]]
          /\ \A y \in Instance : loader'[y].item = IF y = x THEN {m} ELSE loader[y].item
      BY <2>1 DEF FilesInv
    <2>3. ToLink(l)' = ToLink(l) /\ Late(l)' = Late(l) /\ crashes' = crashes
      BY <2>1 DEF ToLink, Late, Arrived, Consumed
    <2>4. \A y, z \in Instance : Mine(y, l) /\ Mine(z, l) => y = z
      BY DEF Mine, Instance
    <2>5. CASE m = l
      <3>1. ToLoad(l) /\ ~ToLoad(l)'
        BY <2>1, <2>2, <2>4, <2>5 DEF ToLoad, Mine
      <3>2. rows'[l] =< rows[l] + 1 /\ rows'[l] \in Nat
        BY <1>1, <2>1, <2>5 DEF TypeOK
      <3> QED BY <1>1, <2>3, <3>1, <3>2 DEF Weight
    <2>6. CASE m # l
      <3>1. ToLoad(l)' => ToLoad(l)
        BY <2>1, <2>2, <2>6 DEF ToLoad, Mine
      <3>2. rows'[l] = rows[l]
        BY <2>1, <2>6 DEF TypeOK
      <3> QED BY <1>2, <2>3, <3>1, <3>2
    <2> QED BY <2>5, <2>6
  <1>9. CASE \E x \in Instance : Backup(x)
    <2>1. PICK x \in Instance : Backup(x)
      BY <1>9
    <2>2. /\ UNCHANGED <<crashes, today, indir, workdir, d, rows>>
          /\ outdir' = outdir \ loader[x].item /\ bkdir' = bkdir \union loader[x].item
          /\ \A y \in Instance : y # x => loader'[y] = loader[y]
      BY <2>1 DEF Backup, Moved, FilesInv, env
    <2>3. (ToLink(l)' => ToLink(l)) /\ Late(l)' = Late(l)
      BY <2>2 DEF ToLink, Late, Arrived, Consumed
    <2>4. ToLoad(l)' => ToLoad(l)
      BY <2>2 DEF ToLoad, Mine
    <2> QED BY <1>2, <2>2, <2>3, <2>4
  <1>10. CASE \E m \in Log : Arrive(m)
    <2>1. PICK m \in Log : Arrive(m)
      BY <1>10
    <2>2. /\ UNCHANGED <<rows, crashes, today, loader, outdir, workdir, bkdir, d>>
          /\ m \notin Arrived /\ indir' = indir \union {m}
      BY <2>1 DEF Arrive, db, env
    <2>3. ToLink(l)' => ToLink(l)
      BY <2>2 DEF ToLink, Arrived, Consumed
    <2> QED BY <1>3, <2>2, <2>3
  <1>11. CASE Midnight
    <2>1. /\ UNCHANGED <<rows, crashes, loader, outdir, indir, workdir, bkdir, d>>
          /\ today' = today + 1
      BY <1>11 DEF Midnight, dirs, db
    <2>2. ToLink(l)' = ToLink(l)
      BY <2>1 DEF ToLink, Arrived, Consumed
    <2>3. CASE DayOf[l] = today
      <3>1. Late(l)' /\ ~Late(l)
        BY <1>1, <2>1, <2>3 DEF Late
      <3> QED BY <1>1, <2>1, <2>2, <3>1 DEF Weight
    <2>4. CASE DayOf[l] # today
      <3>1. Late(l)' = Late(l)
        BY <1>1, <2>1, <2>4 DEF Late
      <3>2. ToLoad(l)' => ToLoad(l)
        <4>1. l \in outdir => DayOf[l] < today
          BY <1>1, <2>4 DEF FilesInv, Arrived, Consumed
        <4>2. l \in outdir => (DayOf[l] = today) = (DayOf[l] = today')
          BY <1>1, <2>1, <4>1
        <4> QED BY <2>1, <4>2 DEF ToLoad, Mine
      <3> QED BY <1>2, <2>1, <2>2, <3>1, <3>2
    <2> QED BY <2>3, <2>4
  <1>12. CASE Kill
    <2>1. /\ UNCHANGED <<rows, today, loader, outdir, indir, workdir, bkdir>>
          /\ crashes' = crashes + 1
      BY <1>12 DEF Kill, dirs, db
    <2>2. ToLoad(l)' = ToLoad(l) /\ Late(l)' = Late(l)
      BY <2>1 DEF ToLoad, Late, Mine
    <2> QED BY <1>1, <2>1, <2>2 DEF Weight
  <1>13. CASE Reboot
    <2>1. /\ UNCHANGED <<rows, today>> /\ crashes' = crashes + 2
      BY <1>13 DEF Reboot
    <2>2. Late(l)' = Late(l)
      BY <2>1 DEF Late
    <2> QED BY <1>1, <2>1, <2>2 DEF Weight
  <1>14. CASE \E x \in Instance : KillLoader(x)
    <2>1. /\ UNCHANGED <<rows, today, indir, workdir, outdir, bkdir, d>> /\ crashes' = crashes + 1
      BY <1>14 DEF KillLoader, dirs
    <2>2. ToLink(l)' = ToLink(l) /\ Late(l)' = Late(l)
      BY <2>1 DEF ToLink, Late, Arrived, Consumed
    <2> QED BY <1>1, <2>1, <2>2 DEF Weight
  <1> QED
    BY <1>4, <1>5, <1>6, <1>7, <1>8, <1>9, <1>10, <1>11, <1>12, <1>13, <1>14
    DEF Next, Daemon, Loader

----------------------------------------------------------------------------
(* The rows are bounded                                                    *)

BaseInv == TypeOK /\ DaemonInv /\ FilesInv

LEMMA InitBaseInv == Init => BaseInv
  <1> SUFFICES ASSUME Init PROVE BaseInv
    OBVIOUS
  <1> USE DEF Init
  <1>1. EntryOK(entry) /\ (save = NoSave \/ EntryOK(save))
    <2>1. EntryOK(Blank)
      BY DEF EntryOK, Blank, Free
    <2>2. EntryOK([fctime |-> 0, slot |-> Others])
      BY StoreAssumption DEF EntryOK, Slot
    <2> QED BY <2>1, <2>2
  <1>2. TypeOK
    BY <1>1 DEF TypeOK, Down
  <1>3. DaemonInv
    BY DEF DaemonInv, Reading, Down
  <1>4. FilesInv
    BY DEF FilesInv, Down, LoaderIdle, Arrived, Consumed
  <1> QED BY <1>2, <1>3, <1>4 DEF BaseInv

LEMMA NextBaseInv == BaseInv /\ [Next]_vars => BaseInv'
  BY NextTypeOK, NextDaemonInv, NextFilesInv DEF BaseInv

(* However often the daemon and the loaders were killed and whatever day   *)
(* it has become, MySQL has the line of a log at most once and once more   *)
(* for each kill and for the end of its day.                               *)
THEOREM RowsAreBounded == Spec => []RowsBounded
  <1>1. Init => BaseInv /\ RowsInv
    <2> SUFFICES ASSUME Init, NEW l \in Log
                 PROVE  rows[l] + Weight(ToLink(l)) + Weight(ToLoad(l)) =< 1 + crashes + Weight(Late(l))
      BY InitBaseInv DEF RowsInv
    <2>1. rows[l] = 0 /\ crashes = 0 /\ ~ToLoad(l)
      BY DEF Init, ToLoad
    <2> QED BY <2>1 DEF Weight
  <1>2. BaseInv /\ RowsInv /\ [Next]_vars => (BaseInv /\ RowsInv)'
    BY NextBaseInv, NextRowsInv DEF BaseInv
  <1>3. BaseInv /\ RowsInv => RowsBounded
    <2> SUFFICES ASSUME BaseInv, RowsInv, NEW l \in Log
                 PROVE  rows[l] =< 1 + crashes + Weight(DayOf[l] < today)
      BY DEF RowsBounded, Weight
    <2>1. rows[l] \in Nat /\ crashes \in Nat
      BY DEF BaseInv, TypeOK, FilesInv
    <2> QED BY <2>1 DEF RowsInv, Weight, Late
  <1> QED BY <1>1, <1>2, <1>3, PTL DEF Spec

----------------------------------------------------------------------------
(* What reading a log does to the entry                                    *)

LEMMA ClaimDoes ==
  ASSUME BaseInv, Claim
  PROVE  \E l \in Log :
            /\ d.log = {l} /\ d'.log = {l}
            /\ entry'.fctime >= SourceOf[l] /\ entry'.fctime >= entry.fctime
            /\ entry'.fctime \in {entry.fctime, SourceOf[l]}
            /\ \/ /\ d'.pc = "link" /\ entry'.slot = entry.slot
                  /\ \A i \in Slot : entry.slot[i].ip \notin {HostOf[l], NoHost}
               \/ \E i \in Slot :
                    /\ d'.pc = "fill" /\ d'.at = {i}
                    /\ entry.slot[i].ip \in {HostOf[l], NoHost}
                    /\ \A j \in Slot : j < i => entry.slot[j].ip \notin {HostOf[l], NoHost}
                    /\ \A j \in Slot : j # i => entry'.slot[j] = entry.slot[j]
                    /\ entry'.slot[i].ip = HostOf[l]
                    /\ entry'.slot[i] = entry.slot[i]
                         \/ (entry.slot[i].ip = NoHost /\ entry'.slot[i].mtime = 0)
  <1> USE DEF BaseInv
  <1>1. PICK l \in Log : d.log = {l} /\ Cur = l
    BY CurIs DEF Claim, DaemonInv, Reading
  <1> DEFINE at == SlotFor(HostOf[l])
  <1>2. /\ d' = [d EXCEPT !.pc = IF at = {} THEN "link" ELSE "fill", !.at = at]
        /\ entry' = [entry EXCEPT !.fctime = NewerSource(@),
                          !.slot = [i \in Slot |-> IF i \in at /\ @[i].ip = NoHost
                             THEN [ip |-> HostOf[l], mtime |-> 0, st |-> @[i].st] ELSE @[i]]]
    BY <1>1 DEF Claim
  <1>3. \/ at = {} /\ \A i \in Slot : entry.slot[i].ip \notin {HostOf[l], NoHost}
        \/ \E i \in Slot : /\ at = {i} /\ entry.slot[i].ip \in {HostOf[l], NoHost}
                           /\ \A j \in Slot : entry.slot[j].ip \in {HostOf[l], NoHost} => i =< j
    BY SlotForIs DEF TypeOK
  <1> HIDE DEF at
  <1>4. /\ EntryOK(entry) /\ TimeOf[l] \in Nat /\ Slot \subseteq Nat
        /\ HostOf[l] \in Host /\ HostOf[l] # NoHost
    BY StoreAssumption DEF TypeOK, Slot
  <1>5. /\ entry'.fctime = NewerSource(entry.fctime)
        /\ entry'.slot = [i \in Slot |-> IF i \in at /\ entry.slot[i].ip = NoHost
                    THEN [ip |-> HostOf[l], mtime |-> 0, st |-> entry.slot[i].st] ELSE entry.slot[i]]
        /\ d'.log = {l} /\ d'.at = at /\ d'.pc = IF at = {} THEN "link" ELSE "fill"
    BY <1>1, <1>2, <1>4 DEF EntryOK, DaemonInv
  <1>6. /\ entry'.fctime >= SourceOf[l] /\ entry'.fctime >= entry.fctime
        /\ entry'.fctime \in {entry.fctime, SourceOf[l]}
    BY <1>1, <1>4, <1>5, NewerSourceIs DEF EntryOK
  <1>7. CASE at = {}
    <2>1. entry'.slot = entry.slot
      BY <1>4, <1>5, <1>7 DEF EntryOK
    <2>2. \A i \in Slot : entry.slot[i].ip \notin {HostOf[l], NoHost}
      BY <1>3, <1>7
    <2> QED BY <1>1, <1>5, <1>6, <1>7, <2>1, <2>2
  <1>8. CASE at # {}
    <2>1. PICK i \in Slot : /\ at = {i} /\ entry.slot[i].ip \in {HostOf[l], NoHost}
                            /\ \A j \in Slot : entry.slot[j].ip \in {HostOf[l], NoHost} => i =< j
      BY <1>3, <1>8
    <2>2. \A j \in Slot : j < i => entry.slot[j].ip \notin {HostOf[l], NoHost}
      BY <1>4, <2>1
    <2>3. \A j \in Slot : j # i => entry'.slot[j] = entry.slot[j]
      BY <1>5, <2>1
    <2>4. /\ entry'.slot[i].ip = HostOf[l]
          /\ entry'.slot[i] = entry.slot[i]
                \/ (entry.slot[i].ip = NoHost /\ entry'.slot[i].mtime = 0)
      BY <1>5, <2>1
    <2>5. d'.pc = "fill" /\ d'.at = {i}
      BY <1>5, <1>8, <2>1
    <2> QED BY <1>1, <1>5, <1>6, <2>1, <2>2, <2>3, <2>4, <2>5
  <1> QED BY <1>7, <1>8

LEMMA FillDoes ==
  ASSUME BaseInv, Fill
  PROVE  \E l \in Log, i \in Slot :
            /\ d.log = {l} /\ d.at = {i} /\ d'.log = {l} /\ d'.pc = "link"
            /\ entry'.fctime = entry.fctime
            /\ \A j \in Slot : j # i => entry'.slot[j] = entry.slot[j]
            /\ \/ /\ TimeOf[l] >= entry.slot[i].mtime
                  /\ entry'.slot[i].ip = entry.slot[i].ip
                  /\ entry'.slot[i].mtime = TimeOf[l] /\ entry'.slot[i].st = StatusOf[l]
               \/ TimeOf[l] < entry.slot[i].mtime /\ entry'.slot[i] = entry.slot[i]
  <1> USE DEF BaseInv
  <1>1. PICK l \in Log : d.log = {l} /\ Cur = l
    BY CurIs DEF Fill, DaemonInv, Reading
  <1>2. PICK i \in Slot : d.at = {i}
    BY DEF Fill, DaemonInv
  <1>3. /\ d' = [d EXCEPT !.pc = "link", !.at = {}]
        /\ entry' = [entry EXCEPT !.slot = [j \in Slot |->
                        IF j \in d.at /\ IsNews(TimeOf[l], @[j].mtime)
                        THEN [@[j] EXCEPT !.mtime = TimeOf[l], !.st = StatusOf[l]] ELSE @[j]]]
    BY <1>1 DEF Fill
  <1>4. EntryOK(entry) /\ TimeOf[l] \in Nat
    BY StoreAssumption DEF TypeOK
  <1>5. /\ entry'.fctime = entry.fctime
        /\ entry'.slot = [j \in Slot |->
                IF j \in d.at /\ IsNews(TimeOf[l], entry.slot[j].mtime)
                THEN [entry.slot[j] EXCEPT !.mtime = TimeOf[l], !.st = StatusOf[l]] ELSE entry.slot[j]]
        /\ d'.log = {l} /\ d'.pc = "link"
    BY <1>1, <1>3, <1>4 DEF EntryOK, DaemonInv
  <1>6. entry.slot[i] \in Taken
    BY <1>4 DEF EntryOK, Taken
  <1>7. LET new == [entry.slot[i] EXCEPT !.mtime = TimeOf[l], !.st = StatusOf[l]]
        IN  new.ip = entry.slot[i].ip /\ new.mtime = TimeOf[l] /\ new.st = StatusOf[l]
    BY <1>6 DEF Taken
  <1>8. \A j \in Slot : j # i => entry'.slot[j] = entry.slot[j]
    BY <1>2, <1>5
  <1>9. CASE TimeOf[l] >= entry.slot[i].mtime
    <2>1. entry'.slot[i] = [entry.slot[i] EXCEPT !.mtime = TimeOf[l], !.st = StatusOf[l]]
      BY <1>2, <1>5, <1>9 DEF IsNews
    <2>2. /\ entry'.slot[i].ip = entry.slot[i].ip
          /\ entry'.slot[i].mtime = TimeOf[l] /\ entry'.slot[i].st = StatusOf[l]
      BY <1>7, <2>1
    <2> HIDE <2>1, <1>7
    <2> QED BY <1>1, <1>2, <1>5, <1>8, <1>9, <2>2
  <1>10. CASE ~(TimeOf[l] >= entry.slot[i].mtime)
    <2>1. entry'.slot[i] = entry.slot[i]
      BY <1>2, <1>5, <1>10 DEF IsNews
    <2>2. entry.slot[i].mtime \in Nat
      BY <1>6 DEF Taken
    <2>3. TimeOf[l] < entry.slot[i].mtime
      BY <1>4, <1>10, <2>2
    <2> QED BY <1>1, <1>2, <1>5, <1>8, <2>1, <2>3
  <1> QED BY <1>9, <1>10

----------------------------------------------------------------------------
(* A server has one slot                                                   *)

LEMMA NextSlotInv == BaseInv /\ SlotInv /\ [Next]_vars => SlotInv'
  <1> SUFFICES ASSUME BaseInv, SlotInv, [Next]_vars, cleaned' = 0
               PROVE  OneSlotEach(entry') /\ (save' # NoSave => OneSlotEach(save'))
    BY DEF SlotInv, OneSlotEach
  <1>1. cleaned = 0 /\ ~\E h \in Host : CleanIp(h)
    <2>1. cleaned \in Nat
      BY DEF BaseInv, FilesInv
    <2>2. \A h \in Host : CleanIp(h) => cleaned' = cleaned + 1
      BY DEF CleanIp
    <2>3. cleaned' = cleaned \/ \E h \in Host : CleanIp(h)
      BY DEF Next, Daemon, Start, Restore, Kill, Reboot, Pass, Pick, Claim, Fill, Link, Rename,
             Replayed, Write, ClearPlus, Loader, Load, Backup, KillLoader, Arrive, Midnight, env, vars
    <2> QED BY <2>1, <2>2, <2>3
  <1>2. OneSlotEach(entry) /\ (save # NoSave => OneSlotEach(save)) /\ OneSlotEach(Blank)
    BY <1>1 DEF SlotInv, OneSlotEach, Blank, Free
  <1>3. CASE Claim
    <2>1. PICK l \in Log :
            \/ entry'.slot = entry.slot
            \/ \E i \in Slot :
                    /\ entry.slot[i].ip \in {HostOf[l], NoHost}
                    /\ \A j \in Slot : j < i => entry.slot[j].ip \notin {HostOf[l], NoHost}
                    /\ \A j \in Slot : j # i => entry'.slot[j] = entry.slot[j]
                    /\ entry'.slot[i].ip = HostOf[l]
                    /\ entry'.slot[i] = entry.slot[i] \/ entry.slot[i].ip = NoHost
      BY <1>3, ClaimDoes
    <2>2. save' = save
      BY <1>3 DEF Claim
    <2>3. HostOf[l] # NoHost /\ Slot \subseteq Nat
      BY StoreAssumption DEF Slot
    <2>4. OneSlotEach(entry')
      <3>1. CASE entry'.slot = entry.slot
        BY <1>2, <3>1 DEF OneSlotEach
      <3>2. ASSUME NEW i \in Slot,
                   entry.slot[i].ip \in {HostOf[l], NoHost},
                   \A j \in Slot : j < i => entry.slot[j].ip \notin {HostOf[l], NoHost},
                   \A j \in Slot : j # i => entry'.slot[j] = entry.slot[j],
                   entry'.slot[i].ip = HostOf[l]
            PROVE  OneSlotEach(entry')
        <4> SUFFICES ASSUME NEW j \in Slot, NEW k \in Slot, j < k
                     PROVE  /\ entry'.slot[j].ip = NoHost => entry'.slot[k].ip = NoHost
                            /\ entry'.slot[j].ip = entry'.slot[k].ip => entry'.slot[j].ip = NoHost
          BY DEF OneSlotEach
        <4>1. \A m, n \in Slot : m < n =>
                /\ entry.slot[m].ip = NoHost => entry.slot[n].ip = NoHost
                /\ entry.slot[m].ip = entry.slot[n].ip => entry.slot[m].ip = NoHost
          BY <1>2 DEF OneSlotEach
        <4>2. j \in Nat /\ k \in Nat /\ i \in Nat
          BY <2>3
        <4>3. CASE i = j
          BY <2>3, <3>2, <4>1, <4>3
        <4>4. CASE i = k
          BY <2>3, <3>2, <4>1, <4>4
        <4>5. CASE i # j /\ i # k
          BY <3>2, <4>1, <4>5
        <4> QED BY <4>3, <4>4, <4>5
      <3> QED BY <2>1, <3>1, <3>2
    <2> QED BY <1>2, <2>2, <2>4
  <1>4. CASE Fill
    <2>1. \A j \in Slot : entry'.slot[j].ip = entry.slot[j].ip
      BY <1>4, FillDoes
    <2>2. save' = save
      BY <1>4 DEF Fill
    <2> QED BY <1>2, <2>1, <2>2 DEF OneSlotEach
  <1>5. CASE ~Claim /\ ~Fill
    <2>1. entry' \in {entry, Blank} \/ (save # NoSave /\ entry' = save)
      BY <1>1, <1>5 DEF Next, Daemon, Start, Restore, Kill, Reboot, Pass, Pick, Link, Rename, Replayed,
             Write, ClearPlus, Loader, Load, Backup, KillLoader, Arrive, Midnight, vars, BaseInv, DaemonInv
    <2>2. save' \in {save, entry}
      BY <1>1, <1>5 DEF Next, Daemon, Start, Restore, Kill, Reboot, Pass, Pick, Link, Rename, Replayed,
             Write, ClearPlus, Loader, Load, Backup, KillLoader, Arrive, Midnight, vars
    <2> QED BY <1>2, <2>1, <2>2
  <1> QED BY <1>3, <1>4, <1>5

----------------------------------------------------------------------------
(* The table has what was read                                             *)

LEMMA NoClean ==
  ASSUME BaseInv, cleaned' = cleaned
  PROVE  ~\E h \in Host : CleanIp(h)
  <1>1. cleaned \in Nat
    BY DEF BaseInv, FilesInv
  <1>2. \A h \in Host : CleanIp(h) => cleaned' = cleaned + 1
    BY DEF CleanIp
  <1> QED BY <1>1, <1>2

(* What the other actions leave of the entry and of the save.              *)
LEMMA EntrySteps ==
  ASSUME BaseInv, [Next]_vars, cleaned' = cleaned, ~Claim, ~Fill
  PROVE  /\ \/ entry' = entry
            \/ Start /\ ~shm /\ entry' = Blank
            \/ Reboot /\ entry' = Blank
            \/ Restore /\ save # NoSave /\ entry' = save
         /\ save' = save \/ (Write /\ save' = entry)
  <1>1. ~\E h \in Host : CleanIp(h)
    BY NoClean
  <1> QED
    BY <1>1 DEF Next, Daemon, Start, Restore, Kill, Reboot, Pass, Pick, Link, Rename, Replayed,
           Write, ClearPlus, Loader, Load, Backup, KillLoader, Arrive, Midnight, vars, BaseInv, DaemonInv

(* A log is read when its name leaves indir.                               *)
LEMMA ConsumedSteps ==
  ASSUME BaseInv, [Next]_vars
  PROVE  /\ Consumed' \subseteq Consumed \union (IF Rename THEN d.log ELSE {})
         /\ ~ClearPlus => Consumed' \ workdir' \subseteq Consumed \ workdir
  <1> USE DEF Consumed
  <1>1. CASE UNCHANGED <<indir, workdir, outdir, bkdir>>
    BY <1>1
  <1>2. CASE Link
    BY <1>2 DEF Link, DaemonInv, BaseInv, db
  <1>3. CASE Rename
    BY <1>3 DEF Rename, Gone, DaemonInv, BaseInv, db
  <1>4. CASE ClearPlus
    BY <1>4 DEF ClearPlus, db
  <1>5. CASE \E x \in Instance : Backup(x)
    BY <1>5 DEF Backup, Moved, FilesInv, BaseInv
  <1>6. CASE \E l \in Log : Arrive(l)
    BY <1>6 DEF Arrive, Arrived, db
  <1> QED
    BY <1>1, <1>2, <1>3, <1>4, <1>5, <1>6
    DEF Next, Daemon, Start, Restore, Kill, Reboot, Pass, Pick, Claim, Fill, Replayed, Write,
        Loader, Load, KillLoader, CleanIp, Midnight, dirs, db, vars

(* Where the daemon can be after a step.                                   *)
LEMMA DaemonSteps ==
  ASSUME BaseInv, [Next]_vars
  PROVE  /\ d'.pc = "fill" => Claim \/ (d' = d)
         /\ d'.pc = "link" => Claim \/ Fill \/ (d' = d)
         /\ d'.pc = "rename" => (Link /\ d.pc = "link" /\ d'.log = d.log) \/ (d' = d)
         /\ d'.pc = "clear" => Write \/ (d' = d)
  <1> USE DEF BaseInv, DaemonInv, Reading
  <1>1. CASE Start \/ Restore \/ Kill \/ Reboot
    <2>1. d' \in {Down, [Down EXCEPT !.pc = "pass"], [Down EXCEPT !.pc = "restore"],
                  [Down EXCEPT !.pc = "pick", !.mode = "plus", !.todo = workdir]}
      BY <1>1, Zenon DEF Start, Restore, Kill, Reboot
    <2>2. /\ Down.pc = "down" /\ workdir \in SUBSET Log
          /\ \A p \in {"pass", "restore"} : [Down EXCEPT !.pc = p].pc = p
          /\ \A t \in SUBSET Log : [Down EXCEPT !.pc = "pick", !.mode = "plus", !.todo = t].pc = "pick"
      BY DEF Down, TypeOK
    <2>3. d'.pc \in {"down", "pass", "restore", "pick"}
      <3> HIDE DEF BaseInv, DaemonInv, Reading
      <3> QED BY <2>1, <2>2
    <2> QED BY <2>3
  <1>2. CASE Pass \/ Pick \/ Replayed \/ Rename
    <2>1. d'.pc \in {"pick", "claim", "pass", "save"}
      BY <1>2 DEF Pass, Pick, Replayed, Rename, Down
    <2> QED BY <2>1
  <1>3. CASE Claim \/ Fill
    <2>1. d'.pc \in {"fill", "link"} /\ (Claim \/ d'.pc = "link")
      BY <1>3 DEF Claim, Fill
    <2> QED BY <1>3, <2>1
  <1>4. CASE Link
    BY <1>4 DEF Link
  <1>5. CASE Write
    BY <1>5 DEF Write
  <1>6. CASE ClearPlus
    BY <1>6 DEF ClearPlus, Down
  <1>7. CASE UNCHANGED d
    BY <1>7
  <1> QED
    BY <1>1, <1>2, <1>3, <1>4, <1>5, <1>6, <1>7
    DEF Next, Daemon, Loader, Load, Backup, KillLoader, Arrive, CleanIp, Midnight, vars

LEMMA NextReported ==
  ASSUME BaseInv, ReportedInv, CurInv, [Next]_vars, cleaned' = cleaned
  PROVE  ReportedInv'
  <1>1. Arrived \subseteq Arrived'
    BY ArrivedStays DEF BaseInv
  <1>2. Reported(Blank)'
    BY DEF Reported, Blank, Free
  <1>3. Said \subseteq Said'
    BY <1>1 DEF Said
  <1>4. ASSUME NEW e, Reported(e)
        PROVE  /\ \A i \in Slot :
                    \/ e.slot[i].mtime = 0
                    \/ \A l \in Log : HostOf[l] # e.slot[i].ip
                    \/ \E l \in Arrived' : /\ e.slot[i].ip = HostOf[l]
                                           /\ e.slot[i].mtime = TimeOf[l] /\ e.slot[i].st = StatusOf[l]
               /\ e.fctime \in {0} \union Said'
    BY <1>1, <1>3, <1>4 DEF Reported
  <1>5. CASE ~Claim /\ ~Fill
    <2>1. /\ entry' \in {entry, Blank} \/ (save # NoSave /\ entry' = save)
          /\ save' \in {save, entry}
      BY <1>5, EntrySteps
    <2> QED BY <1>2, <1>4, <2>1 DEF Reported, ReportedInv
  <1>6. ASSUME save' = save, entry'.fctime \in {entry.fctime} \union Said', NEW i \in Slot,
               \A j \in Slot : j # i => entry'.slot[j] = entry.slot[j],
               \/ entry'.slot[i] = entry.slot[i]
               \/ entry'.slot[i].mtime = 0
               \/ \E l \in Arrived' :
                    /\ entry'.slot[i].ip = HostOf[l] /\ entry'.slot[i].mtime = TimeOf[l]
                    /\ entry'.slot[i].st = StatusOf[l]
        PROVE  ReportedInv'
    <2>1. \A j \in Slot :
            \/ entry'.slot[j].mtime = 0
            \/ \A l \in Log : HostOf[l] # entry'.slot[j].ip
            \/ \E l \in Arrived' :
                /\ entry'.slot[j].ip = HostOf[l] /\ entry'.slot[j].mtime = TimeOf[l]
                /\ entry'.slot[j].st = StatusOf[l]
      BY <1>4, <1>6 DEF ReportedInv
    <2>2. entry'.fctime \in {0} \union Said'
      BY <1>4, <1>6 DEF ReportedInv
    <2> QED BY <1>4, <1>6, <2>1, <2>2 DEF Reported, ReportedInv
  <1>7. \A l \in d.log : l \in Arrived' /\ SourceOf[l] \in Said'
    BY <1>1 DEF BaseInv, DaemonInv, FilesInv, Arrived, Consumed, Said
  <1>8. CASE Claim
    <2>1. \E i \in Slot :
            /\ \A j \in Slot : j # i => entry'.slot[j] = entry.slot[j]
            /\ entry'.slot[i] = entry.slot[i] \/ entry'.slot[i].mtime = 0
      <3>1. 1 \in Slot
        BY StoreAssumption DEF Slot
      <3> QED BY <1>8, <3>1, ClaimDoes
    <2>2. save' = save /\ entry'.fctime \in {entry.fctime} \union Said'
      BY <1>7, <1>8, ClaimDoes DEF Claim
    <2> QED BY <1>6, <2>1, <2>2
  <1>9. CASE Fill
    <2>1. PICK l \in Log, i \in Slot :
            /\ d.log = {l} /\ d.at = {i} /\ entry'.fctime = entry.fctime
            /\ \A j \in Slot : j # i => entry'.slot[j] = entry.slot[j]
            /\ \/ /\ entry'.slot[i].ip = entry.slot[i].ip
                  /\ entry'.slot[i].mtime = TimeOf[l] /\ entry'.slot[i].st = StatusOf[l]
               \/ entry'.slot[i] = entry.slot[i]
      BY <1>9, FillDoes
    <2>2. d.pc = "fill" /\ save' = save
      BY <1>9 DEF Fill
    <2>3. entry.slot[i].ip = HostOf[l]
      BY <2>1, <2>2 DEF CurInv
    <2> QED BY <1>6, <1>7, <2>1, <2>2, <2>3
  <1> QED BY <1>5, <1>8, <1>9

(* Reading a log takes nothing from what the entry knows.                  *)
LEMMA HasStays ==
  ASSUME BaseInv, Claim \/ Fill, NEW m \in Log, Has(entry, m)
  PROVE  Has(entry', m)
  <1>1. /\ entry' # NoSave /\ EntryOK(entry) /\ EntryOK(entry')
    BY NextBaseInv, EntryIsSome DEF BaseInv, TypeOK, Next, Daemon
  <1>2. /\ TimeOf[m] \in Nat /\ SourceOf[m] \in Nat /\ entry.fctime \in Nat /\ entry'.fctime \in Nat
        /\ \A i \in Slot : entry.slot[i].mtime \in Nat /\ entry'.slot[i].mtime \in Nat
    BY <1>1, StoreAssumption DEF EntryOK
  <1>3. entry'.fctime >= entry.fctime
    BY <1>2, ClaimDoes, FillDoes
  <1>4. SUFFICES ASSUME \E i \in Slot : entry'.slot[i].ip \in {HostOf[m], NoHost}
                 PROVE  \E i \in Slot : entry'.slot[i].ip = HostOf[m] /\ entry'.slot[i].mtime >= TimeOf[m]
    BY <1>1, <1>2, <1>3 DEF Has
  <1>5. ASSUME NEW i \in Slot, entry.slot[i].ip = HostOf[m], entry.slot[i].mtime >= TimeOf[m],
               entry'.slot[i].ip = entry.slot[i].ip, entry'.slot[i].mtime >= entry.slot[i].mtime
        PROVE  \E j \in Slot : entry'.slot[j].ip = HostOf[m] /\ entry'.slot[j].mtime >= TimeOf[m]
    BY <1>2, <1>5
  <1>6. CASE Claim
    <2>1. \/ entry'.slot = entry.slot
          \/ \E i \in Slot :
                /\ entry.slot[i].ip = NoHost \/ entry'.slot[i] = entry.slot[i]
                /\ \A j \in Slot : j # i => entry'.slot[j] = entry.slot[j]
      BY <1>6, ClaimDoes
    <2>2. \E i \in Slot : entry.slot[i].ip \in {HostOf[m], NoHost}
      BY <1>4, <2>1
    <2>3. PICK i \in Slot : entry.slot[i].ip = HostOf[m] /\ entry.slot[i].mtime >= TimeOf[m]
      BY <2>2 DEF Has
    <2>4. HostOf[m] # NoHost
      BY StoreAssumption
    <2>5. entry'.slot[i] = entry.slot[i]
      BY <2>1, <2>3, <2>4
    <2> QED BY <1>2, <1>5, <2>3, <2>5
  <1>7. CASE Fill
    <2>1. \A j \in Slot : /\ entry'.slot[j].ip = entry.slot[j].ip
                          /\ entry'.slot[j].mtime >= entry.slot[j].mtime
      <3>1. PICK l \in Log, i \in Slot :
            /\ \A j \in Slot : j # i => entry'.slot[j] = entry.slot[j]
            /\ \/ /\ TimeOf[l] >= entry.slot[i].mtime
                  /\ entry'.slot[i].ip = entry.slot[i].ip
                  /\ entry'.slot[i].mtime = TimeOf[l]
               \/ entry'.slot[i] = entry.slot[i]
        BY <1>7, FillDoes
      <3> QED BY <1>2, <3>1
    <2>2. PICK i \in Slot : entry.slot[i].ip = HostOf[m] /\ entry.slot[i].mtime >= TimeOf[m]
      BY <1>4, <2>1 DEF Has
    <2> QED BY <1>5, <2>1, <2>2
  <1> QED BY <1>6, <1>7

LEMMA NextCurInv ==
  ASSUME BaseInv, CurInv, [Next]_vars, cleaned' = cleaned
  PROVE  CurInv'
  <1>1. CASE Claim
    <2>1. PICK l \in Log :
            /\ d'.log = {l} /\ entry'.fctime >= SourceOf[l]
            /\ \/ /\ d'.pc = "link" /\ entry'.slot = entry.slot
                  /\ \A i \in Slot : entry.slot[i].ip \notin {HostOf[l], NoHost}
               \/ \E i \in Slot : d'.pc = "fill" /\ d'.at = {i} /\ entry'.slot[i].ip = HostOf[l]
      BY <1>1, ClaimDoes
    <2>2. entry' # NoSave
      BY NextBaseInv, EntryIsSome DEF BaseInv, TypeOK
    <2> QED BY <2>1, <2>2 DEF CurInv, Has
  <1>2. CASE Fill
    <2>1. PICK l \in Log, i \in Slot :
            /\ d.log = {l} /\ d.at = {i} /\ d'.log = {l} /\ d'.pc = "link"
            /\ entry'.fctime = entry.fctime
            /\ \/ entry'.slot[i].ip = entry.slot[i].ip /\ entry'.slot[i].mtime = TimeOf[l]
               \/ TimeOf[l] < entry.slot[i].mtime /\ entry'.slot[i] = entry.slot[i]
      BY <1>2, FillDoes
    <2>2. entry.fctime >= SourceOf[l] /\ entry.slot[i].ip = HostOf[l]
      BY <1>2, <2>1 DEF Fill, CurInv
    <2>3. TimeOf[l] \in Nat /\ entry.slot[i].mtime \in Nat
      BY StoreAssumption DEF BaseInv, TypeOK, EntryOK
    <2>4. entry'.slot[i].ip = HostOf[l] /\ entry'.slot[i].mtime >= TimeOf[l]
      BY <2>1, <2>2, <2>3
    <2>5. entry' # NoSave
      BY NextBaseInv, EntryIsSome DEF BaseInv, TypeOK
    <2>6. Has(entry', l)
      BY <2>1, <2>2, <2>4, <2>5 DEF Has
    <2> QED BY <2>1, <2>6 DEF CurInv, Has
  <1>3. CASE Link
    <2>1. d.pc = "link" /\ d'.pc = "rename" /\ d'.log = d.log /\ entry' = entry
      BY <1>3 DEF Link, BaseInv, DaemonInv
    <2> QED BY <2>1 DEF CurInv, Has
  <1>4. CASE ~Claim /\ ~Fill /\ ~Link
    <2>1. d'.pc \in {"fill", "link", "rename"} => d' = d
      BY <1>4, DaemonSteps
    <2>2. d'.pc \in {"fill", "link", "rename"} => entry' = entry
      <3>1. ASSUME d'.pc \in {"fill", "link", "rename"}, Start \/ Reboot \/ Restore PROVE FALSE
        <4>1. d.pc \in {"fill", "link", "rename"} /\ d' = d
          BY <2>1, <3>1
        <4>2. Reboot
          BY <3>1, <4>1 DEF Start, Restore
        <4> QED BY <4>1, <4>2 DEF Reboot, Down
      <3> QED BY <1>4, <3>1, EntrySteps
    <2> QED BY <2>1, <2>2 DEF CurInv, Has
  <1> QED BY <1>1, <1>2, <1>3, <1>4

LEMMA NextSaveInv ==
  ASSUME BaseInv, CurInv, SaveInv, EntryInv, [Next]_vars, cleaned' = cleaned
  PROVE  SaveInv'
  <1>1. CASE Write
    <2>1. /\ d.pc = "save" /\ save' = entry /\ Consumed' = Consumed /\ workdir' = workdir
          /\ shm /\ ToReplay = {}
      BY <1>1 DEF Write, Consumed, ToReplay, BaseInv, DaemonInv, Reading, dirs, db
    <2>2. \A l \in Consumed : Has(entry, l)
      BY <2>1 DEF EntryInv
    <2> QED BY <2>1, <2>2 DEF SaveInv, Has
  <1>2. CASE ~Write
    <2>1. save' = save
      BY <1>2, EntrySteps DEF Claim, Fill
    <2>2. d'.pc = "clear" => d.pc = "clear"
      BY <1>2, DaemonSteps
    <2>3. d.pc = "clear" => ~Rename
      BY DEF Rename
    <2>4. /\ Consumed' \subseteq Consumed \union (IF Rename THEN d.log ELSE {})
          /\ ~ClearPlus => Consumed' \ workdir' \subseteq Consumed \ workdir
      BY ConsumedSteps
    <2>5. ClearPlus => d.pc = "clear"
      BY DEF ClearPlus, ClearWhen
    <2>6. \A l \in Consumed' \ workdir' : Has(save, l)
      BY <2>3, <2>4, <2>5 DEF SaveInv
    <2>7. d'.pc = "clear" => \A l \in Consumed' : Has(save, l)
      BY <2>2, <2>3, <2>4 DEF SaveInv
    <2> QED BY <2>1, <2>6, <2>7 DEF SaveInv, Has
  <1> QED BY <1>1, <1>2

LEMMA NextEntryInv ==
  ASSUME BaseInv, CurInv, SaveInv, EntryInv, [Next]_vars, cleaned' = cleaned, ~cut'
  PROVE  EntryInv'
  <1> SUFFICES ASSUME shm', d'.pc # "restore", NEW l \in Consumed' \ ToReplay'
               PROVE  Has(entry', l)
    BY DEF EntryInv, Has
  <1> USE DEF BaseInv
  <1>1. l \in Log
    BY NextBaseInv DEF TypeOK, Consumed
  <1>2. Consumed' \subseteq Consumed \union (IF Rename THEN d.log ELSE {})
    BY ConsumedSteps
  <1>3. CASE shm /\ d.pc # "restore" /\ entry' = entry /\ ToReplay \subseteq ToReplay' /\ ~Rename
    BY <1>2, <1>3 DEF EntryInv
  <1>4. CASE Start
    <2>1. d.pc = "down" /\ ToReplay = {} /\ Consumed' = Consumed /\ ~Rename
      BY <1>4 DEF Start, ToReplay, DaemonInv, Reading, Consumed, Rename, dirs, db
    <2>2. CASE shm
      BY <1>3, <1>4, <2>1, <2>2 DEF Start
    <2>3. CASE ~shm
      <3>1. save = NoSave /\ d' = [Down EXCEPT !.pc = "pick", !.mode = "plus", !.todo = workdir]
        <4>1. save # NoSave => d' = [Down EXCEPT !.pc = "restore"]
          BY <1>4, <2>3 DEF Start
        <4>2. [Down EXCEPT !.pc = "restore"].pc = "restore"
          BY DEF Down
        <4> QED BY <1>4, <2>3, <4>1, <4>2 DEF Start
      <3>2. Consumed \subseteq workdir
        BY <3>1 DEF SaveInv, Has
      <3>3. ToReplay' = workdir
        BY <3>1 DEF ToReplay, Down
      <3> QED BY <2>1, <3>2, <3>3
    <2> QED BY <2>2, <2>3
  <1>5. CASE Restore
    <2>1. entry' = save /\ Consumed' = Consumed
          /\ d' = [Down EXCEPT !.pc = "pick", !.mode = "plus", !.todo = workdir]
      BY <1>5 DEF Restore, Consumed, dirs, db
    <2>2. ToReplay' = workdir
      BY <2>1 DEF ToReplay, Down
    <2> QED BY <2>1, <2>2 DEF SaveInv
  <1>6. CASE Kill
    <2>1. d.pc # "down" /\ entry' = entry /\ ~Rename
      BY <1>6 DEF Kill, Rename, DaemonInv, Down
    <2>2. d.pc # "restore" /\ ToReplay = {}
      <3>1. ~(d.pc = "restore") /\ ~(d.mode = "plus" /\ d.todo \union d.log # {})
        BY <1>6, Zenon DEF Kill
      <3> QED BY <3>1 DEF ToReplay
    <2> QED BY <1>3, <2>1, <2>2 DEF DaemonInv
  <1>7. CASE Reboot
    BY <1>7 DEF Reboot
  <1>8. CASE Pass \/ Write \/ ClearPlus
    <2>1. shm /\ d.pc \notin {"restore", "rename"} /\ ToReplay = {} /\ entry' = entry
      BY <1>8 DEF Pass, Write, ClearPlus, ClearWhen, ToReplay, DaemonInv, Reading
    <2> QED BY <1>3, <2>1 DEF Rename
  <1>9. CASE Pick
    <2>1. shm /\ d.pc = "pick" /\ entry' = entry /\ d.log = {} /\ ~Rename
      BY <1>9 DEF Pick, DaemonInv, Reading, Rename
    <2>2. ToReplay \subseteq ToReplay'
      <3>1. CASE d.todo = {}
        BY <2>1, <3>1 DEF ToReplay
      <3>2. CASE d.todo # {}
        <4>1. PICK m \in d.todo : d' = [d EXCEPT !.pc = "claim", !.log = {m}, !.todo = @ \ {m}]
          BY <1>9, <3>2 DEF Pick
        <4>2. d'.mode = d.mode /\ d'.log = {m} /\ d'.todo = d.todo \ {m}
          BY <4>1 DEF DaemonInv
        <4> QED BY <2>1, <4>2 DEF ToReplay
      <3> QED BY <3>1, <3>2
    <2> QED BY <1>3, <2>1, <2>2
  <1>10. CASE Claim \/ Fill
    <2>1. shm /\ d.pc \notin {"restore", "rename"}
      BY <1>10 DEF Claim, Fill, DaemonInv
    <2>2. d'.mode = d.mode /\ d'.log = d.log /\ d'.todo = d.todo
      BY <1>10 DEF Claim, Fill, DaemonInv
    <2>3. l \in Consumed \ ToReplay
      BY <1>2, <2>1, <2>2 DEF ToReplay, Rename
    <2> QED BY <1>1, <1>10, <2>1, <2>3, HasStays DEF EntryInv
  <1>11. CASE Link
    <2>1. shm /\ d.pc = "link" /\ ToReplay = {} /\ entry' = entry
      BY <1>11 DEF Link, DaemonInv, ToReplay
    <2> QED BY <1>3, <2>1 DEF Rename
  <1>12. CASE Replayed \/ Rename
    <2>1. shm /\ d.pc \in {"link", "rename"} /\ entry' = entry
      BY <1>12 DEF Replayed, Rename, DaemonInv
    <2>2. d'.mode = d.mode /\ d'.log = {} /\ d'.todo = d.todo
      BY <1>12 DEF Replayed, Rename, DaemonInv
    <2>3. l \in d.log \/ l \in Consumed \ ToReplay
      BY <1>2, <2>2 DEF ToReplay
    <2> QED BY <2>1, <2>3 DEF EntryInv, CurInv
  <1>13. CASE UNCHANGED <<d, shm, entry>>
    <2>1. ~Rename
      <3>1. Rename => d.pc = "rename" /\ d'.pc = "pick"
        BY DEF Rename, DaemonInv
      <3> QED BY <1>13, <3>1
    <2> QED BY <1>3, <1>13, <2>1 DEF ToReplay
  <1>14. ~\E h \in Host : CleanIp(h)
    BY NoClean
  <1> QED
    BY <1>4, <1>5, <1>6, <1>7, <1>8, <1>9, <1>10, <1>11, <1>12, <1>13, <1>14
    DEF Next, Daemon, Loader, Load, Backup, KillLoader, Arrive, Midnight, vars

LEMMA NextTableInv == BaseInv /\ TableInv /\ [Next]_vars => TableInv'
  <1> SUFFICES ASSUME BaseInv, TableInv, [Next]_vars, ~cut', cleaned' = 0
               PROVE  ReportedInv' /\ CurInv' /\ SaveInv' /\ EntryInv'
    BY DEF TableInv
  <1>1. ~cut
    <2>1. CASE Kill
      BY <2>1, Zenon DEF Kill
    <2>2. CASE ~Kill
      BY <2>2 DEF Next, Daemon, Start, Restore, Reboot, Pass, Pick, Claim, Fill, Link, Rename,
             Replayed, Write, ClearPlus, Loader, Load, Backup, KillLoader, Arrive, CleanIp,
             Midnight, env, vars
    <2> QED BY <2>1, <2>2
  <1>2. cleaned' \in {cleaned, cleaned + 1} /\ cleaned \in Nat
    BY DEF Next, Daemon, Start, Restore, Kill, Reboot, Pass, Pick, Claim, Fill, Link, Rename,
           Replayed, Write, ClearPlus, Loader, Load, Backup, KillLoader, Arrive, CleanIp,
           Midnight, env, vars, BaseInv, FilesInv
  <1>3. cleaned = 0 /\ cleaned' = cleaned
    BY <1>2
  <1>4. ReportedInv /\ CurInv /\ SaveInv /\ EntryInv
    BY <1>1, <1>3 DEF TableInv
  <1> QED BY <1>3, <1>4, NextReported, NextCurInv, NextSaveInv, NextEntryInv

----------------------------------------------------------------------------
(* The entry is sound                                                      *)

LEMMA InitEntry == Init => SlotInv /\ TableInv
  <1> SUFFICES ASSUME Init PROVE SlotInv /\ TableInv
    OBVIOUS
  <1>1. \/ entry = Blank /\ save = NoSave
        \/ entry = [fctime |-> 0, slot |-> Others] /\ save = entry
    BY DEF Init
  <1>2. OneSlotEach(Blank) /\ Reported(Blank)
    BY DEF OneSlotEach, Reported, Blank, Free
  <1>3. OneSlotEach([fctime |-> 0, slot |-> Others])
    BY StoreAssumption DEF OneSlotEach, Slot
  <1>4. Reported([fctime |-> 0, slot |-> Others])
    BY StoreAssumption DEF Reported, Slot
  <1>5. Consumed = {} /\ d.pc = "down"
    BY DEF Init, Consumed, Down
  <1> QED
    BY <1>1, <1>2, <1>3, <1>4, <1>5 DEF SlotInv, TableInv, ReportedInv, CurInv, SaveInv, EntryInv

LEMMA EntryIsSound == BaseInv /\ SlotInv /\ TableInv => EntrySound
  <1> SUFFICES ASSUME BaseInv, SlotInv, TableInv PROVE NewestWins
    BY DEF EntrySound, BaseInv, SlotInv, SlotPerHost, OneSlotEach
  <1>1. SUFFICES ASSUME d.pc \notin {"down", "restore"}, d.mode = "real", ~cut, cleaned = 0
                 PROVE  NewestSource /\ \A h \in {HostOf[l] : l \in Log} : Newest(h)
    BY DEF NewestWins
  <1>2. \A m \in Consumed : Has(entry, m)
    BY <1>1 DEF TableInv, EntryInv, ToReplay, BaseInv, DaemonInv
  <1>3. Reported(entry)
    BY <1>1 DEF TableInv, ReportedInv
  <1>4. NewestSource
    BY <1>2, <1>3 DEF NewestSource, Has, Reported, Said
  <1>5. ASSUME NEW h \in {HostOf[l] : l \in Log},
               NEW n \in Consumed, HostOf[n] = h,
               \E i \in Slot : entry.slot[i].ip \in {h, NoHost}
        PROVE  \E i \in Slot, l \in Arrived :
                        /\ HostOf[l] = h
                        /\ \A m \in {k \in Consumed : HostOf[k] = h} : TimeOf[l] >= TimeOf[m]
                        /\ entry.slot[i] = [ip |-> h, mtime |-> TimeOf[l], st |-> StatusOf[l]]
    <2>1. /\ \A m \in Log : TimeOf[m] \in Nat \ {0} /\ Consumed \subseteq Log /\ h # NoHost
          /\ Slot \subseteq Nat /\ Arrived \subseteq Log
      BY StoreAssumption DEF BaseInv, TypeOK, Consumed, Arrived, Slot
    <2>2. PICK i \in Slot : entry.slot[i].ip = h /\ entry.slot[i].mtime >= TimeOf[n]
      BY <1>2, <1>5 DEF Has
    <2>3. entry.slot[i] \in Taken
      BY DEF BaseInv, TypeOK, EntryOK, Taken
    <2>4. entry.slot[i].mtime \in Nat /\ entry.slot[i].mtime # 0
      BY <2>1, <2>2, <2>3 DEF Taken
    <2>5. PICK l \in Arrived :
            HostOf[l] = h /\ entry.slot[i].mtime = TimeOf[l] /\ entry.slot[i].st = StatusOf[l]
      BY <1>3, <2>1, <2>2, <2>4 DEF Reported
    <2>6. entry.slot[i] = [ip |-> h, mtime |-> TimeOf[l], st |-> StatusOf[l]]
      BY <2>2, <2>3, <2>5 DEF Taken
    <2>7. ASSUME NEW m \in Consumed, HostOf[m] = h
          PROVE  TimeOf[l] >= TimeOf[m]
      <3>1. PICK j \in Slot : entry.slot[j].ip = h /\ entry.slot[j].mtime >= TimeOf[m]
        BY <1>2, <1>5, <2>7 DEF Has
      <3>2. i = j
        BY <1>1, <2>1, <2>2, <3>1 DEF SlotInv, OneSlotEach
      <3> QED BY <2>5, <3>1, <3>2
    <2> QED BY <2>5, <2>6, <2>7
  <1> QED BY <1>1, <1>4, <1>5 DEF Newest

(* In whatever order the logs are read and whenever the daemon is killed   *)
(* or the machine restarted, the entry of a file has one slot for a        *)
(* server, with the newest that server reported, and the newest source     *)
(* any server was given: unless a restore was cut short or cdctool has     *)
(* taken a server out.                                                     *)
THEOREM EntriesAreSound == Spec => []EntrySound
  <1>1. Init => BaseInv /\ SlotInv /\ TableInv
    BY InitBaseInv, InitEntry
  <1>2. BaseInv /\ SlotInv /\ TableInv /\ [Next]_vars => (BaseInv /\ SlotInv /\ TableInv)'
    BY NextBaseInv, NextSlotInv, NextTableInv
  <1>3. BaseInv /\ SlotInv /\ TableInv => EntrySound
    BY EntryIsSound
  <1> QED BY <1>1, <1>2, <1>3, PTL DEF Spec
=============================================================================
