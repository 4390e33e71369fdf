-------------------------- MODULE Transfer_proofs --------------------------
(***************************************************************************)
(* What holds of Transfer for every pool of tasks and connections, every   *)
(* group, every number of versions and every length of them.               *)
(*                                                                         *)
(* The invariant is local: it says of a task what it may be (Due), of a    *)
(* connection what may be on it (Open), and of a connection and its task   *)
(* how far the one has brought the other (Flows).  A step changes tasks    *)
(* that no connection has (TasksStep), or one connection and its task      *)
(* (ConnStep); these two lemmas say what such a step owes.                 *)
(***************************************************************************)
EXTENDS Transfer, Integers, SequenceTheorems, TLAPS

Awaiting == {"WAIT", "WAIT_TMP", "Q_SYNC_DIR", "Q_SYNC_DIR_TMP", "RECV"}
Sending == {"WAIT_SYNC", "WAIT_SYNC_IP"}

TaskRec == [list : Lists, kind : {"add", "del", "link"},
            need : {"DST", "SOURCE", "SRC_NOSYNC", "SYNC_ISDIR"},
            peer : Server, ver : 0 .. MaxVer, off : Nat,
            retry : Nat, over : Overs, tmp : Seq(Version)]

(* A task in the pool: it has not ended while it waits for the file, what  *)
(* is sent to a mate ended well, and a deletion cannot end badly.          *)
Due(r) ==
  /\ r \in TaskRec
  /\ r.list \in Awaiting => r.over = "UNKNOWN" /\ r.kind # "del"
  /\ r.list \in Sending => r.over = "OK"
  /\ r.list # "HOME" /\ r.kind = "del" => r.over = "OK"
  /\ r.list # "HOME" /\ r.kind # "del" => r.ver \in Version
  /\ ~Continue => r.off = 0

(* A task that ended well is about a version that was whole here.          *)
WasHad(r, h) == r.list # "HOME" /\ r.over = "OK" /\ r.kind # "del" => r.ver \in h

Req == [ver : Version, off : Nat, retry : Nat]
Refusal == [ok : {FALSE}]
Header == [ok : {TRUE}, ver : Version, len : Int]
Answer == Refusal \cup Header \cup Version

ConnRec == [stat : {"LOGOUT", "IDLE", "PREPARE_RECVFILE", "RECVFILEING"}, peer : Server,
            recvtask : Task \cup {NoTask}, last : Nat, len : Int, up : Seq(Req),
            down : Seq(Answer)]

(* What lies on a connection: nothing without a task; a request or the     *)
(* answer to it, with the data behind its header; the rest of the data.    *)
Replied(k) ==
  /\ k.up = <<>> /\ k.down # <<>>
  /\ Head(k.down) \in Refusal \cup Header /\ Tail(k.down) \in Seq(Version)
Open(k) ==
  /\ k \in ConnRec
  /\ k.stat \in {"LOGOUT", "IDLE"} =>
       k.recvtask = NoTask /\ k.up = <<>> /\ k.down = <<>>
  /\ k.stat = "PREPARE_RECVFILE" =>
       /\ k.recvtask # NoTask /\ k.last = 0
       /\ (k.up # <<>> /\ k.down = <<>>) \/ Replied(k)
  /\ k.stat = "RECVFILEING" =>
       k.recvtask # NoTask /\ k.up = <<>> /\ k.down \in Seq(Version)

(* The first n chunks of version 1, the only one while no file changes.    *)
Ones(n) == [i \in 1 .. n |-> 1]

(* A transfer can be resumed where its temporary file ends.                *)
Resumable(r) == r.off = 0 \/ (r.off < Size[1] /\ r.tmp = Ones(r.off))

(* While no file changes no server refuses, no md5 differs, and what was   *)
(* received, what is under way and what is still to come are the file.     *)
Steady(r) ==
  /\ r.over \notin {"E_MD5", "E_OPEN_SRCFILE"}
  /\ r.list # "HOME" /\ r.kind # "del" => r.ver = 1
  /\ r.list \in Awaiting \ {"RECV"} => Resumable(r)
Flows(k, r) ==
  /\ k.stat = "PREPARE_RECVFILE" =>
       /\ Resumable(r)
       /\ k.up # <<>> => Head(k.up).ver = 1 /\ Head(k.up).off = r.off
       /\ k.up = <<>> =>
            /\ Head(k.down) = [ok |-> TRUE, ver |-> 1, len |-> Size[1] - r.off]
            /\ Tail(k.down) = Ones(Size[1] - r.off)
  /\ k.stat = "RECVFILEING" =>
       /\ k.len = Size[1] - r.off /\ k.last < k.len
       /\ r.tmp = Ones(r.off + k.last)
       /\ k.down = Ones(k.len - k.last)

TasksAreDue == \A t \in Task : Due(task[t]) /\ WasHad(task[t], had)
ConnsAreOpen == conn \in [Conn -> ConnRec] /\ \A c \in Conn : Open(conn[c])
DiskIsHad == \A n \in Name : disk[n] = <<>> \/ \E v \in had : disk[n] = Content(v)
StreamsAreSteady ==
  settled =>
    /\ at = [s \in Server |-> 1]
    /\ \A t \in Task : Steady(task[t])
    /\ \A c \in Conn : conn[c].recvtask # NoTask => Flows(conn[c], task[conn[c].recvtask])

(* What the tasks, the connections and the claims need of each other.      *)
Exchange == TasksAreDue /\ ConnsAreOpen /\ RecvIsCarried /\ StreamsAreSteady
Claims == DiskIsHad /\ ToldIsHad /\ StampIsHad
IInv == TypeOK /\ Exchange /\ Claims

----------------------------------------------------------------------------
(* Contents: a version is told by any of its chunks.                       *)
LEMMA ContentIsVersion ==
  ASSUME NEW v \in Version
  PROVE  Content(v) \in Seq(Version) /\ Content(v) # <<>>
  <1>1. Size[v] \in Nat /\ Size[v] > 0
    BY TransferAssumption
  <1>2. Content(v) \in [1 .. Size[v] -> Version]
    BY DEF Content
  <1>3. 1 \in DOMAIN Content(v)
    BY <1>1 DEF Content
  <1> QED BY <1>1, <1>2, <1>3

LEMMA ContentTells ==
  ASSUME NEW v \in Version, NEW w \in Version, Content(v) = Content(w)
  PROVE  v = w
  <1>1. Size[v] \in Nat /\ Size[v] > 0 /\ Size[w] \in Nat /\ Size[w] > 0
    BY TransferAssumption
  <1>2. Content(v)[1] = v /\ Content(w)[1] = w
    BY <1>1 DEF Content
  <1> QED BY <1>2

----------------------------------------------------------------------------
(* A step that leaves the connections alone: whatever it does to tasks     *)
(* that no connection has, they stay sound one by one.                     *)
LEMMA TasksStep ==
  ASSUME TypeOK, Exchange, conn' = conn, had' = had, at' = at, settled' = settled,
         task' \in [Task -> TaskRec],
         \A t \in Task : \/ task'[t] = task[t]
                         \/ /\ task[t].list # "RECV" /\ task'[t].list # "RECV"
                            /\ Due(task'[t]) /\ WasHad(task'[t], had)
                            /\ settled => Steady(task'[t])
  PROVE  Exchange'
  <1>1. TasksAreDue'
    BY DEF Exchange, TasksAreDue
  <1>2. ConnsAreOpen'
    BY DEF Exchange, ConnsAreOpen
  <1>3. RecvIsCarried'
    BY DEF Exchange, RecvIsCarried
  <1>4. StreamsAreSteady'
    <2>1. \A c \in Conn : conn[c].recvtask # NoTask =>
             conn[c].recvtask \in Task /\ task[conn[c].recvtask].list = "RECV"
      BY DEF Exchange, RecvIsCarried, ConnsAreOpen, ConnRec
    <2> QED BY <2>1 DEF Exchange, StreamsAreSteady
  <1> QED BY <1>1, <1>2, <1>3, <1>4 DEF Exchange

(* A step of one connection and the task it has, or gets.                  *)
LEMMA ConnStep ==
  ASSUME TypeOK, Exchange, at' = at, settled' = settled, had \subseteq had',
         NEW c \in Conn, NEW t \in Task, NEW k, NEW r,
         conn' = [conn EXCEPT ![c] = k], task' = [task EXCEPT ![t] = r],
         conn[c].recvtask = t \/ (conn[c].recvtask = NoTask /\ task[t].list # "RECV"),
         (k.recvtask = t /\ r.list = "RECV") \/ (k.recvtask = NoTask /\ r.list # "RECV"),
         Open(k), Due(r), WasHad(r, had'),
         settled => Steady(r) /\ (k.recvtask = t => Flows(k, r))
  PROVE  Exchange'
  <1>t. NoTask \notin Task
    BY TransferAssumption
  <1>0. task \in [Task -> TaskRec] /\ conn \in [Conn -> ConnRec]
    BY DEF TypeOK, TaskRec, Exchange, ConnsAreOpen
  <1>a. task'[t] = r /\ \A u \in Task : u # t => task'[u] = task[u]
    BY <1>0
  <1>b. conn'[c] = k /\ \A d \in Conn : d # c => conn'[d] = conn[d]
    BY <1>0
  <1>1. TasksAreDue'
    BY <1>a DEF Exchange, TasksAreDue, WasHad
  <1>2. ConnsAreOpen'
    BY <1>0, <1>b DEF Exchange, ConnsAreOpen, Open
  <1>3. \A d \in Conn : d # c => conn[d].recvtask # t
    BY <1>t, <1>0 DEF Exchange, RecvIsCarried
  <1>4. RecvIsCarried'
    BY <1>t, <1>a, <1>b, <1>3 DEF Exchange, RecvIsCarried
  <1>5. StreamsAreSteady'
    <2>1. \A d \in Conn : conn[d].recvtask # NoTask => conn[d].recvtask \in Task
      BY <1>0 DEF ConnRec
    <2> QED BY <1>a, <1>b, <1>3, <2>1 DEF Exchange, StreamsAreSteady
  <1> QED BY <1>1, <1>2, <1>4, <1>5 DEF Exchange

----------------------------------------------------------------------------
(* A new task is no worse for coming from any server.                      *)
LEMMA BlankIsDue == Due(Blank) /\ \A h : WasHad(Blank, h)
  BY TransferAssumption DEF Due, WasHad, Blank, TaskRec, Lists, Overs, Server, Awaiting, Sending

LEMMA BlankIsSteady == Steady(Blank)
  BY DEF Steady, Blank, Awaiting

LEMMA InitIInv == Init => IInv
  <1> SUFFICES ASSUME Init PROVE IInv
    OBVIOUS
  <1>1. \A t \in Task : task[t] = Blank
    BY DEF Init
  <1>2. \A c \in Conn : conn[c] = Closed
    BY DEF Init
  <1>3. task \in [Task -> TaskRec]
    BY <1>1, BlankIsDue DEF Init, Due
  <1>4. Open(Closed)
    BY DEF Open, Closed, ConnRec, Server
  <1>5. TypeOK
    BY <1>2, <1>3, TransferAssumption DEF Init, TypeOK, TaskRec, Closed
  <1>6. TasksAreDue
    BY <1>1, BlankIsDue DEF TasksAreDue
  <1>7. ConnsAreOpen
    BY <1>2, <1>4 DEF Init, ConnsAreOpen, Open
  <1>8. RecvIsCarried
    BY <1>1, <1>2, TransferAssumption DEF RecvIsCarried, Blank, Closed
  <1>9. StreamsAreSteady
    BY <1>1, <1>2, BlankIsSteady DEF Init, StreamsAreSteady, Closed
  <1>10. Claims
    BY DEF Init, Claims, DiskIsHad, ToldIsHad, StampIsHad
  <1> QED BY <1>5, <1>6, <1>7, <1>8, <1>9, <1>10 DEF IInv, Exchange

(* What the step of one task takes from IInv.                              *)
LEMMA OneTask ==
  ASSUME IInv, NEW t \in Task
  PROVE  /\ task \in [Task -> TaskRec] /\ task[t] \in TaskRec
         /\ Due(task[t]) /\ WasHad(task[t], had)
         /\ settled => Steady(task[t])
  BY DEF IInv, TypeOK, TaskRec, Exchange, TasksAreDue, StreamsAreSteady

(* A step that changes one waiting or ended task and nothing else.         *)
LEMMA OneTaskStep ==
  ASSUME IInv, NEW t \in Task, NEW r, task' = [task EXCEPT ![t] = r],
         task[t].list # "RECV", r.list # "RECV",
         Due(r), WasHad(r, had), settled => Steady(r),
         UNCHANGED <<at, conn, had, settled>>
  PROVE  Exchange' /\ task' \in [Task -> TaskRec]
  <1>1. task \in [Task -> TaskRec]
    BY DEF IInv, TypeOK, TaskRec
  <1>2. task' \in [Task -> TaskRec]
    BY <1>1 DEF Due
  <1>3. \A u \in Task : u # t => task'[u] = task[u]
    BY <1>1
  <1>4. task'[t] = r
    BY <1>1
  <1> QED BY <1>2, <1>3, <1>4, TasksStep DEF IInv

LEMMA NewTaskIInv ==
  ASSUME IInv, NEW t \in Task, NEW a \in Announcement, NewTask(t, a[1], a[2], a[3])
  PROVE  IInv'
  <1> DEFINE s == a[1] need == a[2] kind == a[3]
             have == at[s] > 0 /\ disk["file"] = Content(at[s])
             ends == kind = "del" \/ have
             list == IF ends THEN "FIN" ELSE IF need = "SYNC_ISDIR" THEN "Q_SYNC_DIR" ELSE "WAIT"
             r == [list |-> list, kind |-> kind, need |-> need, peer |-> s, ver |-> at[s],
                   off |-> 0, retry |-> 0, over |-> IF ends THEN "OK" ELSE "UNKNOWN",
                   tmp |-> <<>>]
  <1>1. /\ s \in Server /\ kind \in {"add", "del", "link"}
        /\ need \in {"SOURCE", "SYNC_ISDIR", "SRC_NOSYNC"}
    BY TransferAssumption DEF Server
  <1>2. task' = [task EXCEPT ![t] = r] /\ task[t].list = "HOME"
    <2> DEFINE new == [Blank EXCEPT !.kind = kind, !.need = need, !.peer = s, !.ver = at[s]]
               made == IF ends THEN [new EXCEPT !.list = "FIN", !.over = "OK"]
                       ELSE [new EXCEPT !.list = IF need = "SYNC_ISDIR" THEN "Q_SYNC_DIR"
                                                                        ELSE "WAIT"]
    <2>1. task' = [task EXCEPT ![t] = made] /\ t \in Home
      BY Zenon DEF NewTask
    <2>2. ends => made = r
      BY DEF Blank
    <2>3. ~ends => made = r
      BY DEF Blank
    <2>4. task[t].list = "HOME"
      BY <2>1 DEF Home
    <2> QED BY <2>1, <2>2, <2>3, <2>4, Zenon
  <1>3. at[s] \in 0 .. MaxVer /\ (kind # "del" => at[s] > 0)
    BY <1>1 DEF IInv, TypeOK, NewTask
  <1>4. have => at[s] \in had
    <2> SUFFICES ASSUME have PROVE at[s] \in had
      OBVIOUS
    <2>1. at[s] > 0 /\ "file" \in Name /\ disk["file"] = Content(at[s])
      BY DEF Name
    <2>2. at[s] \in Version
      BY <1>3, <2>1 DEF Version
    <2>3. Content(at[s]) # <<>>
      BY <2>2, ContentIsVersion
    <2>4. PICK v \in had : disk["file"] = Content(v)
      BY <2>1, <2>3 DEF IInv, Claims, DiskIsHad
    <2>5. v \in Version
      BY DEF IInv, TypeOK
    <2> QED BY <2>1, <2>2, <2>4, <2>5, ContentTells
  <1>5. r.list \in {"FIN", "Q_SYNC_DIR", "WAIT"}
    OBVIOUS
  <1>6. Due(r)
    BY <1>1, <1>3, TransferAssumption
       DEF Due, TaskRec, Lists, Overs, Awaiting, Sending, Version
  <1>7. WasHad(r, had)
    BY <1>4 DEF WasHad
  <1>8. settled => Steady(r)
    BY <1>1 DEF IInv, Exchange, StreamsAreSteady, Steady, Resumable
  <1>9. UNCHANGED <<at, conn, had, settled>>
    BY DEF NewTask
  <1>10. Exchange' /\ task' \in [Task -> TaskRec]
    BY <1>2, <1>5, <1>6, <1>7, <1>8, <1>9, OneTaskStep
  <1>11. DOMAIN disk' = Name /\ DiskIsHad'
    BY DEF NewTask, Deleted, IInv, TypeOK, Claims, DiskIsHad, Name
  <1>12. UNCHANGED <<at, conn, tick, online, full, stamp, told, had, settled>>
    BY DEF NewTask
  <1>13. TypeOK'
    BY <1>10, <1>11, <1>12 DEF IInv, TypeOK, TaskRec
  <1>14. Claims'
    BY <1>11, <1>12 DEF IInv, Claims, ToldIsHad, StampIsHad
  <1> QED BY <1>10, <1>13, <1>14 DEF IInv

(* What a step of tasks alone owes besides Exchange.                       *)
LEMMA QuietStep ==
  ASSUME IInv, Exchange', task' \in [Task -> TaskRec], UNCHANGED <<disk, at, stamp, told, had>>,
         tick' \in Nat, online' \subseteq Mate
  PROVE  IInv'
  <1>1. TypeOK'
    BY DEF IInv, TypeOK, TaskRec, Exchange, ConnsAreOpen, ConnRec
  <1>2. Claims'
    BY DEF IInv, Claims, DiskIsHad, ToldIsHad, StampIsHad
  <1> QED BY <1>1, <1>2 DEF IInv

LEMMA RetryFinIInv ==
  ASSUME IInv, NEW t \in Task, RetryFin(t) PROVE IInv'
  <1> DEFINE r == [task[t] EXCEPT !.list = "WAIT", !.over = "UNKNOWN", !.retry = @ + 1,
                                  !.peer = IF task[t].over = "E_MD5" THEN @ ELSE Origin]
  <1>1. /\ task[t] \in TaskRec /\ Due(task[t]) /\ WasHad(task[t], had)
        /\ settled => Steady(task[t])
    BY OneTask
  <1>2. task[t].list = "FIN" /\ task[t].over \in {"E_MD5", "E_OPEN_SRCFILE"}
    BY DEF RetryFin, MayRetry
  <1>3. task' = [task EXCEPT ![t] = r]
    BY <1>1, OneTask DEF RetryFin, TaskRec
  <1>4. Due(r)
    <2>1. task[t].kind # "del" /\ task[t].ver \in Version
      BY <1>1, <1>2 DEF Due
    <2>2. (IF task[t].over = "E_MD5" THEN task[t].peer ELSE Origin) \in Server
      BY <1>1 DEF TaskRec, Server
    <2>3. r \in TaskRec /\ r.kind = task[t].kind /\ r.ver = task[t].ver
          /\ r.list = "WAIT" /\ r.over = "UNKNOWN" /\ r.off = task[t].off
      <3> DEFINE p == IF task[t].over = "E_MD5" THEN task[t].peer ELSE Origin
      <3>1. r = [task[t] EXCEPT !.list = "WAIT", !.over = "UNKNOWN", !.retry = @ + 1, !.peer = p]
        BY <1>1 DEF TaskRec
      <3>2. p \in Server
        BY <2>2
      <3>3. task[t].retry + 1 \in Nat
        BY <1>1 DEF TaskRec
      <3> DEFINE n == task[t].retry + 1
      <3>4. r = [task[t] EXCEPT !.list = "WAIT", !.over = "UNKNOWN", !.retry = n, !.peer = p]
        BY <3>1
      <3> HIDE DEF p, r, n
      <3>5. r \in TaskRec
        BY <1>1, <3>2, <3>3, <3>4 DEF TaskRec, Lists, Overs, n
      <3> QED BY <1>1, <3>4, <3>5 DEF TaskRec
    <2> QED BY <1>1, <2>1, <2>3 DEF Due, Awaiting, Sending
  <1>5. WasHad(r, had) /\ r.list # "RECV"
    BY <1>1 DEF WasHad, TaskRec
  <1>6. ~settled
    BY <1>1, <1>2 DEF Steady
  <1>7. UNCHANGED <<at, conn, had, settled, disk, stamp, told, tick, online>>
    BY DEF RetryFin
  <1>8. Exchange' /\ task' \in [Task -> TaskRec]
    BY <1>2, <1>3, <1>4, <1>5, <1>6, <1>7, OneTaskStep
  <1> QED BY <1>7, <1>8, QuietStep DEF IInv, TypeOK

LEMMA PutOffIInv ==
  ASSUME IInv, NEW t \in Task, PutOff(t) PROVE IInv'
  <1> DEFINE r == [task[t] EXCEPT !.list = "DELAY"]
  <1>1. /\ task[t] \in TaskRec /\ Due(task[t]) /\ WasHad(task[t], had)
        /\ settled => Steady(task[t])
    BY OneTask
  <1>2. task[t].list = "FIN" /\ task' = [task EXCEPT ![t] = r]
    BY <1>1, OneTask DEF PutOff, TaskRec
  <1>3. Due(r) /\ WasHad(r, had) /\ r.list # "RECV" /\ (settled => Steady(r))
    BY <1>1, <1>2 DEF Due, WasHad, Steady, TaskRec, Lists, Awaiting, Sending
  <1>4. UNCHANGED <<at, conn, had, settled, disk, stamp, told, tick, online>>
    BY DEF PutOff
  <1>5. Exchange' /\ task' \in [Task -> TaskRec]
    BY <1>2, <1>3, <1>4, OneTaskStep
  <1> QED BY <1>4, <1>5, QuietStep DEF IInv, TypeOK

(* A slot goes home.                                                       *)
LEMMA FreedIInv ==
  ASSUME IInv, NEW t \in Task, Expire(t) \/ Reap(t) PROVE IInv'
  <1>1. task' = [task EXCEPT ![t] = Blank] /\ task[t].list # "RECV"
    BY DEF Expire, Reap
  <1>2. UNCHANGED <<at, conn, had, settled, disk, stamp, told, tick, online>>
    BY DEF Expire, Reap
  <1>3. Blank.list # "RECV"
    BY DEF Blank
  <1>4. Exchange' /\ task' \in [Task -> TaskRec]
    BY <1>1, <1>2, <1>3, BlankIsDue, BlankIsSteady, OneTaskStep
  <1> QED BY <1>2, <1>4, QuietStep DEF IInv, TypeOK

LEMMA TickBeginIInv ==
  ASSUME IInv, TickBegin PROVE IInv'
  <1>1. \A t \in Task : task'[t] = task[t] \/
           \E l \in {"WAIT", "Q_SYNC_DIR"} :
              /\ task[t].list \in {"WAIT_TMP", "Q_SYNC_DIR_TMP"}
              /\ task'[t] = [task[t] EXCEPT !.list = l]
    BY DEF TickBegin
  <1>2. ASSUME NEW r, NEW l \in {"WAIT", "Q_SYNC_DIR"}, NEW h, NEW q,
               r.list \in {"WAIT_TMP", "Q_SYNC_DIR_TMP"}, Due(r), WasHad(r, h),
               q = [r EXCEPT !.list = l]
        PROVE  q.list # "RECV" /\ Due(q) /\ WasHad(q, h) /\ (Steady(r) => Steady(q))
    BY <1>2 DEF Due, WasHad, Steady, Resumable, TaskRec, Lists, Awaiting, Sending
  <1>3. \A t \in Task : \/ task'[t] = task[t]
                        \/ /\ task[t].list # "RECV" /\ task'[t].list # "RECV"
                           /\ Due(task'[t]) /\ WasHad(task'[t], had)
                           /\ settled => Steady(task'[t])
    <2> TAKE t \in Task
    <2>1. CASE task'[t] = task[t]
      BY <2>1
    <2>2. ASSUME NEW l \in {"WAIT", "Q_SYNC_DIR"}, task[t].list \in {"WAIT_TMP", "Q_SYNC_DIR_TMP"},
                 task'[t] = [task[t] EXCEPT !.list = l]
          PROVE  /\ task[t].list # "RECV" /\ task'[t].list # "RECV"
                 /\ Due(task'[t]) /\ WasHad(task'[t], had)
                 /\ settled => Steady(task'[t])
      <3>1. Due(task[t]) /\ WasHad(task[t], had) /\ (settled => Steady(task[t]))
        BY OneTask
      <3> QED BY <1>2, <2>2, <3>1
    <2> QED BY <1>1, <2>1, <2>2
  <1>4. task' \in [Task -> TaskRec]
    <2>1. task' = [t \in Task |-> task'[t]]
      BY DEF TickBegin
    <2>2. \A t \in Task : task'[t] \in TaskRec
      BY <1>3, OneTask DEF Due
    <2> QED BY <2>1, <2>2
  <1>5. UNCHANGED <<at, conn, had, settled, disk, stamp, told, online>> /\ tick' \in Nat
    BY TransferAssumption DEF TickBegin
  <1>6. Exchange'
    BY <1>3, <1>4, <1>5, TasksStep DEF IInv
  <1> QED BY <1>4, <1>5, <1>6, QuietStep DEF IInv, TypeOK

LEMMA CheckTaskIInv ==
  ASSUME IInv, NEW t \in Task, CheckTask(t) PROVE IInv'
  <1>1. /\ task[t] \in TaskRec /\ Due(task[t]) /\ WasHad(task[t], had)
        /\ settled => Steady(task[t])
    BY OneTask
  <1>2. UNCHANGED <<at, conn, had, settled, disk, stamp, tick, online>>
    BY DEF CheckTask
  <1>3. ASSUME NEW l \in {"FIN", "WAIT_SYNC", "WAIT_SYNC_IP"},
               task' = [task EXCEPT ![t].list = l], told' = told,
               task[t].list \in {"DELAY", "WAIT_SYNC", "WAIT_SYNC_IP"},
               l = "FIN" \/ task[t].list \in Sending
        PROVE  IInv'
    <2> DEFINE r == [task[t] EXCEPT !.list = l]
    <2>1. task' = [task EXCEPT ![t] = r]
      BY <1>1, <1>3, OneTask DEF TaskRec
    <2>2. Due(r) /\ WasHad(r, had) /\ r.list # "RECV" /\ (settled => Steady(r))
      BY <1>1, <1>3 DEF Due, WasHad, Steady, TaskRec, Lists, Awaiting, Sending
    <2>3. Exchange' /\ task' \in [Task -> TaskRec]
      BY <1>2, <1>3, <2>1, <2>2, OneTaskStep
    <2> QED BY <1>2, <1>3, <2>3, QuietStep DEF IInv, TypeOK
  <1>4. ASSUME task[t].list = "WAIT_SYNC", task' = [task EXCEPT ![t] = Blank],
               told' = [told EXCEPT ![task[t].peer] = @ \cup {<<task[t].kind, task[t].ver>>}]
        PROVE  IInv'
    <2>1. Blank.list # "RECV"
      BY DEF Blank
    <2>2. Exchange' /\ task' \in [Task -> TaskRec]
      BY <1>2, <1>4, <2>1, BlankIsDue, BlankIsSteady, OneTaskStep
    <2>3. task[t].kind = "del" \/ task[t].ver \in had
      BY <1>1, <1>4 DEF Due, WasHad, Sending
    <2>4. ToldIsHad'
      BY <1>2, <1>4, <2>3 DEF IInv, Claims, ToldIsHad
    <2>5. Claims'
      BY <1>2, <2>4 DEF IInv, Claims, DiskIsHad, StampIsHad
    <2>6. TypeOK'
      BY <1>2, <2>2 DEF IInv, TypeOK, TaskRec
    <2> QED BY <2>2, <2>5, <2>6 DEF IInv
  <1> QED BY <1>3, <1>4 DEF CheckTask, Sending

(* A task that was to bring the file and has ended, somehow.               *)
LEMMA EndedIsDue ==
  ASSUME NEW r, Due(r), r.list \in Awaiting, NEW q \in TaskRec, q.list = "FIN",
         q.kind = r.kind, q.off = r.off, q.ver \in Version
  PROVE  Due(q)
  BY DEF Due, Awaiting, Sending

LEMMA SpareIInv ==
  ASSUME IInv, NEW t \in Task, Spare(t) PROVE IInv'
  <1>1. /\ task[t] \in TaskRec /\ Due(task[t]) /\ WasHad(task[t], had)
        /\ settled => Steady(task[t])
    BY OneTask
  <1>2. task[t].list \in {"WAIT", "Q_SYNC_DIR"} /\ tick' \in Nat
    BY DEF Spare, IsNext, IInv, TypeOK
  <1>3. UNCHANGED <<at, conn, had, settled, disk, stamp, told, online>>
    BY DEF Spare
  <1>4. task[t].kind # "del" /\ task[t].ver \in Version
    BY <1>1, <1>2 DEF Due, Awaiting
  <1>5. ASSUME task' = [Finished(t, "TOO_MANY_TRY") EXCEPT ![t].tmp = <<>>] PROVE IInv'
    <2> DEFINE r == [task[t] EXCEPT !.list = "FIN", !.over = "TOO_MANY_TRY", !.tmp = <<>>]
    <2>1. task' = [task EXCEPT ![t] = r]
      BY <1>1, <1>5, OneTask DEF Finished, TaskRec
    <2>2. Due(r) /\ WasHad(r, had) /\ r.list # "RECV" /\ (settled => Steady(r))
      <3>a. r \in TaskRec
        <4>1. <<>> \in Seq(Version) /\ "FIN" \in Lists /\ "TOO_MANY_TRY" \in Overs
          BY DEF Lists, Overs
        <4> QED BY <1>1, <4>1 DEF TaskRec
      <3>1. /\ r \in TaskRec /\ r.list = "FIN" /\ r.over = "TOO_MANY_TRY"
            /\ r.kind = task[t].kind /\ r.ver = task[t].ver /\ r.off = task[t].off
        BY <1>1, <3>a DEF TaskRec
      <3>2. task[t].list \in Awaiting
        BY <1>2 DEF Awaiting
      <3>3. Due(r)
        BY <1>1, <1>4, <3>1, <3>2, EndedIsDue
      <3> HIDE DEF r
      <3> QED BY <1>1, <1>2, <1>4, <3>1, <3>3 DEF WasHad, Steady, Awaiting
    <2>3. Exchange' /\ task' \in [Task -> TaskRec]
      BY <1>2, <1>3, <2>1, <2>2, OneTaskStep
    <2> QED BY <1>2, <1>3, <2>3, QuietStep DEF IInv, TypeOK
  <1>6. ASSUME task' = Finished(t, "OK"), disk["file"] = Content(task[t].ver) PROVE IInv'
    <2> DEFINE r == [task[t] EXCEPT !.list = "FIN", !.over = "OK"]
    <2>1. task' = [task EXCEPT ![t] = r]
      BY <1>1, <1>6, OneTask DEF Finished, TaskRec
    <2>2. task[t].ver \in had
      <3>1. PICK v \in had : disk["file"] = Content(v)
        BY <1>4, <1>6, ContentIsVersion DEF IInv, Claims, DiskIsHad, Name
      <3> QED BY <1>4, <1>6, <3>1, ContentTells DEF IInv, TypeOK
    <2>3. Due(r) /\ WasHad(r, had) /\ r.list # "RECV" /\ (settled => Steady(r))
      <3>1. /\ r \in TaskRec /\ r.list = "FIN" /\ r.over = "OK"
            /\ r.kind = task[t].kind /\ r.ver = task[t].ver /\ r.off = task[t].off
        BY <1>1 DEF TaskRec, Lists, Overs
      <3>2. task[t].list \in Awaiting
        BY <1>2 DEF Awaiting
      <3>3. Due(r)
        BY <1>1, <1>4, <3>1, <3>2, EndedIsDue
      <3> HIDE DEF r
      <3> QED BY <1>1, <1>2, <1>4, <2>2, <3>1, <3>3 DEF WasHad, Steady, Awaiting
    <2>4. Exchange' /\ task' \in [Task -> TaskRec]
      BY <1>2, <1>3, <2>1, <2>3, OneTaskStep
    <2> QED BY <1>2, <1>3, <2>4, QuietStep DEF IInv, TypeOK
  <1> QED BY <1>5, <1>6 DEF Spare

LEMMA PutAsideIInv ==
  ASSUME IInv, NEW t \in Task, PutAside(t) PROVE IInv'
  <1> DEFINE l == IF task[t].need = "SYNC_ISDIR" THEN "Q_SYNC_DIR_TMP" ELSE "WAIT_TMP"
             r == [task[t] EXCEPT !.list = l]
  <1>1. /\ task[t] \in TaskRec /\ Due(task[t]) /\ WasHad(task[t], had)
        /\ settled => Steady(task[t])
    BY OneTask
  <1>2. task[t].list \in {"WAIT", "Q_SYNC_DIR"} /\ tick' \in Nat
    BY DEF PutAside, IsDue, IsNext, IInv, TypeOK
  <1>3. UNCHANGED <<at, conn, had, settled, disk, stamp, told, online>>
    BY DEF PutAside
  <1>4. task' = [task EXCEPT ![t] = r] /\ l \in {"Q_SYNC_DIR_TMP", "WAIT_TMP"}
    BY <1>1, OneTask DEF PutAside, TaskRec
  <1>5. Due(r) /\ WasHad(r, had) /\ r.list # "RECV" /\ (settled => Steady(r))
    <2> HIDE DEF l
    <2> QED BY <1>1, <1>2, <1>4
        DEF Due, WasHad, Steady, Resumable, TaskRec, Lists, Awaiting, Sending
  <1>6. Exchange' /\ task' \in [Task -> TaskRec]
    BY <1>2, <1>3, <1>4, <1>5, OneTaskStep
  <1> QED BY <1>2, <1>3, <1>6, QuietStep DEF IInv, TypeOK

(* The slots that copies for absent mates take are free ones.              *)
LEMMA CopyingIsHome ==
  ASSUME NEW g \in Copying
  PROVE  DOMAIN g \subseteq Home /\ \A u \in DOMAIN g : g[u] \in Mate
  <1>1. PICK S \in SUBSET Home : g \in Injection(S, Mate \ online)
    BY DEF Copying
  <1>2. g \in [S -> Mate \ online]
    BY <1>1, Zenon DEF Injection
  <1> QED BY <1>2

LEMMA FinishIInv ==
  ASSUME IInv, NEW t \in Task, Finish(t) PROVE IInv'
  <1> DEFINE ok == IsGood(t)
             source == ok /\ task[t].need = "SOURCE"
             copy(m) == [Blank EXCEPT !.list = "WAIT_SYNC", !.kind = task[t].kind,
                                      !.ver = task[t].ver, !.retry = task[t].retry,
                                      !.over = task[t].over, !.peer = m]
             r == [task[t] EXCEPT !.list = "CLEAN"]
  <1>1. /\ task[t] \in TaskRec /\ Due(task[t]) /\ WasHad(task[t], had)
        /\ settled => Steady(task[t])
    BY OneTask
  <1>2. task[t].list = "FIN" /\ (ok <=> task[t].over = "OK")
    BY DEF Finish, IsGood
  <1>3. task[t].kind # "del" => task[t].ver \in Version /\ (ok => task[t].ver \in had)
    BY <1>1, <1>2 DEF Due, WasHad
  <1>4. PICK g \in IF source THEN Copying ELSE {<<>>} :
              task' = [Copies(t, g) EXCEPT ![t].list = "CLEAN"]
    BY Zenon DEF Finish
  <1>5. /\ DOMAIN g \subseteq Home /\ \A u \in DOMAIN g : g[u] \in Mate
        /\ DOMAIN g # {} => source
    <2>1. CASE source
      BY <2>1, <1>4, CopyingIsHome
    <2>2. CASE ~source
      BY <2>2, <1>4
    <2> QED BY <2>1, <2>2
  <1>6. /\ task'[t] = r
        /\ \A u \in Task : u # t => task'[u] = IF u \in DOMAIN g THEN copy(g[u]) ELSE task[u]
        /\ task' = [u \in Task |-> task'[u]]
    <2>1. t \notin DOMAIN g
      BY <1>2, <1>5 DEF Home
    <2>2. \A u \in Task : Copies(t, g)[u] = IF u \in DOMAIN g THEN copy(g[u]) ELSE task[u]
      BY DEF Copies
    <2>3. DOMAIN Copies(t, g) = Task
      BY DEF Copies
    <2> HIDE DEF copy
    <2> QED BY <1>4, <2>1, <2>2, <2>3
  <1>7. Due(r) /\ WasHad(r, had) /\ r.list # "RECV" /\ (settled => Steady(r))
    BY <1>1, <1>2 DEF Due, WasHad, Steady, TaskRec, Lists, Awaiting, Sending
  <1>8. ASSUME NEW m \in Mate, source
        PROVE  /\ Due(copy(m)) /\ WasHad(copy(m), had) /\ copy(m).list # "RECV"
               /\ settled => Steady(copy(m))
    <2> DEFINE q == copy(m)
    <2>1. /\ q \in TaskRec /\ q.list = "WAIT_SYNC" /\ q.over = task[t].over
          /\ q.kind = task[t].kind /\ q.ver = task[t].ver /\ q.off = 0
      BY <1>1, BlankIsDue DEF Due, TaskRec, Lists, Server, Blank
    <2> HIDE DEF copy, q
    <2>2. q = copy(m)
      BY DEF q
    <2> QED BY <1>1, <1>2, <1>3, <1>8, <2>1, <2>2 DEF Due, WasHad, Steady, Awaiting, Sending
  <1>9. \A u \in Task : \/ task'[u] = task[u]
                        \/ /\ task[u].list # "RECV" /\ task'[u].list # "RECV"
                           /\ Due(task'[u]) /\ WasHad(task'[u], had)
                           /\ settled => Steady(task'[u])
    <2> TAKE u \in Task
    <2>1. CASE u = t
      BY <1>2, <1>6, <1>7, <2>1
    <2>2. CASE u # t /\ u \in DOMAIN g
      <3>1. task[u].list = "HOME" /\ g[u] \in Mate /\ source /\ task'[u] = copy(g[u])
        BY <1>5, <1>6, <2>2 DEF Home
      <3> HIDE DEF copy
      <3> QED BY <1>8, <3>1
    <2>3. CASE u # t /\ u \notin DOMAIN g
      BY <1>6, <2>3
    <2> QED BY <2>1, <2>2, <2>3
  <1>10. task' \in [Task -> TaskRec]
    <2>1. \A u \in Task : task'[u] \in TaskRec
      BY <1>9, OneTask DEF Due
    <2> QED BY <1>6, <2>1
  <1>11. UNCHANGED <<at, conn, tick, online, full, had, settled>>
    BY DEF Finish
  <1>12. Exchange'
    BY <1>9, <1>10, <1>11, TasksStep DEF IInv
  <1>13. DOMAIN disk' = Name /\ DiskIsHad'
    <2>1. DOMAIN disk = Name /\ DiskIsHad
      BY DEF IInv, TypeOK, Claims
    <2> QED BY <1>11, <2>1 DEF Finish, Linked, DiskIsHad, Name
  <1>14. stamp' \in 0 .. MaxVer /\ StampIsHad'
    <2>1. stamp \in 0 .. MaxVer /\ StampIsHad
      BY DEF IInv, TypeOK, Claims
    <2>2. stamp' = stamp \/ (ok /\ task[t].kind # "del" /\ stamp' = task[t].ver)
      BY DEF Finish, Stamped
    <2> QED BY <1>3, <1>11, <2>1, <2>2, TransferAssumption DEF StampIsHad, Version
  <1>15. ToldIsHad'
    <2>1. ToldIsHad
      BY DEF IInv, Claims
    <2>2. \A m \in Mate : \A x \in told'[m] :
             x \in told[m] \/ (source /\ x = <<task[t].kind, task[t].ver>>)
      BY DEF Finish
    <2> QED BY <1>3, <1>11, <2>1, <2>2 DEF ToldIsHad
  <1>16. TypeOK'
    BY <1>10, <1>11, <1>13, <1>14 DEF IInv, TypeOK, TaskRec
  <1> QED BY <1>12, <1>13, <1>14, <1>15, <1>16 DEF IInv, Claims

----------------------------------------------------------------------------
(* Steps that change no task and no connection.                            *)
LEMMA RestIInv ==
  ASSUME IInv, UNCHANGED <<task, disk, conn, stamp, told, had>>,
         TickEnd \/ (\E m \in Mate : MateConn(m)) \/ DiskSpace
  PROVE  IInv'
  <1>1. UNCHANGED <<at, settled>> /\ tick' \in Nat /\ online' \subseteq Mate
    BY DEF TickEnd, MateConn, DiskSpace, IInv, TypeOK
  <1>2. Exchange'
    BY <1>1 DEF IInv, Exchange, TasksAreDue, ConnsAreOpen, RecvIsCarried, StreamsAreSteady
  <1> QED BY <1>1, <1>2, QuietStep DEF IInv, TypeOK, TaskRec

LEMMA PublishIInv ==
  ASSUME IInv, NEW s \in Server, Publish(s) PROVE IInv'
  <1>1. UNCHANGED <<task, disk, conn, tick, online, stamp, told, had>> /\ settled' = FALSE
    BY DEF Publish
  <1>2. at' \in [Server -> 0 .. MaxVer]
    <2>1. at[s] \in 0 .. MaxVer /\ MaxVer \in Nat
      BY TransferAssumption DEF IInv, TypeOK
    <2>2. (at[s] + 1) % (MaxVer + 1) \in 0 .. MaxVer
      BY <2>1
    <2> QED BY <2>2 DEF Publish, IInv, TypeOK
  <1>3. TypeOK'
    BY <1>1, <1>2 DEF IInv, TypeOK
  <1>4. Exchange'
    BY <1>1 DEF IInv, Exchange, TasksAreDue, ConnsAreOpen, RecvIsCarried, StreamsAreSteady
  <1>5. Claims'
    BY <1>1 DEF IInv, Claims, DiskIsHad, ToldIsHad, StampIsHad
  <1> QED BY <1>3, <1>4, <1>5 DEF IInv

(* What a step of one connection takes from IInv, and what it owes.        *)
LEMMA OneConn ==
  ASSUME IInv, NEW c \in Conn
  PROVE  /\ conn \in [Conn -> ConnRec] /\ conn[c] \in ConnRec /\ Open(conn[c])
         /\ conn[c].recvtask # NoTask =>
              LET t == conn[c].recvtask IN
              /\ t \in Task /\ task[t].list = "RECV"
              /\ settled => Flows(conn[c], task[t])
  BY DEF IInv, Exchange, ConnsAreOpen, ConnRec, RecvIsCarried, StreamsAreSteady

LEMMA OneConnStep ==
  ASSUME IInv, NEW c \in Conn, NEW t \in Task, NEW k, NEW r,
         conn' = [conn EXCEPT ![c] = k], task' = [task EXCEPT ![t] = r],
         conn[c].recvtask = t \/ (conn[c].recvtask = NoTask /\ task[t].list # "RECV"),
         (k.recvtask = t /\ r.list = "RECV") \/ (k.recvtask = NoTask /\ r.list # "RECV"),
         Open(k), Due(r), WasHad(r, had),
         settled => Steady(r) /\ (k.recvtask = t => Flows(k, r)),
         UNCHANGED <<disk, at, stamp, told, had, settled, online>>, tick' \in Nat
  PROVE  IInv'
  <1>1. Exchange'
    BY ConnStep DEF IInv
  <1>2. task' \in [Task -> TaskRec]
    BY DEF IInv, TypeOK, TaskRec, Due
  <1> QED BY <1>1, <1>2, QuietStep DEF IInv, TypeOK

LEMMA RequestIInv ==
  ASSUME IInv, NEW t \in Task, NEW c \in Conn, Request(t, c) PROVE IInv'
  <1> DEFINE q == [ver |-> task[t].ver, off |-> task[t].off, retry |-> task[t].retry]
             k == [Closed EXCEPT !.stat = "PREPARE_RECVFILE", !.peer = task[t].peer,
                                 !.recvtask = t, !.up = <<q>>]
             r == [task[t] EXCEPT !.list = "RECV"]
  <1>1. /\ task[t] \in TaskRec /\ Due(task[t]) /\ WasHad(task[t], had)
        /\ settled => Steady(task[t])
    BY OneTask
  <1>2. task[t].list \in {"WAIT", "Q_SYNC_DIR"} /\ tick' \in Nat
    BY DEF Request, IsDue, IsNext, IInv, TypeOK
  <1>3. conn' = [conn EXCEPT ![c] = k]
    BY Zenon DEF Request
  <1>4. task' = [task EXCEPT ![t] = r]
    BY <1>1, OneTask DEF Request, TaskRec
  <1>5. conn[c].recvtask = NoTask
    BY OneConn DEF Request, Idle, Open
  <1>6. task[t].kind # "del" /\ task[t].ver \in Version
    BY <1>1, <1>2 DEF Due, Awaiting
  <1>7. /\ k \in ConnRec /\ k.stat = "PREPARE_RECVFILE" /\ k.recvtask = t /\ k.last = 0
        /\ k.up = <<q>> /\ k.down = <<>>
    <2>1. q \in Req
      BY <1>1, <1>6 DEF Req, TaskRec
    <2> DEFINE u == <<q>>
    <2>2. u \in Seq(Req) /\ task[t].peer \in Server
      BY <1>1, <2>1 DEF TaskRec
    <2> HIDE DEF q, u
    <2>3. k = [Closed EXCEPT !.stat = "PREPARE_RECVFILE", !.peer = task[t].peer,
                             !.recvtask = t, !.up = u]
      BY DEF u
    <2> HIDE DEF k
    <2>4. /\ k \in ConnRec /\ k.stat = "PREPARE_RECVFILE" /\ k.recvtask = t /\ k.last = 0
          /\ k.up = u /\ k.down = <<>>
      <3>1. k = [stat |-> "PREPARE_RECVFILE", peer |-> task[t].peer, recvtask |-> t,
                 last |-> 0, len |-> 0, up |-> u, down |-> <<>>]
        BY <2>3 DEF Closed
      <3>2. <<>> \in Seq(Answer)
        OBVIOUS
      <3> QED BY <2>2, <3>1, <3>2 DEF ConnRec
    <2> QED BY <2>4 DEF u
  <1>8. Head(k.up) = q /\ k.up # <<>>
    BY <1>7
  <1>9. r.list = "RECV" /\ r.off = task[t].off /\ r.tmp = task[t].tmp /\ Due(r) /\ WasHad(r, had)
    BY <1>1, <1>2 DEF Due, WasHad, TaskRec, Lists, Awaiting, Sending
  <1>10. settled => Steady(r) /\ Flows(k, r)
    <2> SUFFICES ASSUME settled PROVE Steady(r) /\ Flows(k, r)
      OBVIOUS
    <2>1. Resumable(task[t]) /\ task[t].ver = 1
      BY <1>1, <1>2, <1>6 DEF Steady, Awaiting
    <2>2. Steady(r)
      BY <1>1, <1>2 DEF Steady, Awaiting, TaskRec
    <2>3. Resumable(r)
      BY <1>9, <2>1 DEF Resumable
    <2> HIDE DEF k, r
    <2>4. Head(k.up).ver = 1 /\ Head(k.up).off = r.off
      BY <1>8, <1>9, <2>1
    <2> QED BY <1>7, <1>8, <2>2, <2>3, <2>4 DEF Flows
  <1>11. Open(k)
    <2> HIDE DEF k
    <2> QED BY <1>7, <1>8, TransferAssumption DEF Open
  <1>12. UNCHANGED <<disk, at, stamp, told, had, settled, online>>
    BY DEF Request
  <1>13. conn[c].recvtask = NoTask /\ task[t].list # "RECV"
    BY <1>2, <1>5
  <1>14. k.recvtask = t /\ r.list = "RECV"
    BY <1>7, <1>9
  <1>15. settled => Steady(r) /\ (k.recvtask = t => Flows(k, r))
    BY <1>10
  <1> QED BY <1>2, <1>3, <1>4, <1>9, <1>11, <1>12, <1>13, <1>14, <1>15, OneConnStep

(* The only chunks there are while no file changes.                        *)
LEMMA OnesIsSeq ==
  ASSUME NEW n \in Nat PROVE Ones(n) \in Seq({1}) /\ Len(Ones(n)) = n
  BY DEF Ones

LEMMA OnesZero == Ones(0) = <<>>
  BY DEF Ones

LEMMA OnesTail ==
  ASSUME NEW n \in Nat, n > 0
  PROVE  Ones(n) # <<>> /\ Head(Ones(n)) = 1 /\ Tail(Ones(n)) = Ones(n - 1)
  <1>1. Ones(n) \in Seq({1}) /\ Len(Ones(n)) = n
    BY OnesIsSeq
  <1>2. Tail(Ones(n)) \in Seq({1}) /\ Len(Tail(Ones(n))) = n - 1
    BY <1>1
  <1>3. Ones(n - 1) \in Seq({1}) /\ Len(Ones(n - 1)) = n - 1
    BY OnesIsSeq
  <1>4. ASSUME NEW i \in 1 .. n - 1 PROVE Tail(Ones(n))[i] = Ones(n - 1)[i]
    BY <1>1, <1>4 DEF Ones
  <1> QED BY <1>1, <1>2, <1>3, <1>4, SeqEqual DEF Ones

LEMMA OnesAppend ==
  ASSUME NEW n \in Nat PROVE Append(Ones(n), 1) = Ones(n + 1)
  <1>1. Ones(n) \in Seq({1}) /\ Len(Ones(n)) = n
    BY OnesIsSeq
  <1>2. Append(Ones(n), 1) \in Seq({1}) /\ Len(Append(Ones(n), 1)) = n + 1
    BY <1>1
  <1>3. Ones(n + 1) \in Seq({1}) /\ Len(Ones(n + 1)) = n + 1
    BY OnesIsSeq
  <1>4. ASSUME NEW i \in 1 .. n + 1 PROVE Append(Ones(n), 1)[i] = Ones(n + 1)[i]
    BY <1>1, <1>4 DEF Ones
  <1> QED BY <1>2, <1>3, <1>4, SeqEqual

LEMMA OnesRest ==
  ASSUME NEW n \in Nat, NEW m \in 0 .. n
  PROVE  SubSeq(Ones(n), m + 1, n) = Ones(n - m)
  <1>1. Ones(n) \in Seq({1}) /\ Len(Ones(n)) = n
    BY OnesIsSeq
  <1>2. SubSeq(Ones(n), m + 1, n) = [i \in 1 .. n - m |-> Ones(n)[i + (m + 1) - 1]]
    BY <1>1
  <1>3. \A i \in 1 .. n - m : Ones(n)[i + (m + 1) - 1] = 1
    BY DEF Ones
  <1> QED BY <1>2, <1>3 DEF Ones

LEMMA OnesIsContent == Content(1) = Ones(Size[1]) /\ Size[1] \in Nat /\ Size[1] > 0 /\ 1 \in Version
  BY TransferAssumption DEF Content, Ones, Version

(* An element put before a sequence can be taken off it again.            *)
LEMMA Consed ==
  ASSUME NEW S, NEW h \in S, NEW d \in Seq(S)
  PROVE  /\ <<h>> \o d \in Seq(S) /\ <<h>> \o d # <<>>
         /\ Head(<<h>> \o d) = h /\ Tail(<<h>> \o d) = d
  <1>1. <<h>> \in Seq(S) /\ Len(<<h>>) = 1 /\ <<h>>[1] = h
    OBVIOUS
  <1>2. /\ <<h>> \o d \in Seq(S) /\ Len(<<h>> \o d) = 1 + Len(d)
        /\ (<<h>> \o d)[1] = h /\ \A i \in 1 .. Len(d) : (<<h>> \o d)[i + 1] = d[i]
    BY <1>1, ConcatProperties
  <1>3. <<h>> \o d # <<>> /\ Head(<<h>> \o d) = h
    BY <1>2
  <1>4. /\ Tail(<<h>> \o d) \in Seq(S) /\ Len(Tail(<<h>> \o d)) = Len(d)
        /\ \A i \in 1 .. Len(d) : Tail(<<h>> \o d)[i] = d[i]
    BY <1>2, <1>3, HeadTailProperties
  <1>5. Tail(<<h>> \o d) = d
    BY <1>4, SeqEqual
  <1> QED BY <1>2, <1>3, <1>5

(* The server's answer: a refusal, or a header and what the file has from  *)
(* the offset on; while no file changes, exactly what is missing.          *)
LEMMA SendTaskIInv ==
  ASSUME IInv, NEW c \in Conn, SendTask(c) PROVE IInv'
  <1> DEFINE t == conn[c].recvtask
             req == Head(conn[c].up)
             has == at[conn[c].peer]
             ver == IF CalcuMd5 \/ req.retry > 0 THEN has ELSE req.ver
             len == Size[ver] - req.off
             last == IF Size[ver] < Size[has] THEN Size[ver] ELSE Size[has]
             head == [ok |-> TRUE, ver |-> ver, len |-> len]
             data == SubSeq(ToRead(conn[c].peer), req.off + 1, last)
             down == IF has = 0 THEN <<[ok |-> FALSE]>> ELSE <<head>> \o data
             k == [conn[c] EXCEPT !.up = <<>>, !.down = down]
  <1>1. /\ conn \in [Conn -> ConnRec] /\ conn[c] \in ConnRec /\ Open(conn[c])
    BY OneConn
  <1>2. conn[c].up # <<>>
    BY DEF SendTask
  <1>3. conn[c].stat = "PREPARE_RECVFILE" /\ t # NoTask /\ conn[c].last = 0
    BY <1>1, <1>2 DEF Open, ConnRec, Replied
  <1>4. t \in Task /\ task[t].list = "RECV" /\ (settled => Flows(conn[c], task[t]))
    BY <1>3, OneConn
  <1>5. task \in [Task -> TaskRec] /\ Due(task[t]) /\ WasHad(task[t], had) /\ (settled => Steady(task[t]))
    BY <1>4, OneTask
  <1>6. conn' = [conn EXCEPT ![c] = k]
    <2>1. conn' = [conn EXCEPT ![c].up = <<>>, ![c].down = down]
      BY Zenon DEF SendTask
    <2> HIDE DEF down
    <2> QED BY <1>1, <2>1 DEF ConnRec
  <1>7. req \in Req
    BY <1>1, <1>2 DEF ConnRec
  <1>8. has \in 0 .. MaxVer /\ MaxVer \in Nat
    BY <1>1, TransferAssumption DEF IInv, TypeOK, ConnRec
  <1>9. ASSUME has # 0
        PROVE  /\ head \in Header /\ data \in Seq(Version) /\ down \in Seq(Answer)
               /\ down # <<>> /\ Head(down) = head /\ Tail(down) = data
    <2>1. has \in Version /\ ver \in Version
      BY <1>7, <1>8, <1>9 DEF Req, Version
    <2>2. Size[has] \in Nat /\ Size[ver] \in Nat
      BY <2>1, TransferAssumption
    <2>3. last \in Nat /\ last <= Size[has] /\ req.off \in Nat
      BY <1>7, <2>2 DEF Req
    <2>4. head \in Header
      BY <2>1, <2>2, <2>3 DEF Header
    <2>5. data \in Seq(Version)
      <3>1. \A i \in req.off + 1 .. last : ToRead(conn[c].peer)[i] = has
        BY <2>2, <2>3 DEF ToRead, Content
      <3> HIDE DEF has, last, req
      <3> QED BY <2>1, <2>3, <3>1, SubSeqProperties
    <2> DEFINE h == head d == data
    <2> HIDE DEF h, d
    <2>6. h \in Answer /\ d \in Seq(Answer)
      <3>1. Version \subseteq Answer /\ Header \subseteq Answer
        BY DEF Answer
      <3>2. h \in Header /\ d \in Seq(Version)
        BY <2>4, <2>5 DEF h, d
      <3>3. Seq(Version) \subseteq Seq(Answer)
        <4> HIDE DEF Version, Answer
        <4> QED BY <3>1
      <3> QED BY <3>1, <3>2, <3>3
    <2>7. <<h>> \o d \in Seq(Answer) /\ <<h>> \o d # <<>> /\ Head(<<h>> \o d) = h /\ Tail(<<h>> \o d) = d
      BY <2>6, Consed, Zenon
    <2> QED BY <1>9, <2>4, <2>5, <2>7 DEF h, d
  <1>10. ASSUME has = 0
         PROVE  /\ down \in Seq(Answer) /\ down # <<>>
                /\ Head(down) \in Refusal /\ Tail(down) \in Seq(Version)
    <2> DEFINE h == [ok |-> FALSE]
    <2>1. h \in Refusal /\ h \in Answer
      BY DEF Refusal, Answer
    <2> HIDE DEF h
    <2>2. <<h>> \in Seq(Answer) /\ <<h>> # <<>> /\ Head(<<h>>) = h /\ Tail(<<h>>) = <<>>
      <3>1. <<>> \in Seq(Answer) /\ <<h>> \o <<>> = <<h>>
        BY <2>1
      <3> QED BY <2>1, <3>1, Consed, Zenon
    <2>3. <<>> \in Seq(Version)
      OBVIOUS
    <2> QED BY <1>10, <2>1, <2>2, <2>3 DEF h
  <1>11. /\ k \in ConnRec /\ k.stat = "PREPARE_RECVFILE" /\ k.recvtask = t /\ k.last = 0
         /\ k.up = <<>> /\ k.down = down
    <2> HIDE DEF down, has
    <2>1. down \in Seq(Answer)
      BY <1>9, <1>10, Zenon
    <2>2. <<>> \in Seq(Req)
      OBVIOUS
    <2> QED BY <1>1, <1>3, <2>1, <2>2 DEF ConnRec
  <1>12. Open(k)
    <2> HIDE DEF down, k, has, head, data
    <2>1. /\ down # <<>> /\ Head(down) \in Refusal \cup Header
          /\ Tail(down) \in Seq(Version)
      BY <1>9, <1>10
    <2> QED BY <1>3, <1>11, <2>1 DEF Open, Replied
  <1>13. settled => Flows(k, task[t])
    <2> SUFFICES ASSUME settled PROVE Flows(k, task[t])
      OBVIOUS
    <2>1. has = 1
      BY <1>1 DEF IInv, Exchange, StreamsAreSteady, ConnRec
    <2>2. Resumable(task[t]) /\ req.ver = 1 /\ req.off = task[t].off
      BY <1>2, <1>3, <1>4 DEF Flows
    <2>3. ver = 1 /\ last = Size[1] /\ len = Size[1] - task[t].off
      BY <2>1, <2>2
    <2>4. task[t].off \in 0 .. Size[1]
      BY <1>4, <1>5, <2>2, OnesIsContent DEF Resumable, TaskRec
    <2>5. data = Ones(Size[1] - task[t].off)
      <3>1. ToRead(conn[c].peer) = Ones(Size[1])
        BY <2>1, OnesIsContent DEF ToRead
      <3> HIDE DEF last
      <3> QED BY <2>2, <2>3, <2>4, <3>1, OnesIsContent, OnesRest
    <2>6. head = [ok |-> TRUE, ver |-> 1, len |-> Size[1] - task[t].off]
      BY <2>3
    <2> HIDE DEF down, k, head, data, has
    <2>7. Head(down) = head /\ Tail(down) = data
      BY <1>9, <2>1
    <2> QED BY <1>11, <2>2, <2>5, <2>6, <2>7 DEF Flows
  <1>14. UNCHANGED <<task, disk, at, stamp, told, had, settled, online, tick>>
    BY DEF SendTask
  <1>15. task' = [task EXCEPT ![t] = task[t]] /\ tick' \in Nat
    BY <1>4, <1>5, <1>14 DEF IInv, TypeOK
  <1>16. UNCHANGED <<disk, at, stamp, told, had, settled, online>>
    BY <1>14
  <1> HIDE DEF k, t
  <1> QED BY <1>4, <1>5, <1>6, <1>11, <1>12, <1>13, <1>15, <1>16, OneConnStep DEF t

(* Nothing is on a closed connection, so its task may do anything else.    *)
LEMMA ClosedIsOpen == Open(Closed) /\ Closed.recvtask = NoTask
  <1>1. Closed \in ConnRec
    <2>1. <<>> \in Seq(Req) /\ <<>> \in Seq(Answer)
      OBVIOUS
    <2> QED BY <2>1 DEF Closed, ConnRec, Server
  <1> QED BY <1>1 DEF Open, Closed

LEMMA RecvTaskIInv ==
  ASSUME IInv, NEW c \in Conn, RecvTask(c) PROVE IInv'
  <1> DEFINE t == conn[c].recvtask
             rsp == Head(conn[c].down)
  <1>1. /\ conn \in [Conn -> ConnRec] /\ conn[c] \in ConnRec /\ Open(conn[c])
    BY OneConn
  <1>2. conn[c].stat = "PREPARE_RECVFILE" /\ conn[c].down # <<>>
    BY DEF RecvTask
  <1>3. t # NoTask /\ Replied(conn[c])
    BY <1>1, <1>2 DEF Open
  <1>4. t \in Task /\ task[t].list = "RECV" /\ (settled => Flows(conn[c], task[t]))
    BY <1>3, OneConn
  <1>5. /\ task \in [Task -> TaskRec] /\ task[t] \in TaskRec /\ Due(task[t])
        /\ WasHad(task[t], had) /\ (settled => Steady(task[t]))
    BY <1>4, OneTask
  <1>6. task[t].over = "UNKNOWN" /\ task[t].kind # "del" /\ task[t].ver \in Version
        /\ task[t].list \in Awaiting
    BY <1>4, <1>5 DEF Due, Awaiting
  <1>7. rsp \in Refusal \cup Header /\ (settled => rsp \in Header /\ rsp.ver = 1)
    <2>1. rsp \in Refusal \cup Header
      BY <1>3 DEF Replied
    <2>2. settled => rsp = [ok |-> TRUE, ver |-> 1, len |-> Size[1] - task[t].off]
      BY <1>2, <1>3, <1>4 DEF Flows, Replied
    <2> HIDE DEF rsp
    <2>3. settled => rsp.ok = TRUE /\ rsp.ver = 1
      BY <2>2
    <2>4. rsp \in Refusal => rsp.ok = FALSE
      BY DEF Refusal
    <2> QED BY <2>1, <2>3, <2>4
  <1>8. UNCHANGED <<disk, at, stamp, told, had, settled, online>> /\ tick' \in Nat
    BY DEF RecvTask, IInv, TypeOK
  <1>9. ASSUME NEW o \in {"E_OPEN_SRCFILE", "E_OPEN_DSTFILE"}, RefusedBy(c, o),
               o = "E_OPEN_SRCFILE" => ~settled
        PROVE  IInv'
    <2> DEFINE r == [task[t] EXCEPT !.list = "FIN", !.over = o]
    <2>1. conn' = [conn EXCEPT ![c] = Closed] /\ task' = [task EXCEPT ![t] = r]
      BY <1>5, <1>9 DEF RefusedBy, Finished, TaskRec
    <2>2. /\ r \in TaskRec /\ r.list = "FIN" /\ r.over = o
          /\ r.kind = task[t].kind /\ r.ver = task[t].ver /\ r.off = task[t].off
      BY <1>5, <1>9 DEF TaskRec, Lists, Overs
    <2> HIDE DEF r
    <2>3. Due(r)
      BY <1>5, <1>6, <2>2, EndedIsDue
    <2>4. WasHad(r, had)
      BY <1>9, <2>2 DEF WasHad
    <2>5. settled => Steady(r) /\ (Closed.recvtask = t => Flows(Closed, r))
      BY <1>3, <1>4, <1>5, <1>9, <2>2, ClosedIsOpen DEF Steady, Awaiting
    <2>6. Closed.recvtask = NoTask /\ r.list # "RECV"
      BY <2>2, ClosedIsOpen
    <2> QED BY <1>4, <1>8, <2>1, <2>3, <2>4, <2>5, <2>6, ClosedIsOpen, OneConnStep
  <1>10. ASSUME rsp.ok, rsp \in Header,
                task' = [task EXCEPT ![t].ver = rsp.ver, ![t].tmp = OpenTmp(t)],
                conn' = [conn EXCEPT ![c].stat = "RECVFILEING", ![c].last = 0,
                                     ![c].len = rsp.len, ![c].down = Tail(@)]
         PROVE  IInv'
    <2> DEFINE tmp == OpenTmp(t)
               r == [task[t] EXCEPT !.ver = rsp.ver, !.tmp = tmp]
               down == Tail(conn[c].down)
               k == [conn[c] EXCEPT !.stat = "RECVFILEING", !.last = 0, !.len = rsp.len,
                                    !.down = down]
    <2>1. task' = [task EXCEPT ![t] = r] /\ tmp \in Seq(Version)
      <3>1. tmp \in Seq(Version)
        BY <1>5 DEF OpenTmp, TaskRec
      <3> HIDE DEF tmp
      <3>2. task' = [task EXCEPT ![t].ver = rsp.ver, ![t].tmp = tmp]
        BY <1>10 DEF tmp
      <3> HIDE DEF rsp
      <3> QED BY <1>5, <3>1, <3>2 DEF TaskRec
    <2>2. conn' = [conn EXCEPT ![c] = k]
      BY <1>1, <1>10 DEF ConnRec
    <2>3. rsp.ver \in Version /\ rsp.len \in Int
      BY <1>10 DEF Header
    <2>4. /\ r \in TaskRec /\ r.list = "RECV" /\ r.over = "UNKNOWN" /\ r.ver = rsp.ver
          /\ r.kind = task[t].kind /\ r.off = task[t].off /\ r.tmp = tmp
      <3>1. rsp.ver \in 0 .. MaxVer
        BY <2>3 DEF Version
      <3> HIDE DEF tmp, rsp
      <3> QED BY <1>4, <1>5, <1>6, <2>1, <3>1 DEF TaskRec
    <2>5. down \in Seq(Version) /\ down \in Seq(Answer)
      <3>1. down \in Seq(Version)
        BY <1>3 DEF Replied
      <3> HIDE DEF down
      <3> QED BY <3>1 DEF Answer
    <2>6. /\ k \in ConnRec /\ k.stat = "RECVFILEING" /\ k.recvtask = t /\ k.up = <<>>
          /\ k.last = 0 /\ k.len = rsp.len /\ k.down = down
      <3>1. conn[c].up = <<>>
        BY <1>3 DEF Replied
      <3> HIDE DEF down, rsp
      <3> QED BY <1>1, <1>3, <2>3, <2>5, <3>1 DEF ConnRec
    <2> HIDE DEF k, r
    <2>7. Due(r) /\ WasHad(r, had)
      BY <1>5, <1>6, <2>3, <2>4 DEF Due, WasHad, Awaiting, Sending
    <2>8. Open(k)
      BY <1>3, <2>5, <2>6 DEF Open
    <2>9. settled => Steady(r) /\ Flows(k, r)
      <3> SUFFICES ASSUME settled PROVE Steady(r) /\ Flows(k, r)
        OBVIOUS
      <3>1. /\ Resumable(task[t]) /\ rsp.ver = 1 /\ rsp.len = Size[1] - task[t].off
            /\ down = Ones(Size[1] - task[t].off)
        BY <1>2, <1>3, <1>4 DEF Flows, Replied
      <3>2. Steady(r)
        BY <1>5, <1>6, <2>4, <3>1 DEF Steady, Awaiting
      <3>3. tmp = Ones(task[t].off) /\ task[t].off < Size[1] /\ task[t].off \in Nat
        BY <1>5, <3>1, OnesZero, OnesIsContent DEF OpenTmp, Resumable, TaskRec
      <3>4. /\ k.len = Size[1] - r.off /\ k.last < k.len /\ r.tmp = Ones(r.off + k.last)
            /\ k.down = Ones(k.len - k.last)
        <4> HIDE DEF tmp, down, rsp
        <4> QED BY <2>4, <2>6, <3>1, <3>3, OnesIsContent
      <3> QED BY <2>6, <3>2, <3>4 DEF Flows
    <2>10. k.recvtask = t /\ r.list = "RECV"
      BY <2>4, <2>6
    <2>11. settled => Steady(r) /\ (k.recvtask = t => Flows(k, r))
      BY <2>9
    <2> QED BY <1>4, <1>8, <2>1, <2>2, <2>7, <2>8, <2>10, <2>11, OneConnStep
  <1>11. rsp.ok = TRUE \/ rsp.ok = FALSE
    BY <1>7 DEF Refusal, Header
  <1>12. rsp.ok => rsp \in Header
    BY <1>7 DEF Refusal
  <1>13. settled => rsp.ok
    BY <1>7 DEF Header
  <1>14. \/ ~rsp.ok /\ RefusedBy(c, "E_OPEN_SRCFILE")
         \/ rsp.ok /\ RefusedBy(c, "E_OPEN_DSTFILE")
         \/ /\ rsp.ok
            /\ task' = [task EXCEPT ![t].ver = rsp.ver, ![t].tmp = OpenTmp(t)]
            /\ conn' = [conn EXCEPT ![c].stat = "RECVFILEING", ![c].last = 0,
                 ![c].len = rsp.len, ![c].down = Tail(@)]
    BY Zenon DEF RecvTask
  <1> QED BY <1>9, <1>10, <1>11, <1>12, <1>13, <1>14

(* A chunk arrives; what is received last is the file or it is thrown away.*)
LEMMA RecvDataIInv ==
  ASSUME IInv, NEW c \in Conn, RecvData(c) PROVE IInv'
  <1> DEFINE t == conn[c].recvtask
             got == Append(task[t].tmp, Head(conn[c].down))
             done == conn[c].last + 1 >= conn[c].len
             good == Md5Ok(t, got)
             rest == Tail(conn[c].down)
  <1>1. /\ conn \in [Conn -> ConnRec] /\ conn[c] \in ConnRec /\ Open(conn[c])
    BY OneConn
  <1>2. conn[c].stat = "RECVFILEING" /\ conn[c].down # <<>>
    BY DEF RecvData
  <1>3. t # NoTask /\ conn[c].up = <<>> /\ conn[c].down \in Seq(Version)
    BY <1>1, <1>2 DEF Open
  <1>4. t \in Task /\ task[t].list = "RECV" /\ (settled => Flows(conn[c], task[t]))
    BY <1>3, OneConn
  <1>5. /\ task \in [Task -> TaskRec] /\ task[t] \in TaskRec /\ Due(task[t])
        /\ WasHad(task[t], had) /\ (settled => Steady(task[t]))
    BY <1>4, OneTask
  <1>6. task[t].over = "UNKNOWN" /\ task[t].kind # "del" /\ task[t].ver \in Version
        /\ task[t].list \in Awaiting
    BY <1>4, <1>5 DEF Due, Awaiting
  <1>7. got \in Seq(Version) /\ rest \in Seq(Version)
    BY <1>2, <1>3, <1>5 DEF TaskRec
  <1>8. UNCHANGED <<at, settled, online>> /\ tick' \in Nat
    BY DEF RecvData, IInv, TypeOK
  <1>9. settled =>
          /\ conn[c].len = Size[1] - task[t].off /\ conn[c].last < conn[c].len
          /\ conn[c].last \in Nat /\ task[t].off \in Nat /\ task[t].ver = 1
          /\ got = Ones(task[t].off + conn[c].last + 1)
          /\ rest = Ones(conn[c].len - conn[c].last - 1)
    <2> SUFFICES ASSUME settled
                 PROVE  /\ conn[c].len = Size[1] - task[t].off /\ conn[c].last < conn[c].len
                        /\ conn[c].last \in Nat /\ task[t].off \in Nat /\ task[t].ver = 1
                        /\ got = Ones(task[t].off + conn[c].last + 1)
                        /\ rest = Ones(conn[c].len - conn[c].last - 1)
      OBVIOUS
    <2> DEFINE n == task[t].off + conn[c].last
               m == conn[c].len - conn[c].last
    <2>1. /\ conn[c].len = Size[1] - task[t].off /\ conn[c].last < conn[c].len
          /\ task[t].tmp = Ones(n) /\ conn[c].down = Ones(m)
      BY <1>2, <1>4 DEF Flows
    <2>2. conn[c].last \in Nat /\ task[t].off \in Nat
      BY <1>1, <1>5 DEF ConnRec, TaskRec
    <2>3. n \in Nat /\ m \in Nat /\ m > 0
      BY <2>1, <2>2, OnesIsContent
    <2>4. task[t].ver = 1
      BY <1>4, <1>5, <1>6 DEF Steady
    <2> HIDE DEF n, m
    <2>5. got = Ones(n + 1) /\ rest = Ones(m - 1)
      BY <2>1, <2>3, OnesTail, OnesAppend
    <2> QED BY <2>1, <2>2, <2>4, <2>5 DEF n, m
  <1> HIDE DEF got, rest
  <1>10. ASSUME ~done, task' = [task EXCEPT ![t].tmp = got],
                conn' = [conn EXCEPT ![c].last = @ + 1, ![c].down = rest],
                UNCHANGED <<disk, stamp, had, told>>
         PROVE  IInv'
    <2> DEFINE r == [task[t] EXCEPT !.tmp = got]
               k == [conn[c] EXCEPT !.last = @ + 1, !.down = rest]
    <2>1. task' = [task EXCEPT ![t] = r] /\ conn' = [conn EXCEPT ![c] = k]
      BY <1>1, <1>5, <1>10 DEF TaskRec, ConnRec
    <2>2. /\ r \in TaskRec /\ r.list = "RECV" /\ r.over = "UNKNOWN" /\ r.ver = task[t].ver
          /\ r.kind = task[t].kind /\ r.off = task[t].off /\ r.tmp = got
      BY <1>4, <1>5, <1>6, <1>7 DEF TaskRec
    <2>3. rest \in Seq(Answer)
      BY <1>7 DEF Answer
    <2>4. /\ k \in ConnRec /\ k.stat = "RECVFILEING" /\ k.recvtask = t /\ k.up = <<>>
          /\ k.last = conn[c].last + 1 /\ k.len = conn[c].len /\ k.down = rest
      <3> DEFINE n == conn[c].last + 1
      <3>1. n \in Nat
        BY <1>1 DEF ConnRec
      <3>2. k = [conn[c] EXCEPT !.last = n, !.down = rest]
        BY <1>1 DEF ConnRec
      <3> HIDE DEF n, k
      <3>3. /\ k \in ConnRec /\ k.stat = "RECVFILEING" /\ k.recvtask = t /\ k.up = <<>>
            /\ k.last = n /\ k.len = conn[c].len /\ k.down = rest
        BY <1>1, <1>2, <1>3, <2>3, <3>1, <3>2 DEF ConnRec
      <3> QED BY <3>3 DEF n
    <2> HIDE DEF r, k
    <2>5. Due(r) /\ WasHad(r, had)
      BY <1>5, <1>6, <2>2 DEF Due, WasHad, Awaiting, Sending
    <2>6. Open(k)
      BY <1>3, <1>7, <2>4 DEF Open
    <2>7. settled => Steady(r) /\ (k.recvtask = t => Flows(k, r))
      <3> SUFFICES ASSUME settled PROVE Steady(r) /\ Flows(k, r)
        OBVIOUS
      <3>1. Steady(r)
        BY <1>9, <2>2 DEF Steady, Awaiting
      <3>2. k.len = Size[1] - r.off /\ k.last < k.len
        BY <1>9, <1>10, <2>2, <2>4, OnesIsContent
      <3>3. r.tmp = Ones(r.off + k.last) /\ k.down = Ones(k.len - k.last)
        <4>1. r.off + k.last = task[t].off + conn[c].last + 1
          BY <1>9, <2>2, <2>4
        <4>2. k.len - k.last = conn[c].len - conn[c].last - 1
          BY <1>9, <2>4, OnesIsContent
        <4> QED BY <1>9, <2>2, <2>4, <4>1, <4>2
      <3> QED BY <2>4, <3>1, <3>2, <3>3 DEF Flows
    <2>8. k.recvtask = t /\ r.list = "RECV"
      BY <2>2, <2>4
    <2>9. UNCHANGED <<disk, at, stamp, told, had, settled, online>>
      BY <1>8, <1>10
    <2> QED BY <1>4, <1>8, <2>1, <2>5, <2>6, <2>7, <2>8, <2>9, OneConnStep
  <1>11. ASSUME done, good, disk' = MovedIn(t, got), stamp' \in Stamped(task[t].ver),
                had' = had \cup {v \in Version : got = Content(v)}, told' = told,
                task' = [Finished(t, "OK") EXCEPT ![t].tmp = <<>>],
                conn' = [conn EXCEPT ![c].stat = "IDLE", ![c].recvtask = NoTask,
                                     ![c].down = <<>>]
         PROVE  IInv'
    <2> DEFINE r == [task[t] EXCEPT !.list = "FIN", !.over = "OK", !.tmp = <<>>]
               k == [conn[c] EXCEPT !.stat = "IDLE", !.recvtask = NoTask, !.down = <<>>]
    <2>1. task' = [task EXCEPT ![t] = r] /\ conn' = [conn EXCEPT ![c] = k]
      BY <1>1, <1>5, <1>11 DEF Finished, TaskRec, ConnRec
    <2>2. /\ r \in TaskRec /\ r.list = "FIN" /\ r.over = "OK" /\ r.ver = task[t].ver
          /\ r.kind = task[t].kind /\ r.off = task[t].off
      <3>1. <<>> \in Seq(Version) /\ "FIN" \in Lists /\ "OK" \in Overs
        BY DEF Lists, Overs
      <3> QED BY <1>5, <3>1 DEF TaskRec
    <2>3. /\ k \in ConnRec /\ k.stat = "IDLE" /\ k.recvtask = NoTask /\ k.up = <<>>
          /\ k.down = <<>>
      <3>1. <<>> \in Seq(Answer)
        OBVIOUS
      <3> QED BY <1>1, <1>3, <3>1 DEF ConnRec
    <2> HIDE DEF r, k
    <2>4. task[t].ver \in had' /\ got = Content(task[t].ver)
      BY <1>6, <1>11 DEF Md5Ok
    <2>5. Due(r) /\ WasHad(r, had')
      BY <1>5, <1>6, <2>2, <2>4, EndedIsDue DEF WasHad
    <2>6. Open(k)
      BY <2>3 DEF Open
    <2>7. settled => Steady(r) /\ (k.recvtask = t => Flows(k, r))
      BY <1>3, <1>9, <2>2, <2>3 DEF Steady, Awaiting
    <2>8. k.recvtask = NoTask /\ r.list # "RECV"
      BY <2>2, <2>3
    <2>9. had \subseteq had'
      BY <1>11
    <2>10. Exchange'
      BY <1>4, <1>8, <2>1, <2>5, <2>6, <2>7, <2>8, <2>9, ConnStep DEF IInv
    <2>11. task' \in [Task -> TaskRec]
      BY <1>5, <2>1, <2>2
    <2>12. disk' = [disk EXCEPT !["file"] = Content(task[t].ver)]
      BY <1>11, <2>4 DEF MovedIn
    <2>13. DOMAIN disk' = Name /\ DiskIsHad'
      BY <2>4, <2>9, <2>12 DEF IInv, TypeOK, Claims, DiskIsHad, Name
    <2>14. stamp' = stamp \/ stamp' = task[t].ver
      BY <1>11 DEF Stamped
    <2>15. stamp' \in 0 .. MaxVer /\ StampIsHad'
      BY <1>6, <2>4, <2>9, <2>14 DEF IInv, TypeOK, Claims, StampIsHad, Version
    <2>16. ToldIsHad'
      BY <1>11, <2>9 DEF IInv, Claims, ToldIsHad
    <2>17. had' \subseteq Version
      BY <1>11 DEF IInv, TypeOK
    <2>18. \A d \in Conn : conn'[d].recvtask \in Task \cup {NoTask}
      BY <2>10 DEF Exchange, ConnsAreOpen, ConnRec
    <2>19. TypeOK'
      BY <1>8, <2>11, <2>13, <2>15, <2>17, <2>18 DEF IInv, TypeOK, TaskRec
    <2> QED BY <2>10, <2>13, <2>15, <2>16, <2>19 DEF IInv, Claims
  <1>12. ASSUME done, ~good, UNCHANGED <<disk, stamp, had, told>>,
                task' = [Finished(t, "E_MD5") EXCEPT ![t].tmp = got],
                conn' = [conn EXCEPT ![c] = Closed]
         PROVE  IInv'
    <2> DEFINE r == [task[t] EXCEPT !.list = "FIN", !.over = "E_MD5", !.tmp = got]
    <2>1. task' = [task EXCEPT ![t] = r]
      BY <1>5, <1>12 DEF Finished, TaskRec
    <2>2. /\ r \in TaskRec /\ r.list = "FIN" /\ r.over = "E_MD5" /\ r.ver = task[t].ver
          /\ r.kind = task[t].kind /\ r.off = task[t].off
      <3>1. "FIN" \in Lists /\ "E_MD5" \in Overs
        BY DEF Lists, Overs
      <3> QED BY <1>5, <1>7, <3>1 DEF TaskRec
    <2> HIDE DEF r
    <2>3. Due(r) /\ WasHad(r, had)
      BY <1>5, <1>6, <2>2, EndedIsDue DEF WasHad
    <2>4. ~settled
      <3> SUFFICES ASSUME settled PROVE FALSE
        OBVIOUS
      <3>1. task[t].off + conn[c].last + 1 = Size[1]
        BY <1>9, <1>12, OnesIsContent
      <3> QED BY <1>9, <1>12, <3>1, OnesIsContent DEF Md5Ok
    <2>5. Closed.recvtask = NoTask /\ r.list # "RECV"
      BY <2>2, ClosedIsOpen
    <2>6. UNCHANGED <<disk, at, stamp, told, had, settled, online>>
      BY <1>8, <1>12
    <2> QED BY <1>4, <1>8, <1>12, <2>1, <2>3, <2>4, <2>5, <2>6, ClosedIsOpen, OneConnStep
  <1>13. told' = told
    BY DEF RecvData
  <1>14. \/ /\ ~done
            /\ task' = [task EXCEPT ![t].tmp = got]
            /\ conn' = [conn EXCEPT ![c].last = @ + 1, ![c].down = Tail(@)]
            /\ UNCHANGED <<disk, stamp, had>>
         \/ /\ done /\ good
            /\ disk' = MovedIn(t, got)
            /\ stamp' \in Stamped(task[t].ver)
            /\ had' = had \cup {v \in Version : got = Content(v)}
            /\ task' = [Finished(t, "OK") EXCEPT ![t].tmp = <<>>]
            /\ conn' = [conn EXCEPT ![c].stat = "IDLE", ![c].recvtask = NoTask,
                                    ![c].down = <<>>]
         \/ /\ done /\ ~good
            /\ task' = [Finished(t, "E_MD5") EXCEPT ![t].tmp = got]
            /\ conn' = [conn EXCEPT ![c] = Closed]
            /\ UNCHANGED <<disk, stamp, had>>
    BY Zenon DEF RecvData, got
  <1>15. [conn EXCEPT ![c].last = @ + 1, ![c].down = Tail(@)]
           = [conn EXCEPT ![c].last = @ + 1, ![c].down = rest]
    BY <1>1 DEF rest, ConnRec
  <1> QED BY <1>10, <1>11, <1>12, <1>13, <1>14, <1>15

(* A connection that ends gives its task back, to be resumed or started    *)
(* anew.                                                                   *)
LEMMA FiniConnIInv ==
  ASSUME IInv, NEW c \in Conn, FiniConn(c), tick' \in Nat PROVE IInv'
  <1> DEFINE t == conn[c].recvtask
  <1>1. /\ conn \in [Conn -> ConnRec] /\ conn[c] \in ConnRec /\ Open(conn[c])
    BY OneConn
  <1>2. conn' = [conn EXCEPT ![c] = Closed]
    BY DEF FiniConn
  <1>3. UNCHANGED <<disk, at, stamp, told, had, settled, online>>
    BY DEF FiniConn
  <1>4. CASE t = NoTask
    <2>1. task' = task
      BY <1>4 DEF FiniConn
    <2>2. conn'[c] = Closed /\ conn' \in [Conn -> ConnRec]
      BY <1>1, <1>2, ClosedIsOpen DEF Open
    <2>3. \A d \in Conn : d # c => conn'[d] = conn[d]
      BY <1>1, <1>2
    <2>4. Exchange'
      <3>1. TasksAreDue'
        BY <1>3, <2>1 DEF IInv, Exchange, TasksAreDue
      <3>2. ConnsAreOpen'
        BY <2>2, <2>3, ClosedIsOpen DEF IInv, Exchange, ConnsAreOpen
      <3>3. RecvIsCarried'
        BY <1>4, <2>1, <2>2, <2>3, ClosedIsOpen, TransferAssumption
           DEF IInv, Exchange, RecvIsCarried
      <3>4. StreamsAreSteady'
        BY <1>3, <2>1, <2>2, <2>3, ClosedIsOpen DEF IInv, Exchange, StreamsAreSteady
      <3> QED BY <3>1, <3>2, <3>3, <3>4 DEF Exchange
    <2> QED BY <1>3, <2>1, <2>4, QuietStep DEF IInv, TypeOK, TaskRec
  <1>5. CASE t # NoTask
    <2> DEFINE off == IF Continue THEN task[t].off + conn[c].last ELSE task[t].off
               tmp == Kept(t)
               n == task[t].retry + 1
               r == [task[t] EXCEPT !.list = "WAIT", !.retry = n, !.off = off, !.tmp = tmp]
    <2>1. t \in Task /\ task[t].list = "RECV" /\ (settled => Flows(conn[c], task[t]))
      BY <1>5, OneConn
    <2>2. /\ task \in [Task -> TaskRec] /\ task[t] \in TaskRec /\ Due(task[t])
          /\ WasHad(task[t], had) /\ (settled => Steady(task[t]))
      BY <2>1, OneTask
    <2>3. /\ task[t].over = "UNKNOWN" /\ task[t].kind # "del" /\ task[t].ver \in Version
          /\ ~Continue => task[t].off = 0
      BY <2>1, <2>2 DEF Due, Awaiting
    <2>4. off \in Nat /\ tmp \in Seq(Version) /\ n \in Nat
      BY <1>1, <2>2, SMTT(30) DEF ConnRec, TaskRec, Kept
    <2>5. task' = [task EXCEPT ![t] = r]
      <3>1. task' = [task EXCEPT ![t].list = "WAIT", ![t].retry = n, ![t].off = off,
                                 ![t].tmp = tmp]
        BY <1>5, <2>1, <2>2 DEF FiniConn, TaskRec
      <3> HIDE DEF n, off, tmp
      <3> QED BY <2>2, <3>1 DEF TaskRec
    <2>6. settled => off = 0 \/ (off < Size[1] /\ tmp = Ones(off))
      <3> SUFFICES ASSUME settled, Continue PROVE off = 0 \/ (off < Size[1] /\ tmp = Ones(off))
        BY <2>3
      <3>1. off = task[t].off + conn[c].last /\ tmp = task[t].tmp
        BY DEF Kept
      <3>2. CASE conn[c].stat = "PREPARE_RECVFILE"
        <4>1. Resumable(task[t]) /\ conn[c].last = 0
          BY <1>1, <2>1, <3>2 DEF Flows, Open
        <4>2. off = task[t].off
          BY <2>2, <3>1, <4>1 DEF TaskRec
        <4> QED BY <3>1, <4>1, <4>2 DEF Resumable
      <3>3. CASE conn[c].stat = "RECVFILEING"
        <4>1. /\ conn[c].len = Size[1] - task[t].off /\ conn[c].last < conn[c].len
              /\ task[t].tmp = Ones(task[t].off + conn[c].last)
          BY <2>1, <3>3 DEF Flows
        <4>2. conn[c].last \in Nat /\ task[t].off \in Nat
          BY <1>1, <2>2 DEF ConnRec, TaskRec
        <4> QED BY <3>1, <4>1, <4>2, OnesIsContent
      <3>4. conn[c].stat \in {"PREPARE_RECVFILE", "RECVFILEING"}
        BY <1>1, <1>5 DEF Open, ConnRec
      <3> QED BY <3>2, <3>3, <3>4
    <2>7. ~Continue => off = 0
      BY <2>3
    <2> HIDE DEF n, off, tmp
    <2>8. /\ r \in TaskRec /\ r.list = "WAIT" /\ r.over = "UNKNOWN" /\ r.ver = task[t].ver
          /\ r.kind = task[t].kind /\ r.off = off /\ r.tmp = tmp
      BY <2>2, <2>3, <2>4 DEF TaskRec, Lists
    <2> HIDE DEF r
    <2>9. Due(r) /\ WasHad(r, had)
      BY <2>2, <2>3, <2>7, <2>8 DEF Due, WasHad, Awaiting, Sending
    <2>10. settled => Steady(r) /\ (Closed.recvtask = t => Flows(Closed, r))
      BY <1>5, <2>1, <2>2, <2>3, <2>6, <2>8, ClosedIsOpen DEF Steady, Resumable
    <2>11. Closed.recvtask = NoTask /\ r.list # "RECV"
      BY <2>8, ClosedIsOpen
    <2> QED BY <1>2, <1>3, <2>1, <2>5, <2>9, <2>10, <2>11, ClosedIsOpen, OneConnStep
  <1> QED BY <1>4, <1>5

----------------------------------------------------------------------------
LEMMA StutterIInv == IInv /\ UNCHANGED vars => IInv'
  BY DEF vars, IInv, TypeOK, Exchange, TasksAreDue, ConnsAreOpen, RecvIsCarried, StreamsAreSteady,
         Claims, DiskIsHad, ToldIsHad, StampIsHad

LEMMA NextIInv == IInv /\ Next => IInv'
  <1> SUFFICES ASSUME IInv, Next PROVE IInv'
    OBVIOUS
  <1>1. ASSUME Announce PROVE IInv'
    BY <1>1, NewTaskIInv DEF Announce
  <1>2. ASSUME NEW t \in Task, Signalling(t) \/ PutOff(t) \/ Expire(t) PROVE IInv'
    BY <1>2, RetryFinIInv, FinishIInv, CheckTaskIInv, FreedIInv, PutOffIInv DEF Signalling
  <1>3. ASSUME TickStep PROVE IInv'
    <2>1. ASSUME TickEnd PROVE IInv'
      BY <2>1, RestIInv DEF TickEnd
    <2> QED BY <1>3, <2>1, TickBeginIInv, SpareIInv, PutAsideIInv, RequestIInv DEF TickStep
  <1>4. ASSUME NEW c \in Conn, Data(c) \/ Lost(c) PROVE IInv'
    <2>1. ASSUME Timeout(c) \/ Lost(c) PROVE IInv'
      BY <2>1, FiniConnIInv DEF Timeout, Lost, IInv, TypeOK
    <2> QED BY <1>4, <2>1, SendTaskIInv, RecvTaskIInv, RecvDataIInv DEF Data
  <1>5. ASSUME NEW s \in Server, Publish(s) PROVE IInv'
    BY <1>5, PublishIInv
  <1>6. ASSUME (\E m \in Mate : MateConn(m)) \/ DiskSpace PROVE IInv'
    BY <1>6, RestIInv DEF MateConn, DiskSpace
  <1> QED BY <1>1, <1>2, <1>3, <1>4, <1>5, <1>6 DEF Next

(* The local invariant holds in every reachable state.                     *)
THEOREM IInvHolds == Spec => []IInv
  BY InitIInv, NextIInv, StutterIInv, PTL DEF Spec

(* The pool and the connections agree in every run: a task is in RECV      *)
(* exactly while one connection carries it, and while no server's file     *)
(* changes, no transfer that broke off and was resumed (svc_finiconn,      *)
(* do_recv_task) ends in a bad md5.                                        *)
THEOREM TasksAreSound == Spec => []TasksSound
  <1>1. IInv => TasksSound
    <2>1. IInv => NoFalseMd5
      BY DEF IInv, Exchange, StreamsAreSteady, NoFalseMd5, Steady
    <2> QED BY <2>1 DEF IInv, Exchange, TasksSound
  <1> QED BY <1>1, IInvHolds, PTL

(* A name of this CS is never a part of a file or a mixture of two.        *)
THEOREM FilesAreWhole == Spec => []FileIsWhole
  <1>1. IInv => FileIsWhole
    BY DEF IInv, TypeOK, Claims, DiskIsHad, FileIsWhole
  <1> QED BY <1>1, IInvHolds, PTL

(* A mate is told only of versions this CS has had whole, and the stamp it *)
(* starts from again is of one.                                            *)
THEOREM ClaimsHold == Spec => []ClaimsAreTrue
  <1>1. IInv => ClaimsAreTrue
    BY DEF IInv, Claims, ClaimsAreTrue
  <1> QED BY <1>1, IInvHolds, PTL
=============================================================================
