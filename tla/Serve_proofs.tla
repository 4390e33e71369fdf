---------------------------- MODULE Serve_proofs ----------------------------
(***************************************************************************)
(* Proofs about Serve: the limit of a day, the nodes of the requests and   *)
(* what the service owes, and what a listing contains.                     *)
(***************************************************************************)
EXTENDS Serve, FiniteSetTheorems, TLAPS

----------------------------------------------------------------------------
(* The limit of a day, in SyncLimit                                        *)

(* The requests of the present count are the last `count' taken on.  The   *)
(* first of them came when the day began, and the first of the count       *)
(* before, which was spent, a day earlier at the least.                    *)
Age == 0 .. Day
DayInv ==
    /\ since \in Age /\ begun \in BOOLEAN /\ count \in Nat /\ taken \in Seq(Age)
    /\ Limit > 0 =>
         /\ count =< Limit /\ count =< Len(taken)
         /\ \A i, j \in DOMAIN taken : i < j => taken[i] >= taken[j]
         /\ count = 0 => ~begun /\ taken = <<>>
         /\ count > 0 => begun /\ taken[Len(taken) - count + 1] = since
         /\ Len(taken) - count >= Limit => taken[Len(taken) - count - Limit + 1] = Day

LEMMA DayInvAtFirst ==
    Lim!Init => DayInv
<1> SUFFICES ASSUME Lim!Init
             PROVE  DayInv
  OBVIOUS
<1>1. since = 0 /\ begun = FALSE /\ count = 0 /\ taken = <<>>
  BY DEF Lim!Init
<1>2. Limit \in Nat /\ 0 \in Age /\ <<>> \in Seq(Age) /\ Len(<<>>) = 0 /\ DOMAIN <<>> = {}
  BY ServeAssumption DEF Age
<1>3. taken \in Seq(Age) /\ Len(taken) = 0 /\ DOMAIN taken = {} /\ taken = <<>>
  BY <1>1, <1>2
<1>4. since \in Age /\ begun \in BOOLEAN /\ ~begun /\ count = 0
  BY <1>1, <1>2
<1> QED
  BY <1>2, <1>3, <1>4 DEF DayInv

LEMMA DayInvIsBound ==
    DayInv => LessThanTwice
<1> SUFFICES ASSUME DayInv, Limit > 0, NEW i \in DOMAIN taken, i + 2 * Limit - 1 =< Len(taken)
             PROVE  taken[i] = Day
  BY DEF LessThanTwice, Lim!LessThanTwice
<1>1. /\ Limit \in Nat /\ count \in Nat /\ taken \in Seq(Age) /\ Day \in Nat
      /\ count =< Limit
      /\ Len(taken) \in Nat /\ DOMAIN taken = 1 .. Len(taken)
  BY ServeAssumption DEF DayInv
<1> DEFINE k == Len(taken) - count - Limit + 1
<1>2. k \in DOMAIN taken /\ i =< k /\ Len(taken) - count >= Limit
  BY <1>1
<1>3. taken[k] = Day
  BY <1>2 DEF DayInv
<1>4. taken[i] >= taken[k] /\ taken[i] \in Age
  <2> HIDE DEF k
  <2>1. taken[i] \in Age /\ taken[k] \in Age
    BY <1>1, <1>2
  <2>2. i < k => taken[i] >= taken[k]
    BY <1>2 DEF DayInv
  <2>3. i = k => taken[i] >= taken[k]
    BY <1>1, <2>1 DEF Age
  <2> QED
    BY <1>1, <1>2, <2>1, <2>2, <2>3
<1> HIDE DEF k
<1> QED
  BY <1>1, <1>3, <1>4 DEF Age

LEMMA CountKeepsDayInv ==
    DayInv /\ Lim!Count => DayInv'
<1> SUFFICES ASSUME DayInv, Lim!Count
             PROVE  DayInv'
  OBVIOUS
<1> DEFINE n == Len(taken)
<1>1. /\ Limit \in Nat /\ count \in Nat /\ taken \in Seq(Age) /\ Day \in Nat
      /\ n \in Nat /\ DOMAIN taken = 1 .. n /\ since \in Age
      /\ \A i \in 1 .. n : taken[i] \in Age
  BY ServeAssumption DEF DayInv
<1>2. /\ count < Limit /\ count' = count + 1
      /\ since' = (IF begun THEN since ELSE 0) /\ begun' = TRUE
      /\ taken' = Append(taken, 0)
  BY DEF Lim!Count, Lim!Elapsed, Lim!TakeOn
<1>3. /\ taken' \in Seq(Age) /\ Len(taken') = n + 1
      /\ taken'[n + 1] = 0 /\ \A i \in 1 .. n : taken'[i] = taken[i]
      /\ DOMAIN taken' = 1 .. (n + 1)
  BY <1>1, <1>2 DEF Age
<1>4. /\ count =< Limit /\ count =< n
      /\ \A i, j \in 1 .. n : i < j => taken[i] >= taken[j]
      /\ count = 0 => ~begun /\ n = 0
      /\ count > 0 => begun /\ taken[n - count + 1] = since
      /\ n - count >= Limit => taken[n - count - Limit + 1] = Day
  BY <1>1, <1>2 DEF DayInv
<1> HIDE DEF n
<1>5. \A i, j \in 1 .. (n + 1) : i < j => taken'[i] >= taken'[j]
  <2>1. ASSUME NEW i \in 1 .. (n + 1), NEW j \in 1 .. (n + 1), i < j
        PROVE  taken'[i] >= taken'[j]
    <3>1. i \in 1 .. n
      BY <1>1, <2>1
    <3>2. CASE j = n + 1
      BY <1>1, <1>3, <3>1, <3>2 DEF Age
    <3>3. CASE j # n + 1
      <4>1. j \in 1 .. n
        BY <1>1, <3>3
      <4> QED
        BY <1>3, <1>4, <2>1, <3>1, <4>1
    <3> QED
      BY <3>2, <3>3
  <2> QED
    BY <2>1
<1>6. taken'[n + 1 - count' + 1] = since'
  <2>1. n + 1 - count' + 1 = n - count + 1
    BY <1>1, <1>2
  <2>2. CASE count = 0
    BY <1>1, <1>2, <1>3, <1>4, <2>1, <2>2
  <2>3. CASE count > 0
    <3>1. n - count + 1 \in 1 .. n
      BY <1>1, <1>4, <2>3
    <3> QED
      BY <1>2, <1>3, <1>4, <2>1, <2>3, <3>1
  <2> QED
    BY <1>1, <2>2, <2>3
<1>7. n + 1 - count' >= Limit => taken'[n + 1 - count' - Limit + 1] = Day
  <2> SUFFICES ASSUME n - count >= Limit
               PROVE  taken'[n - count - Limit + 1] = Day
    BY <1>1, <1>2
  <2>1. n - count - Limit + 1 \in 1 .. n
    BY <1>1, <1>2
  <2> QED
    BY <1>3, <1>4, <2>1
<1>8. since' \in Age /\ count' \in Nat /\ count' =< Limit /\ count' =< n + 1 /\ count' > 0
  BY <1>1, <1>2, <1>4 DEF Age
<1> QED
  BY <1>1, <1>2, <1>3, <1>5, <1>6, <1>7, <1>8 DEF DayInv

LEMMA NewDayKeepsDayInv ==
    DayInv /\ Lim!NewDay => DayInv'
<1> SUFFICES ASSUME DayInv, Lim!NewDay
             PROVE  DayInv'
  OBVIOUS
<1> DEFINE n == Len(taken)
<1>1. /\ Limit \in Nat /\ count \in Nat /\ taken \in Seq(Age) /\ Day \in Nat
      /\ n \in Nat /\ DOMAIN taken = 1 .. n /\ since \in Age
      /\ \A i \in 1 .. n : taken[i] \in Age
  BY ServeAssumption DEF DayInv
<1>2. /\ count >= Limit /\ (IF begun THEN since ELSE 0) = Day
      /\ count' = 1 /\ since' = 0 /\ begun' = TRUE
      /\ taken' = Append(taken, 0)
  BY DEF Lim!NewDay, Lim!Elapsed, Lim!TakeOn, Lim!CountFromOne
<1>3. /\ taken' \in Seq(Age) /\ Len(taken') = n + 1
      /\ taken'[n + 1] = 0 /\ \A i \in 1 .. n : taken'[i] = taken[i]
      /\ DOMAIN taken' = 1 .. (n + 1)
  BY <1>1, <1>2 DEF Age
<1>4. Limit > 0 =>
        /\ count = Limit /\ count =< n /\ taken[n - count + 1] = Day
        /\ \A i, j \in 1 .. n : i < j => taken[i] >= taken[j]
  <2> SUFFICES ASSUME Limit > 0
               PROVE  /\ count = Limit /\ count =< n /\ taken[n - count + 1] = Day
                      /\ \A i, j \in 1 .. n : i < j => taken[i] >= taken[j]
    OBVIOUS
  <2>1. count = Limit /\ count =< n /\ count > 0
    BY <1>1, <1>2 DEF DayInv
  <2>2. begun /\ taken[n - count + 1] = since
    BY <2>1 DEF DayInv
  <2> QED
    BY <1>1, <1>2, <2>1, <2>2 DEF DayInv
<1> HIDE DEF n
<1>5. Limit > 0 => \A i, j \in 1 .. (n + 1) : i < j => taken'[i] >= taken'[j]
  <2>1. ASSUME Limit > 0, NEW i \in 1 .. (n + 1), NEW j \in 1 .. (n + 1), i < j
        PROVE  taken'[i] >= taken'[j]
    <3>1. i \in 1 .. n
      BY <1>1, <2>1
    <3>2. CASE j = n + 1
      BY <1>1, <1>3, <3>1, <3>2 DEF Age
    <3>3. CASE j # n + 1
      <4>1. j \in 1 .. n
        BY <1>1, <3>3
      <4> QED
        BY <1>3, <1>4, <2>1, <3>1, <4>1
    <3> QED
      BY <3>2, <3>3
  <2> QED
    BY <2>1
<1>6. Limit > 0 /\ n + 1 - count' >= Limit => taken'[n + 1 - count' - Limit + 1] = Day
  <2> SUFFICES ASSUME Limit > 0
               PROVE  taken'[n - Limit + 1] = Day
    BY <1>1, <1>2
  <2>1. n - Limit + 1 \in 1 .. n
    BY <1>1, <1>4
  <2> QED
    BY <1>3, <1>4, <2>1
<1>7. n + 1 - count' + 1 = n + 1 /\ since' \in Age
  BY <1>1, <1>2 DEF Age
<1> QED
  BY <1>1, <1>2, <1>3, <1>5, <1>6, <1>7, SMTT(30) DEF DayInv

LEMMA RefuseKeepsDayInv ==
    DayInv /\ Lim!Refuse => DayInv'
<1> SUFFICES ASSUME DayInv, Lim!Refuse
             PROVE  DayInv'
  OBVIOUS
<1>1. /\ count >= Limit /\ begun' = TRUE /\ count' = count /\ taken' = taken
      /\ since' = IF begun THEN since ELSE 0
  BY DEF Lim!Refuse, Lim!Elapsed
<1>2. Limit \in Nat /\ Day \in Nat /\ since' \in Age /\ count \in Nat
  BY <1>1, ServeAssumption DEF DayInv, Age
<1>3. Limit > 0 => begun /\ count > 0
  BY <1>1, <1>2 DEF DayInv
<1> QED
  BY <1>1, <1>2, <1>3 DEF DayInv

LEMMA TickKeepsDayInv ==
    DayInv /\ Lim!Tick => DayInv'
<1> SUFFICES ASSUME DayInv, Lim!Tick
             PROVE  DayInv'
  OBVIOUS
<1> DEFINE n == Len(taken)
<1>1. /\ Limit \in Nat /\ count \in Nat /\ taken \in Seq(Age) /\ Day \in Nat
      /\ n \in Nat /\ DOMAIN taken = 1 .. n /\ since \in Age /\ begun \in BOOLEAN
      /\ \A i \in 1 .. n : taken[i] \in Age
  BY ServeAssumption DEF DayInv
<1>2. /\ since' = (IF begun THEN Lim!Older(since) ELSE since)
      /\ taken' = [i \in 1 .. n |-> Lim!Older(taken[i])]
      /\ begun' = begun /\ count' = count
  BY <1>1 DEF Lim!Tick
<1>3. /\ \A a \in Age : Lim!Older(a) \in Age
      /\ \A a, b \in Age : a >= b => Lim!Older(a) >= Lim!Older(b)
      /\ Lim!Older(Day) = Day
  BY <1>1 DEF Lim!Older, Age
<1>4. /\ taken' \in Seq(Age) /\ Len(taken') = n /\ DOMAIN taken' = 1 .. n
      /\ \A i \in 1 .. n : taken'[i] = Lim!Older(taken[i])
      /\ taken = <<>> => taken' = <<>>
  BY <1>1, <1>2, <1>3
<1>5. since' \in Age
  BY <1>1, <1>2, <1>3
<1>6. Limit > 0 =>
        /\ count =< Limit /\ count =< n
        /\ \A i, j \in 1 .. n : i < j => taken[i] >= taken[j]
        /\ count = 0 => ~begun /\ taken = <<>>
        /\ count > 0 => begun /\ taken[n - count + 1] = since
        /\ n - count >= Limit => taken[n - count - Limit + 1] = Day
  BY <1>1 DEF DayInv
<1> HIDE DEF n
<1>7. Limit > 0 /\ count > 0 => taken'[n - count + 1] = since'
  <2> SUFFICES ASSUME Limit > 0, count > 0
               PROVE  taken'[n - count + 1] = since'
    OBVIOUS
  <2>1. n - count + 1 \in 1 .. n
    BY <1>1, <1>6
  <2> QED
    BY <1>2, <1>4, <1>6, <2>1
<1>8. Limit > 0 /\ n - count >= Limit => taken'[n - count - Limit + 1] = Day
  <2> SUFFICES ASSUME Limit > 0, n - count >= Limit
               PROVE  taken'[n - count - Limit + 1] = Day
    OBVIOUS
  <2>1. n - count - Limit + 1 \in 1 .. n
    BY <1>1
  <2> QED
    BY <1>3, <1>4, <1>6, <2>1
<1>9. Limit > 0 => \A i, j \in 1 .. n : i < j => taken'[i] >= taken'[j]
  BY <1>1, <1>3, <1>4, <1>6
<1> QED
  BY <1>1, <1>2, <1>4, <1>5, <1>6, <1>7, <1>8, <1>9 DEF DayInv

(* Serve's steps count as SyncLimit says, or leave the count alone.        *)
LEMMA StepsCount ==
    [Next]_vars => Lim!Count \/ Lim!NewDay \/ Lim!Refuse \/ Lim!Tick \/ UNCHANGED limitVars
<1>1. \A r \in Request : SyncDirReq(r) =>
        Lim!Count \/ Lim!NewDay \/ UNCHANGED limitVars
  BY DEF SyncDirReq, TakesOn
<1>2. \A r \in Request : TooMany(r) => Lim!Refuse
  BY DEF TooMany
<1>3. DayPasses => Lim!Tick
  BY DEF DayPasses
<1>4. UNCHANGED vars => UNCHANGED limitVars
  BY DEF vars
<1>5. \A c \in Cs : Connect(c) \/ Close(c) => UNCHANGED limitVars
  BY DEF Connect, Close
<1>6. \A d \in Dir, f \in File : Change(d, f) => UNCHANGED limitVars
  BY DEF Change
<1>7. SendAnswer => UNCHANGED limitVars
  BY DEF SendAnswer
<1>8. SyncDirThread => UNCHANGED limitVars
  BY DEF SyncDirThread, TakeRequest, ReadName, AddFile, ListEnd
<1> QED
  BY <1>1, <1>2, <1>3, <1>4, <1>5, <1>6, <1>7, <1>8 DEF Next

(* An FCS takes on less than twice its limit in any span of a day: the     *)
(* day begins with a request, when the count is spent, and what was        *)
(* counted before can only be the tail of that count (check_count_one_day).*)
THEOREM LimitIsKept ==
    Spec => []LessThanTwice
<1>1. Init => DayInv
  BY DayInvAtFirst DEF Init
<1>2. DayInv /\ [Next]_vars => DayInv'
  <2>1. DayInv /\ UNCHANGED limitVars => DayInv'
    BY DEF DayInv, limitVars
  <2> QED
    BY <2>1, StepsCount, CountKeepsDayInv, NewDayKeepsDayInv, RefuseKeepsDayInv,
       TickKeepsDayInv
<1> QED
  BY <1>1, <1>2, DayInvIsBound, PTL DEF Spec

----------------------------------------------------------------------------
(* The nodes and the listing                                               *)

Note == File \X Version
ListerType ==
    /\ lister.task \in Task \union {NoTask} /\ lister.unread \subseteq File
    /\ lister.noted \in Seq(Note) /\ lister.left \in Nat
    /\ lister.left =< Len(lister.noted)
    /\ lister.out \subseteq File \X Version \X Version
    /\ lister.gone \in BOOLEAN /\ lister.full \in BOOLEAN /\ lister.cut \in BOOLEAN
    /\ lister = [task |-> lister.task, unread |-> lister.unread, noted |-> lister.noted,
                 left |-> lister.left, out |-> lister.out, gone |-> lister.gone,
                 full |-> lister.full, cut |-> lister.cut]

(* A node that is not in HOME is in one place: once in a queue, or with    *)
(* sync_dir_thread.                                                        *)
NodesApart ==
    /\ \A i, j \in DOMAIN reqs : reqs[i] = reqs[j] => i = j
    /\ \A i, j \in DOMAIN rsps : rsps[i] = rsps[j] => i = j
    /\ \A i \in DOMAIN reqs : \A j \in DOMAIN rsps : reqs[i] # rsps[j]
    /\ \A i \in DOMAIN reqs : reqs[i] \notin home /\ reqs[i] # lister.task
    /\ \A i \in DOMAIN rsps : rsps[i] \notin home /\ rsps[i] # lister.task
    /\ lister.task \notin home

(* A file of the directory that has not changed since it was opened and    *)
(* whose ctime is in the asker's window is still to be read, or noted, or  *)
(* in the answer; one that is not in the window is neither noted nor given.*)
Owed(f) ==
    /\ <<Listing.dir, f>> \notin changed
    /\ InWindow(f)
Kept(f) ==
    \/ f \in lister.unread
    \/ \E k \in DOMAIN lister.noted : lister.noted[k] = <<f, Content[f]>>
    \/ <<f, Content[f], Content[f]>> \in lister.out
Sound == Busy /\ ~lister.cut /\ (role = "FCS" => ~lister.gone /\ ~lister.full)
NothingSkipped ==
    Sound => /\ lister.left = Len(lister.noted)
             /\ \A f \in File : Owed(f) => Kept(f)
Absent(f) ==
    /\ \A k \in DOMAIN lister.noted : lister.noted[k][1] # f
    /\ \A v, w \in Version : <<f, v, w>> \notin lister.out
Outside(f) == <<Listing.dir, f>> \notin changed /\ ~InWindow(f)
NothingElse == Busy => \A f \in File : Outside(f) => Absent(f)

Types ==
    /\ role \in {"FCS", "CS"} /\ up \subseteq Cs
    /\ disk \in [Dir -> [File -> 0 .. MaxVer]] /\ clock \in Version
    /\ req \in [Task -> Request] /\ home \subseteq Task
    /\ reqs \in Seq(Task) /\ rsps \in Seq(Task)
    /\ given \in [Cs -> [Dir -> Nat]]
    /\ ListerType

SInv == Types /\ NodesApart /\ NothingSkipped /\ NothingElse

(* The directory that is being listed, and its files.                      *)
LEMMA ListingType ==
    ASSUME Types, Busy
    PROVE  /\ lister.task \in Task /\ Listing \in Request /\ Listing.dir \in Dir
           /\ Content \in [File -> 0 .. MaxVer] /\ Listing.from \in 0 .. MaxVer
           /\ Listing.to \in Version
BY DEF Types, ListerType, Busy, Listing, Content, Request

LEMMA SInvIsSound ==
    SInv => ListingSound
<1> SUFFICES ASSUME SInv
             PROVE  ListingSound
  OBVIOUS
<1>1. TypeOK
  BY DEF SInv, Types, ListerType, TypeOK
<1>2. ASSUME Listed, ~lister.cut, role = "FCS" => ~lister.gone /\ ~lister.full,
             NEW f \in File, Owed(f)
      PROVE  <<f, Content[f], Content[f]>> \in lister.out
  <2>1. Sound /\ lister.unread = {} /\ lister.left = 0
    BY <1>2 DEF Listed, Sound
  <2>2. Kept(f) /\ Len(lister.noted) = 0
    BY <1>2, <2>1 DEF SInv, NothingSkipped
  <2>3. DOMAIN lister.noted = {}
    BY <2>2 DEF SInv, Types, ListerType
  <2> QED
    BY <2>1, <2>2, <2>3 DEF Kept
<1>3. ASSUME Listed, NEW f \in File, Outside(f), NEW v \in Version, NEW w \in Version
      PROVE  <<f, v, w>> \notin lister.out
  BY <1>3 DEF SInv, NothingElse, Listed, Absent
<1>4. ASSUME Listed, NEW f \in File, <<Listing.dir, f>> \notin changed
      PROVE  IF Content[f] \in Version /\ Content[f] \in Listing.from .. Listing.to
               THEN Owed(f) ELSE Outside(f)
  <2>1. /\ Content[f] \in 0 .. MaxVer /\ Listing.from \in 0 .. MaxVer
        /\ Listing.to \in 1 .. MaxVer /\ MaxVer \in Nat
    BY <1>4, ListingType, ServeAssumption DEF SInv, Listed, Version
  <2>2. InWindow(f) <=> Content[f] \in Version /\ Content[f] \in Listing.from .. Listing.to
    BY <2>1 DEF InWindow, Version
  <2> QED
    BY <1>4, <2>2 DEF Owed, Outside
<1> QED
  BY <1>1, <1>2, <1>3, <1>4 DEF ListingSound, ListingWhole

LEMMA SInvAtFirst ==
    Init => SInv
<1> SUFFICES ASSUME Init
             PROVE  SInv
  OBVIOUS
<1>1. /\ role \in {"FCS", "CS"} /\ up = {} /\ clock = 1
      /\ disk = [d \in Dir |-> [f \in File |-> 1]]
      /\ req = [t \in Task |-> [cs |-> CHOOSE c \in Cs : TRUE,
                                dir |-> CHOOSE d \in Dir : TRUE, from |-> 0, to |-> 1]]
      /\ home = Task /\ reqs = <<>> /\ rsps = <<>> /\ lister = Idle
      /\ given = [c \in Cs |-> [d \in Dir |-> 0]]
  BY DEF Init
<1>2. MaxVer \in Nat \ {0} /\ NoTask \notin Task /\ Cs # {} /\ Dir # {}
  BY ServeAssumption
<1>3. (CHOOSE c \in Cs : TRUE) \in Cs /\ (CHOOSE d \in Dir : TRUE) \in Dir
  BY <1>2
<1>4. ListerType
  BY <1>1 DEF ListerType, Idle
<1>5. Types
  BY <1>1, <1>2, <1>3, <1>4 DEF Types, Version, Request
<1>6. NodesApart
  BY <1>1, <1>2 DEF NodesApart, Idle
<1>7. NothingSkipped /\ NothingElse
  BY <1>1 DEF NothingSkipped, NothingElse, Sound, Busy, Idle
<1> QED
  BY <1>5, <1>6, <1>7 DEF SInv

(* What AddFile does: the first file noted has gone, does not fit, or goes *)
(* into the answer.                                                        *)
LEMMA AddFileCases ==
    ASSUME Types, AddFile
    PROVE  /\ lister.noted # <<>> /\ Head(lister.noted) \in Note
           /\ lister.left > 0
           /\ LET f == Head(lister.noted)[1]
                  v == Head(lister.noted)[2]
              IN  \/ /\ Content[f] = 0
                     /\ lister' = [lister EXCEPT !.left = @ - 1, !.gone = TRUE,
                                     !.noted = IF role = "CS" THEN Tail(@) ELSE @]
                  \/ lister' = [lister EXCEPT !.cut = TRUE]
                  \/ /\ Content[f] \in Version
                     /\ lister' = [lister EXCEPT !.left = @ - 1, !.noted = Tail(@),
                                     !.out = @ \union {<<f, v, Content[f]>>}]
<1>1. /\ Busy /\ lister.left > 0 /\ lister.noted \in Seq(Note) /\ lister.left \in Nat
      /\ lister.left =< Len(lister.noted)
  BY DEF AddFile, Types, ListerType
<1>2. lister.noted # <<>> /\ Head(lister.noted) \in Note
  BY <1>1
<1>3. Head(lister.noted)[1] \in File
  BY <1>2 DEF Note
<1>4. Content[Head(lister.noted)[1]] \in 0 .. MaxVer
  BY <1>1, <1>3, ListingType
<1>5. Content[Head(lister.noted)[1]] # 0 => Content[Head(lister.noted)[1]] \in Version
  BY <1>4, ServeAssumption DEF Version
<1> QED
  BY <1>1, <1>2, <1>5 DEF AddFile, Skip

(* What ReadName does: a file is passed over, or noted; and if it was not  *)
(* the last name, an FCS may read no further.                              *)
LEMMA ReadNameCases ==
    ASSUME Types, ReadName
    PROVE  \E f \in lister.unread :
             \/ /\ ~InWindow(f)
                /\ lister' = [task |-> lister.task, unread |-> lister.unread \ {f},
                              noted |-> lister.noted, left |-> lister.left,
                              out |-> lister.out, gone |-> lister.gone,
                              full |-> lister.full, cut |-> lister.cut]
             \/ /\ InWindow(f) /\ <<f, Content[f]>> \in Note
                /\ \E rest \in SUBSET lister.unread, full \in BOOLEAN :
                     /\ rest = lister.unread \ {f} \/ (role = "FCS" /\ full)
                     /\ lister.full => full
                     /\ lister' = [task |-> lister.task, unread |-> rest,
                                   noted |-> Append(lister.noted, <<f, Content[f]>>),
                                   left |-> lister.left + 1,
                                   out |-> lister.out, gone |-> lister.gone,
                                   full |-> full, cut |-> lister.cut]
<1>1. /\ lister.full \in BOOLEAN /\ lister.unread \subseteq File /\ Busy
      /\ lister = [task |-> lister.task, unread |-> lister.unread, noted |-> lister.noted,
                   left |-> lister.left, out |-> lister.out, gone |-> lister.gone,
                   full |-> lister.full, cut |-> lister.cut]
  BY DEF ReadName, Types, ListerType
<1> DEFINE much == role = "FCS" /\ Len(lister.noted) + 1 >= MaxFile
<1>2. PICK f \in lister.unread :
        lister' = IF ~InWindow(f) THEN [lister EXCEPT !.unread = lister.unread \ {f}]
                  ELSE [lister EXCEPT !.unread = IF much THEN {} ELSE lister.unread \ {f},
                                      !.full = @ \/ (much /\ lister.unread \ {f} # {}),
                                      !.noted = Append(@, <<f, Content[f]>>),
                                      !.left = @ + 1]
  BY DEF ReadName
<1>3. CASE ~InWindow(f)
  BY <1>1, <1>2, <1>3
<1>4. CASE InWindow(f)
  <2>1. <<f, Content[f]>> \in Note
    BY <1>1, <1>2, <1>4, ListingType, ServeAssumption DEF InWindow, Note, Version
  <2> DEFINE rest == IF much THEN {} ELSE lister.unread \ {f}
             full == lister.full \/ (much /\ lister.unread \ {f} # {})
  <2>2. rest \in SUBSET lister.unread /\ full \in BOOLEAN /\ (lister.full => full)
    BY <1>1
  <2>3. rest = lister.unread \ {f} \/ (role = "FCS" /\ full)
    OBVIOUS
  <2>4. lister' = [lister EXCEPT !.unread = rest, !.full = full,
                                 !.noted = Append(@, <<f, Content[f]>>), !.left = @ + 1]
    BY <1>2, <1>4
  <2> HIDE DEF rest, full
  <2>5. lister' = [task |-> lister.task, unread |-> rest,
                   noted |-> Append(lister.noted, <<f, Content[f]>>),
                   left |-> lister.left + 1, out |-> lister.out, gone |-> lister.gone,
                   full |-> full, cut |-> lister.cut]
    BY <1>1, <2>4
  <2> QED
    BY <1>4, <2>1, <2>2, <2>3, <2>5
<1> QED
  BY <1>3, <1>4

LEMMA ReadNameNotes ==
    ASSUME Types, ReadName
    PROVE  /\ lister'.task = lister.task /\ lister'.out = lister.out
           /\ \/ lister'.noted = lister.noted
              \/ \E g \in File : /\ InWindow(g) /\ <<g, Content[g]>> \in Note
                               /\ lister'.noted = Append(lister.noted, <<g, Content[g]>>)
<1>1. PICK f \in lister.unread :
        \/ lister' = [task |-> lister.task, unread |-> lister.unread \ {f},
                      noted |-> lister.noted, left |-> lister.left,
                      out |-> lister.out, gone |-> lister.gone,
                      full |-> lister.full, cut |-> lister.cut]
        \/ /\ InWindow(f) /\ <<f, Content[f]>> \in Note
           /\ \E rest \in SUBSET lister.unread, full \in BOOLEAN :
                lister' = [task |-> lister.task, unread |-> rest,
                           noted |-> Append(lister.noted, <<f, Content[f]>>),
                           left |-> lister.left + 1,
                           out |-> lister.out, gone |-> lister.gone,
                           full |-> full, cut |-> lister.cut]
  BY ReadNameCases
<1>2. f \in File
  BY DEF Types, ListerType
<1>3. CASE lister' = [task |-> lister.task, unread |-> lister.unread \ {f},
                      noted |-> lister.noted, left |-> lister.left,
                      out |-> lister.out, gone |-> lister.gone,
                      full |-> lister.full, cut |-> lister.cut]
  BY <1>3
<1>4. ASSUME InWindow(f), <<f, Content[f]>> \in Note, NEW rest, NEW full,
             lister' = [task |-> lister.task, unread |-> rest,
                        noted |-> Append(lister.noted, <<f, Content[f]>>),
                        left |-> lister.left + 1,
                        out |-> lister.out, gone |-> lister.gone,
                        full |-> full, cut |-> lister.cut]
      PROVE  /\ lister'.task = lister.task /\ lister'.out = lister.out
             /\ InWindow(f) /\ <<f, Content[f]>> \in Note
             /\ lister'.noted = Append(lister.noted, <<f, Content[f]>>)
  BY <1>4
<1> QED
  BY <1>1, <1>2, <1>3, <1>4

LEMMA ListerTypeKept ==
    ASSUME Types, SyncDirThread
    PROVE  ListerType'
<1>1. /\ lister.task \in Task \union {NoTask} /\ lister.unread \subseteq File
      /\ lister.noted \in Seq(Note) /\ lister.left \in Nat
      /\ lister.left =< Len(lister.noted)
      /\ lister.out \subseteq File \X Version \X Version
      /\ lister.gone \in BOOLEAN /\ lister.full \in BOOLEAN /\ lister.cut \in BOOLEAN
      /\ lister = [task |-> lister.task, unread |-> lister.unread, noted |-> lister.noted,
                   left |-> lister.left, out |-> lister.out, gone |-> lister.gone,
                   full |-> lister.full, cut |-> lister.cut]
      /\ reqs \in Seq(Task)
  BY DEF Types, ListerType
<1>2. ASSUME lister' = Idle
      PROVE  ListerType'
  BY <1>2 DEF Idle, ListerType
<1>3. ASSUME TakeRequest
      PROVE  ListerType'
  <2>1. CASE lister' = [Idle EXCEPT !.task = Head(reqs), !.unread = File]
    <3>1. lister' = [task |-> Head(reqs), unread |-> File, noted |-> <<>>, left |-> 0,
                     out |-> {}, gone |-> FALSE,
                     full |-> FALSE, cut |-> FALSE]
      BY <2>1 DEF Idle
    <3>2. Head(reqs) \in Task
      BY <1>1, <1>3 DEF TakeRequest
    <3> QED
      BY <3>1, <3>2 DEF ListerType
  <2>2. CASE lister' = lister
    BY <1>1, <2>2 DEF ListerType
  <2> QED
    BY <1>3, <2>1, <2>2 DEF TakeRequest
<1>4. ASSUME ReadName
      PROVE  ListerType'
  <2>1. PICK f \in lister.unread :
          \/ lister' = [task |-> lister.task, unread |-> lister.unread \ {f},
                        noted |-> lister.noted, left |-> lister.left,
                        out |-> lister.out, gone |-> lister.gone,
                        full |-> lister.full, cut |-> lister.cut]
          \/ /\ <<f, Content[f]>> \in Note
             /\ \E rest \in SUBSET lister.unread, full \in BOOLEAN :
                  lister' = [task |-> lister.task, unread |-> rest,
                             noted |-> Append(lister.noted, <<f, Content[f]>>),
                             left |-> lister.left + 1,
                             out |-> lister.out, gone |-> lister.gone,
                             full |-> full, cut |-> lister.cut]
    BY <1>4, ReadNameCases
  <2>2. ASSUME <<f, Content[f]>> \in Note
        PROVE  /\ Append(lister.noted, <<f, Content[f]>>) \in Seq(Note)
               /\ Len(Append(lister.noted, <<f, Content[f]>>)) = Len(lister.noted) + 1
               /\ Len(lister.noted) \in Nat
    BY <1>1, <2>2
  <2>3. CASE lister' = [task |-> lister.task, unread |-> lister.unread \ {f},
                        noted |-> lister.noted, left |-> lister.left,
                        out |-> lister.out, gone |-> lister.gone,
                        full |-> lister.full, cut |-> lister.cut]
    BY <1>1, <2>3 DEF ListerType
  <2>4. ASSUME <<f, Content[f]>> \in Note,
               NEW rest \in SUBSET lister.unread, NEW full \in BOOLEAN,
               lister' = [task |-> lister.task, unread |-> rest,
                          noted |-> Append(lister.noted, <<f, Content[f]>>),
                          left |-> lister.left + 1,
                          out |-> lister.out, gone |-> lister.gone,
                          full |-> full, cut |-> lister.cut]
        PROVE  ListerType'
    <3> DEFINE more == Append(lister.noted, <<f, Content[f]>>)
    <3>1. more \in Seq(Note) /\ lister.left + 1 =< Len(more) /\ lister.left + 1 \in Nat
      BY <1>1, <2>2, <2>4
    <3>2. rest \subseteq File
      BY <1>1
    <3> HIDE DEF more
    <3>3. lister' = [task |-> lister.task, unread |-> rest, noted |-> more,
                     left |-> lister.left + 1, out |-> lister.out, gone |-> lister.gone,
                     full |-> full, cut |-> lister.cut]
      BY <2>4 DEF more
    <3> QED
      BY <1>1, <3>1, <3>2, <3>3 DEF ListerType
  <2> QED
    BY <2>1, <2>3, <2>4
<1>5. ASSUME AddFile
      PROVE  ListerType'
  <2> DEFINE f == Head(lister.noted)[1]
             v == Head(lister.noted)[2]
             c == Content[f]
  <2>1. /\ lister.noted # <<>> /\ Head(lister.noted) \in Note /\ lister.left > 0
        /\ \/ lister' = [lister EXCEPT !.left = @ - 1, !.gone = TRUE,
                           !.noted = IF role = "CS" THEN Tail(@) ELSE @]
           \/ lister' = [lister EXCEPT !.cut = TRUE]
           \/ /\ c \in Version
              /\ lister' = [lister EXCEPT !.left = @ - 1, !.noted = Tail(@),
                              !.out = @ \union {<<f, v, c>>}]
    BY <1>5, AddFileCases
  <2>2. f \in File /\ v \in Version
    BY <2>1 DEF Note
  <2> HIDE DEF f, v, c
  <2>3. Tail(lister.noted) \in Seq(Note) /\ Len(Tail(lister.noted)) = Len(lister.noted) - 1
        /\ Len(lister.noted) \in Nat /\ Len(lister.noted) > 0
    BY <1>1, <2>1
  <2>4. CASE lister' = [lister EXCEPT !.left = @ - 1, !.gone = TRUE,
                           !.noted = IF role = "CS" THEN Tail(@) ELSE @]
    <3>1. lister' = [task |-> lister.task, unread |-> lister.unread,
                     noted |-> IF role = "CS" THEN Tail(lister.noted) ELSE lister.noted,
                     left |-> lister.left - 1, out |-> lister.out,
                     gone |-> TRUE, full |-> lister.full, cut |-> lister.cut]
      BY <1>1, <2>4
    <3> QED
      BY <1>1, <2>1, <2>3, <3>1 DEF ListerType
  <2>5. CASE lister' = [lister EXCEPT !.cut = TRUE]
    <3>1. lister' = [task |-> lister.task, unread |-> lister.unread,
                     noted |-> lister.noted,
                     left |-> lister.left, out |-> lister.out,
                     gone |-> lister.gone, full |-> lister.full, cut |-> TRUE]
      BY <1>1, <2>5
    <3> QED
      BY <1>1, <3>1 DEF ListerType
  <2>6. CASE c \in Version /\ lister' = [lister EXCEPT !.left = @ - 1, !.noted = Tail(@),
                              !.out = @ \union {<<f, v, c>>}]
    <3>1. lister' = [task |-> lister.task, unread |-> lister.unread,
                     noted |-> Tail(lister.noted),
                     left |-> lister.left - 1, out |-> lister.out \union {<<f, v, c>>},
                     gone |-> lister.gone, full |-> lister.full, cut |-> lister.cut]
      BY <1>1, <2>6
    <3>2. lister.out \union {<<f, v, c>>} \subseteq File \X Version \X Version
      BY <1>1, <2>2, <2>6
    <3> QED
      BY <1>1, <2>1, <2>3, <3>1, <3>2 DEF ListerType
  <2> QED
    BY <2>1, <2>4, <2>5, <2>6
<1>6. ASSUME ListEnd
      PROVE  ListerType'
  BY <1>2, <1>6 DEF ListEnd
<1> QED
  BY <1>3, <1>4, <1>5, <1>6 DEF SyncDirThread

LEMMA DeepUpdate ==
    ASSUME NEW S, NEW T, NEW V, NEW g \in [S -> [T -> V]], NEW a \in S, NEW b \in T, NEW v \in V
    PROVE  /\ [g EXCEPT ![a][b] = v] \in [S -> [T -> V]]
           /\ \A x \in S, y \in T :
                [g EXCEPT ![a][b] = v][x][y] = IF x = a /\ y = b THEN v ELSE g[x][y]
<1>1. [g EXCEPT ![a][b] = v] = [g EXCEPT ![a] = [g[a] EXCEPT ![b] = v]]
  OBVIOUS
<1>2. [g[a] EXCEPT ![b] = v] \in [T -> V]
  OBVIOUS
<1>3. \A y \in T : [g[a] EXCEPT ![b] = v][y] = IF y = b THEN v ELSE g[a][y]
  OBVIOUS
<1> QED
  BY <1>1, <1>2, <1>3

LEMMA TypesKept ==
    Types /\ Next => Types'
<1> SUFFICES ASSUME Types, Next
             PROVE  Types'
  OBVIOUS
<1>1. /\ role \in {"FCS", "CS"} /\ up \subseteq Cs
      /\ disk \in [Dir -> [File -> 0 .. MaxVer]] /\ clock \in Version
      /\ req \in [Task -> Request] /\ home \subseteq Task
      /\ reqs \in Seq(Task) /\ rsps \in Seq(Task)
      /\ given \in [Cs -> [Dir -> Nat]]
      /\ ListerType
  BY DEF Types
<1>2. \A c \in Cs, d \in Dir : [given EXCEPT ![c][d] = @ + 1] \in [Cs -> [Dir -> Nat]]
  BY <1>1, DeepUpdate
<1>3. lister' = lister => ListerType'
  BY <1>1 DEF ListerType
<1>4. ASSUME NEW c \in Cs, Connect(c) \/ Close(c)
      PROVE  Types'
  BY <1>1, <1>3, <1>4 DEF Connect, Close, Types, diskVars, nodeVars
<1>5. ASSUME NEW d \in Dir, NEW f \in File, Change(d, f)
      PROVE  Types'
  <2>1. MaxVer \in Nat \ {0} /\ clock' \in Version /\ clock + 1 \in 0 .. MaxVer
    BY <1>1, <1>5, ServeAssumption DEF Change, Version
  <2>2. disk' \in [Dir -> [File -> 0 .. MaxVer]]
    <3>1. \E v \in 0 .. MaxVer : disk' = [disk EXCEPT ![d][f] = v]
      BY <1>5, <2>1 DEF Change
    <3> QED
      BY <1>1, <3>1, DeepUpdate
  <2> QED
    BY <1>1, <1>3, <1>5, <2>1, <2>2 DEF Change, Types, nodeVars
<1>6. ASSUME DayPasses
      PROVE  Types'
  BY <1>1, <1>3, <1>6 DEF DayPasses, Types, diskVars, nodeVars
<1>7. ASSUME NEW r \in Request, SyncDirReq(r)
      PROVE  Types'
  <2>1. r.cs \in Cs /\ r.dir \in Dir
    BY DEF Request
  <2>2. role' = role /\ up' = up /\ disk' = disk /\ clock' = clock /\ lister' = lister
    BY <1>7 DEF SyncDirReq, diskVars
  <2>3. CASE Queue(r)
    <3>1. PICK t \in home :
            /\ home' = home \ {t} /\ req' = [req EXCEPT ![t] = r]
            /\ reqs' = Append(reqs, t) /\ rsps' = rsps /\ given' = given
      BY <2>3 DEF Queue
    <3>2. req' \in [Task -> Request] /\ reqs' \in Seq(Task) /\ home' \subseteq Task
      BY <1>1, <3>1
    <3> QED
      BY <1>1, <1>3, <2>2, <3>1, <3>2 DEF Types
  <2>4. CASE AnswerAtOnce(r)
    BY <1>1, <1>2, <1>3, <2>1, <2>2, <2>4 DEF AnswerAtOnce, Types, nodeVars
  <2> QED
    BY <1>7, <2>3, <2>4 DEF SyncDirReq
<1>8. ASSUME NEW r \in Request, TooMany(r)
      PROVE  Types'
  BY <1>1, <1>3, <1>8 DEF TooMany, Types, diskVars, nodeVars
<1>9. ASSUME SendAnswer
      PROVE  Types'
  <2> DEFINE t == Head(rsps)
  <2>1. t \in Task /\ rsps' \in Seq(Task) /\ req[t].cs \in Cs /\ req[t].dir \in Dir
    BY <1>1, <1>9 DEF SendAnswer, Request
  <2>2. home' \subseteq Task
    BY <1>1, <1>9, <2>1 DEF SendAnswer, Returned
  <2>3. given' = [given EXCEPT ![req[t].cs][req[t].dir] = @ + 1] \/ given' = given
    BY <1>9 DEF SendAnswer
  <2>4. given' \in [Cs -> [Dir -> Nat]]
    <3>1. \A c \in Cs, d \in Dir :
            given' = [given EXCEPT ![c][d] = @ + 1] => given' \in [Cs -> [Dir -> Nat]]
      BY <1>2
    <3>2. given' = given => given' \in [Cs -> [Dir -> Nat]]
      BY <1>1
    <3> QED
      BY <2>1, <2>3, <3>1, <3>2
  <2> QED
    BY <1>1, <1>3, <1>9, <2>1, <2>2, <2>4 DEF SendAnswer, Types, diskVars
<1>10. ASSUME SyncDirThread
      PROVE  Types'
  <2>1. ListerType'
    BY <1>10, ListerTypeKept
  <2>2. reqs' \in Seq(Task) /\ rsps' \in Seq(Task)
    <3>1. CASE TakeRequest
      <4>1. reqs # <<>> /\ reqs' = Tail(reqs)
            /\ (rsps' = rsps \/ rsps' = Append(rsps, Head(reqs)))
        BY <3>1 DEF TakeRequest
      <4>2. Tail(reqs) \in Seq(Task) /\ Head(reqs) \in Task
        BY <1>1, <4>1
      <4>3. Append(rsps, Head(reqs)) \in Seq(Task)
        BY <1>1, <4>2
      <4> QED
        BY <1>1, <4>1, <4>2, <4>3
    <3>2. CASE ReadName \/ AddFile
      BY <1>1, <3>2 DEF ReadName, AddFile, nodeVars
    <3>3. CASE ListEnd
      <4>1. lister.task \in Task
        BY <3>3, ListingType DEF ListEnd, Listed
      <4> QED
        BY <1>1, <3>3, <4>1 DEF ListEnd
    <3> QED
      BY <1>10, <3>1, <3>2, <3>3 DEF SyncDirThread
  <2>3. /\ role' = role /\ up' = up /\ disk' = disk /\ clock' = clock
        /\ req' = req /\ home' = home /\ given' = given
    BY <1>10 DEF SyncDirThread, TakeRequest, ReadName, AddFile, ListEnd, diskVars, nodeVars
  <2> QED
    BY <1>1, <2>1, <2>2, <2>3 DEF Types
<1> QED
  BY <1>4, <1>5, <1>6, <1>7, <1>8, <1>9, <1>10 DEF Next

(* A node in use goes from one place to the next.                          *)
LEMMA NodesKept ==
    Types /\ NodesApart /\ Next => NodesApart'
<1> SUFFICES ASSUME Types, NodesApart, Next
             PROVE  NodesApart'
  OBVIOUS
<1>1. reqs \in Seq(Task) /\ rsps \in Seq(Task) /\ NoTask \notin Task /\ home \subseteq Task
  BY ServeAssumption DEF Types
<1>2. UNCHANGED <<nodeVars, lister>> => NodesApart'
  BY DEF NodesApart, nodeVars
<1>3. ASSUME NEW r \in Request, SyncDirReq(r)
      PROVE  NodesApart'
  <2>1. CASE AnswerAtOnce(r)
    BY <1>2, <1>3, <2>1 DEF SyncDirReq, AnswerAtOnce
  <2>2. CASE Queue(r)
    <3>1. PICK t \in home :
            /\ home' = home \ {t} /\ reqs' = Append(reqs, t)
            /\ rsps' = rsps /\ lister' = lister
      BY <1>3, <2>2 DEF Queue, SyncDirReq
    <3>2. /\ DOMAIN reqs' = 1 .. Len(reqs) + 1 /\ DOMAIN reqs = 1 .. Len(reqs)
          /\ Len(reqs) \in Nat
          /\ reqs'[Len(reqs) + 1] = t /\ \A i \in DOMAIN reqs : reqs'[i] = reqs[i]
      BY <1>1, <3>1
    <3>3. \A i \in DOMAIN reqs' : i = Len(reqs) + 1 \/ i \in DOMAIN reqs
      BY <3>2
    <3> QED
      BY <3>1, <3>2, <3>3 DEF NodesApart
  <2> QED
    BY <1>3, <2>1, <2>2 DEF SyncDirReq
<1>4. ASSUME SendAnswer
      PROVE  NodesApart'
  <2>1. /\ rsps # <<>> /\ home' = home \union {Head(rsps)} /\ rsps' = Tail(rsps)
        /\ reqs' = reqs /\ lister' = lister
    BY <1>4 DEF SendAnswer, Returned
  <2>2. /\ 1 \in DOMAIN rsps /\ Head(rsps) = rsps[1]
        /\ \A i \in DOMAIN rsps' : i + 1 \in DOMAIN rsps /\ rsps'[i] = rsps[i + 1]
             /\ i \in Nat /\ i + 1 # 1
    BY <1>1, <2>1
  <2> QED
    BY <2>1, <2>2 DEF NodesApart
<1>5. ASSUME TakeRequest
      PROVE  NodesApart'
  <2>1. /\ lister.task = NoTask /\ reqs # <<>> /\ reqs' = Tail(reqs) /\ home' = home
    BY <1>5 DEF TakeRequest, Busy
  <2>2. /\ 1 \in DOMAIN reqs /\ Head(reqs) = reqs[1] /\ reqs[1] \in Task
        /\ \A i \in DOMAIN reqs' : i + 1 \in DOMAIN reqs /\ reqs'[i] = reqs[i + 1]
             /\ i \in Nat /\ i + 1 # 1
    BY <1>1, <2>1
  <2>3. CASE lister' = [Idle EXCEPT !.task = Head(reqs), !.unread = File] /\ rsps' = rsps
    <3>1. lister'.task = reqs[1]
      BY <2>2, <2>3 DEF Idle
    <3> QED
      BY <2>1, <2>2, <2>3, <3>1 DEF NodesApart
  <2>4. CASE lister' = lister /\ rsps' = Append(rsps, Head(reqs))
    <3>1. /\ DOMAIN rsps' = 1 .. Len(rsps) + 1 /\ DOMAIN rsps = 1 .. Len(rsps)
          /\ Len(rsps) \in Nat
          /\ rsps'[Len(rsps) + 1] = reqs[1] /\ \A i \in DOMAIN rsps : rsps'[i] = rsps[i]
      BY <1>1, <2>2, <2>4
    <3>2. \A i \in DOMAIN rsps' : i = Len(rsps) + 1 \/ i \in DOMAIN rsps
      BY <3>1
    <3> QED
      BY <1>1, <2>1, <2>2, <2>4, <3>1, <3>2 DEF NodesApart
  <2> QED
    BY <1>5, <2>3, <2>4 DEF TakeRequest
<1>6. ASSUME ReadName \/ AddFile
      PROVE  NodesApart'
  <2>1. lister'.task = lister.task
    <3>1. CASE ReadName
      BY <3>1, ReadNameNotes
    <3>2. CASE AddFile
      BY <3>2, AddFileCases DEF Types, ListerType
    <3> QED
      BY <1>6, <3>1, <3>2
  <2>2. UNCHANGED nodeVars
    BY <1>6 DEF ReadName, AddFile
  <2> QED
    BY <2>1, <2>2 DEF NodesApart, nodeVars
<1>7. ASSUME ListEnd
      PROVE  NodesApart'
  <2>1. /\ rsps' = Append(rsps, lister.task) /\ lister'.task = NoTask
        /\ home' = home /\ reqs' = reqs /\ lister.task \in Task
    BY <1>7, ListingType DEF ListEnd, Idle, Listed
  <2>2. /\ DOMAIN rsps' = 1 .. Len(rsps) + 1 /\ DOMAIN rsps = 1 .. Len(rsps)
        /\ Len(rsps) \in Nat
        /\ rsps'[Len(rsps) + 1] = lister.task /\ \A i \in DOMAIN rsps : rsps'[i] = rsps[i]
    BY <1>1, <2>1
  <2>3. \A i \in DOMAIN rsps' : (i = Len(rsps) + 1 \/ i \in DOMAIN rsps) /\ rsps'[i] \in Task
    BY <1>1, <2>1, <2>2
  <2>4. \A i \in DOMAIN reqs : reqs[i] \in Task
    BY <1>1
  <2> QED
    BY <1>1, <2>1, <2>2, <2>3, <2>4 DEF NodesApart
<1>8. ASSUME \/ \E c \in Cs : Connect(c) \/ Close(c)
             \/ \E d \in Dir, f \in File : Change(d, f)
             \/ DayPasses \/ \E r \in Request : TooMany(r)
      PROVE  NodesApart'
  BY <1>2, <1>8 DEF Connect, Close, Change, DayPasses, TooMany
<1> QED
  BY <1>3, <1>4, <1>5, <1>6, <1>7, <1>8 DEF Next, SyncDirThread

(* Whatever else happens, a file the listing owes stays noted or given.    *)
LEMMA NothingSkippedKept ==
    SInv /\ Next => NothingSkipped'
<1> SUFFICES ASSUME SInv, Next, Sound'
             PROVE  /\ lister'.left = Len(lister'.noted)
                    /\ \A f \in File : Owed(f)' => Kept(f)'
  BY DEF NothingSkipped
<1>1. /\ Types /\ NodesApart /\ lister.noted \in Seq(Note) /\ role \in {"FCS", "CS"}
      /\ lister.left \in Nat /\ lister.task \notin home
      /\ disk \in [Dir -> [File -> 0 .. MaxVer]] /\ req \in [Task -> Request]
      /\ reqs \in Seq(Task) /\ NoTask \notin Task
      /\ lister = [task |-> lister.task, unread |-> lister.unread, noted |-> lister.noted,
                   left |-> lister.left, out |-> lister.out, gone |-> lister.gone,
                   full |-> lister.full, cut |-> lister.cut]
  BY ServeAssumption DEF SInv, Types, NodesApart, ListerType
<1>2. Sound => /\ lister.left = Len(lister.noted)
               /\ \A f \in File : Owed(f) => Kept(f)
  BY DEF SInv, NothingSkipped
<1>3. ASSUME lister' = lister, role' = role, Busy => (Listing' = Listing),
             \A f \in File : Busy /\ Owed(f)' => disk'[Listing.dir][f] = disk[Listing.dir][f]
                                                  /\ Owed(f)
      PROVE  /\ lister'.left = Len(lister'.noted)
             /\ \A f \in File : Owed(f)' => Kept(f)'
  <2>1. Sound /\ Busy
    BY <1>3 DEF Sound, Busy
  <2>2. \A f \in File : Owed(f)' => Kept(f)
    BY <1>2, <1>3, <2>1
  <2>3. \A f \in File : Owed(f)' => Content'[f] = Content[f]
    BY <1>3, <2>1 DEF Content
  <2>4. \A f \in File : Kept(f) /\ Content'[f] = Content[f] => Kept(f)'
    BY <1>3 DEF Kept
  <2> QED
    BY <1>2, <1>3, <2>1, <2>2, <2>3, <2>4
<1>4. ASSUME lister' = lister, role' = role, disk' = disk, changed' = changed,
             Busy => req'[lister.task] = req[lister.task]
      PROVE  /\ lister'.left = Len(lister'.noted)
             /\ \A f \in File : Owed(f)' => Kept(f)'
  <2>1. Busy => (Listing' = Listing)
    BY <1>4 DEF Listing
  <2>2. \A f \in File : Busy /\ Owed(f)' => Owed(f)
    BY <1>4, <2>1 DEF Owed, InWindow, Content
  <2> QED
    BY <1>3, <1>4, <2>1, <2>2
<1>5. ASSUME NEW d \in Dir, NEW g \in File, Change(d, g)
      PROVE  /\ lister'.left = Len(lister'.noted)
             /\ \A f \in File : Owed(f)' => Kept(f)'
  <2>1. /\ lister' = lister /\ role' = role /\ req' = req
        /\ changed' = changed \union {<<d, g>>}
        /\ disk' = [disk EXCEPT ![d][g] = clock + 1] \/ disk' = [disk EXCEPT ![d][g] = 0]
    BY <1>5 DEF Change, nodeVars
  <2>2. Listing' = Listing
    BY <2>1 DEF Listing
  <2>3. ASSUME NEW f \in File, Busy, Owed(f)'
        PROVE  disk'[Listing.dir][f] = disk[Listing.dir][f] /\ Owed(f)
    <3>1. Listing.dir \in Dir
      BY <1>1, <2>3, ListingType
    <3>2. <<Listing.dir, f>> \notin changed /\ <<Listing.dir, f>> # <<d, g>>
      BY <2>1, <2>2, <2>3 DEF Owed
    <3>3. PICK v : disk' = [disk EXCEPT ![d][g] = v]
      BY <2>1
    <3>4. disk'[Listing.dir][f] = disk[Listing.dir][f]
      BY <1>1, <3>1, <3>2, <3>3
    <3> QED
      BY <2>2, <2>3, <3>2, <3>4 DEF Owed, InWindow, Content
  <2> QED
    BY <1>3, <2>1, <2>2, <2>3
<1>6. ASSUME NEW r \in Request, SyncDirReq(r)
      PROVE  /\ lister'.left = Len(lister'.noted)
             /\ \A f \in File : Owed(f)' => Kept(f)'
  <2>1. lister' = lister /\ role' = role /\ disk' = disk /\ changed' = changed
    BY <1>6 DEF SyncDirReq, diskVars
  <2>2. Busy => req'[lister.task] = req[lister.task]
    BY <1>1, <1>6, ListingType DEF SyncDirReq, Queue, AnswerAtOnce, nodeVars
  <2> QED
    BY <1>4, <2>1, <2>2
<1>7. ASSUME TakeRequest
      PROVE  /\ lister'.left = Len(lister'.noted)
             /\ \A f \in File : Owed(f)' => Kept(f)'
  <2>1. ~Busy
    BY <1>7 DEF TakeRequest
  <2>2. lister' # lister
    BY <2>1 DEF Sound, Busy
  <2>3. lister' = [Idle EXCEPT !.task = Head(reqs), !.unread = File]
    BY <1>7, <2>2 DEF TakeRequest
  <2>4. lister' = [task |-> Head(reqs), unread |-> File, noted |-> <<>>, left |-> 0,
                   out |-> {}, gone |-> FALSE,
                     full |-> FALSE, cut |-> FALSE]
    BY <2>3 DEF Idle
  <2> QED
    BY <2>4 DEF Kept
<1>8. ASSUME ReadName
      PROVE  /\ lister'.left = Len(lister'.noted)
             /\ \A f \in File : Owed(f)' => Kept(f)'
  <2>1. /\ Busy /\ ~lister.cut /\ role' = role /\ disk' = disk /\ changed' = changed
        /\ req' = req
    BY <1>8 DEF ReadName, diskVars, nodeVars
  <2>2. PICK g \in lister.unread :
          \/ /\ ~InWindow(g)
             /\ lister' = [task |-> lister.task, unread |-> lister.unread \ {g},
                           noted |-> lister.noted, left |-> lister.left,
                           out |-> lister.out, gone |-> lister.gone,
                           full |-> lister.full, cut |-> lister.cut]
          \/ /\ InWindow(g) /\ <<g, Content[g]>> \in Note
             /\ \E rest \in SUBSET lister.unread, full \in BOOLEAN :
                  /\ rest = lister.unread \ {g} \/ (role = "FCS" /\ full)
                  /\ lister.full => full
                  /\ lister' = [task |-> lister.task, unread |-> rest,
                                noted |-> Append(lister.noted, <<g, Content[g]>>),
                                left |-> lister.left + 1,
                                out |-> lister.out, gone |-> lister.gone,
                                full |-> full, cut |-> lister.cut]
    BY <1>1, <1>8, ReadNameCases
  <2>3. /\ lister'.task = lister.task /\ lister'.gone = lister.gone
        /\ lister'.out = lister.out /\ lister'.cut = lister.cut
        /\ lister.full => lister'.full
    BY <2>2
  <2>4. Sound /\ (role = "FCS" => ~lister'.full)
    BY <2>1, <2>3 DEF Sound
  <2>5. Listing' = Listing /\ Content' = Content
    BY <2>1, <2>3 DEF Listing, Content
  <2>6. \A f \in File : Owed(f)' => Owed(f)
    BY <2>1, <2>5 DEF Owed, InWindow
  <2>7. CASE InWindow(g)
    <3>1. /\ lister'.noted = Append(lister.noted, <<g, Content[g]>>)
          /\ lister'.left = lister.left + 1 /\ <<g, Content[g]>> \in Note
          /\ lister'.unread = lister.unread \ {g}
      BY <2>2, <2>4, <2>7
    <3>3. /\ Len(lister'.noted) = Len(lister.noted) + 1
          /\ DOMAIN lister'.noted = 1 .. Len(lister.noted) + 1
          /\ DOMAIN lister.noted = 1 .. Len(lister.noted)
          /\ lister'.noted[Len(lister.noted) + 1] = <<g, Content[g]>>
          /\ \A k \in DOMAIN lister.noted : lister'.noted[k] = lister.noted[k]
          /\ Len(lister.noted) \in Nat
      BY <1>1, <3>1
    <3>4. ASSUME NEW f \in File, Owed(f)'
          PROVE  Kept(f)'
      <4>1. Kept(f)
        BY <1>2, <2>4, <2>6, <3>4
      <4>2. CASE f = g
        BY <2>5, <3>3, <4>2 DEF Kept
      <4>3. CASE f # g
        BY <2>3, <2>5, <3>1, <3>3, <4>1, <4>3 DEF Kept
      <4> QED
        BY <4>2, <4>3
    <3> QED
      BY <1>2, <2>4, <3>1, <3>3, <3>4
  <2>8. CASE ~InWindow(g)
    <3>1. /\ lister'.noted = lister.noted /\ lister'.left = lister.left
          /\ lister'.unread = lister.unread \ {g}
      BY <2>2, <2>8
    <3>2. ASSUME NEW f \in File, Owed(f)'
          PROVE  Kept(f)'
      <4>1. Kept(f) /\ Owed(f)
        BY <1>2, <2>4, <2>6, <3>2
      <4>2. f # g
        BY <2>8, <4>1 DEF Owed
      <4> QED
        BY <2>3, <2>5, <3>1, <4>1, <4>2 DEF Kept
    <3> QED
      BY <1>2, <2>4, <3>1, <3>2
  <2> QED
    BY <2>7, <2>8
<1>9. ASSUME AddFile
      PROVE  /\ lister'.left = Len(lister'.noted)
             /\ \A f \in File : Owed(f)' => Kept(f)'
  <2>1. /\ Busy /\ ~lister.cut /\ role' = role /\ disk' = disk /\ changed' = changed
        /\ req' = req
    BY <1>9 DEF AddFile, diskVars, nodeVars
  <2> DEFINE h == Head(lister.noted)
             g == h[1]
             v == h[2]
             c == Content[g]
  <2>2. /\ lister.noted # <<>> /\ h \in Note /\ lister.left > 0
        /\ \/ /\ c = 0
              /\ lister' = [lister EXCEPT !.left = @ - 1, !.gone = TRUE,
                              !.noted = IF role = "CS" THEN Tail(@) ELSE @]
           \/ lister' = [lister EXCEPT !.cut = TRUE]
           \/ lister' = [lister EXCEPT !.left = @ - 1, !.noted = Tail(@),
                           !.out = @ \union {<<g, v, c>>}]
    BY <1>1, <1>9, AddFileCases
  <2>3. h = <<g, v>>
    BY <2>2 DEF Note
  <2>4. /\ lister.noted[1] = h /\ Len(lister.noted) \in Nat /\ Len(lister.noted) > 0
        /\ DOMAIN lister.noted = 1 .. Len(lister.noted)
        /\ Len(Tail(lister.noted)) = Len(lister.noted) - 1
        /\ DOMAIN Tail(lister.noted) = 1 .. Len(lister.noted) - 1
        /\ \A k \in 1 .. Len(lister.noted) - 1 : Tail(lister.noted)[k] = lister.noted[k + 1]
    BY <1>1, <2>2
  <2>5. \A f \in File : c = Content[g]
    OBVIOUS
  <2> HIDE DEF h, g, v, c
  <2>6. lister'.task = lister.task /\ lister'.unread = lister.unread
        /\ (lister'.cut \/ lister'.cut = lister.cut)
        /\ (lister'.gone \/ lister'.gone = lister.gone) /\ lister'.full = lister.full
    BY <1>1, <2>2
  <2>7. Listing' = Listing /\ Content' = Content
    BY <2>1, <2>6 DEF Listing, Content
  <2>8. \A f \in File : Owed(f)' => Owed(f)
    BY <2>1, <2>7 DEF Owed, InWindow
  <2>9. ~lister'.cut /\ Sound
    BY <2>1, <2>6 DEF Sound
  <2>10. ASSUME lister'.noted = Tail(lister.noted), lister'.left = lister.left - 1,
                lister.out \subseteq lister'.out,
                c = 0 \/ <<g, v, c>> \in lister'.out
         PROVE  /\ lister'.left = Len(lister'.noted)
                /\ \A f \in File : Owed(f)' => Kept(f)'
    <3>1. ASSUME NEW f \in File, Owed(f)'
          PROVE  Kept(f)'
      <4>1. Kept(f) /\ Content[f] # 0
        BY <1>2, <2>8, <2>9, <3>1 DEF Owed, InWindow
      <4>2. CASE f \in lister.unread \/ <<f, Content[f], Content[f]>> \in lister.out
        BY <2>6, <2>7, <2>10, <4>2 DEF Kept
      <4>3. CASE \E k \in DOMAIN lister.noted : lister.noted[k] = <<f, Content[f]>>
        <5>1. PICK k \in DOMAIN lister.noted : lister.noted[k] = <<f, Content[f]>>
          BY <4>3
        <5>2. CASE k = 1
          <6>1. <<g, v>> = <<f, Content[f]>>
            BY <2>3, <2>4, <5>1, <5>2
          <6>2. g = f /\ v = Content[f] /\ c = Content[f]
            BY <6>1 DEF c
          <6> QED
            BY <2>7, <2>10, <4>1, <6>2 DEF Kept
        <5>3. CASE k # 1
          <6>1. k - 1 \in 1 .. Len(lister.noted) - 1 /\ (k - 1) + 1 = k
            BY <2>4, <5>3
          <6>2. k - 1 \in DOMAIN lister'.noted /\ lister'.noted[k - 1] = <<f, Content[f]>>
            BY <2>4, <2>10, <5>1, <6>1
          <6> QED
            BY <2>7, <6>2 DEF Kept
        <5> QED
          BY <5>2, <5>3
      <4> QED
        BY <4>1, <4>2, <4>3 DEF Kept
    <3> QED
      BY <1>2, <2>4, <2>9, <2>10, <3>1
  <2>11. CASE c = 0 /\ lister' = [lister EXCEPT !.left = @ - 1, !.gone = TRUE,
                                    !.noted = IF role = "CS" THEN Tail(@) ELSE @]
    <3>1. lister'.gone = TRUE /\ lister'.left = lister.left - 1 /\ lister'.out = lister.out
          /\ lister'.noted = IF role = "CS" THEN Tail(lister.noted) ELSE lister.noted
      BY <1>1, <2>11
    <3>2. role = "CS"
      BY <1>1, <2>1, <3>1 DEF Sound
    <3> QED
      BY <2>10, <2>11, <3>1, <3>2
  <2>12. CASE lister' = [lister EXCEPT !.cut = TRUE]
    BY <1>1, <2>9, <2>12
  <2>13. CASE lister' = [lister EXCEPT !.left = @ - 1, !.noted = Tail(@),
                           !.out = @ \union {<<g, v, c>>}]
    <3>1. lister'.left = lister.left - 1 /\ lister'.noted = Tail(lister.noted)
          /\ lister'.out = lister.out \union {<<g, v, c>>}
      BY <1>1, <2>13
    <3> QED
      BY <2>10, <3>1
  <2> QED
    BY <2>2, <2>11, <2>12, <2>13
<1>10. ASSUME ListEnd
       PROVE  FALSE
  BY <1>10 DEF ListEnd, Sound, Busy, Idle
<1>11. ASSUME \/ \E c \in Cs : Connect(c) \/ Close(c)
              \/ DayPasses \/ SendAnswer \/ \E r \in Request : TooMany(r)
       PROVE  /\ lister'.left = Len(lister'.noted)
              /\ \A f \in File : Owed(f)' => Kept(f)'
  <2>1. lister' = lister /\ role' = role /\ disk' = disk /\ changed' = changed /\ req' = req
    BY <1>11 DEF Connect, Close, DayPasses, SendAnswer, TooMany, diskVars, nodeVars
  <2> QED
    BY <1>4, <2>1
<1> QED
  BY <1>5, <1>6, <1>7, <1>8, <1>9, <1>10, <1>11 DEF Next, SyncDirThread

(* A file outside the window that did not change was not put anywhere.     *)
LEMMA NothingElseKept ==
    SInv /\ Next => NothingElse'
<1> SUFFICES ASSUME SInv, Next, Busy', NEW f \in File, Outside(f)'
             PROVE  Absent(f)'
  BY DEF NothingElse
<1>1. /\ Types /\ lister.noted \in Seq(Note) /\ lister.task \notin home
      /\ disk \in [Dir -> [File -> 0 .. MaxVer]] /\ req \in [Task -> Request]
      /\ lister = [task |-> lister.task, unread |-> lister.unread, noted |-> lister.noted,
                   left |-> lister.left, out |-> lister.out, gone |-> lister.gone,
                   full |-> lister.full, cut |-> lister.cut]
  BY DEF SInv, Types, NodesApart, ListerType
<1>2. Busy /\ Outside(f) => Absent(f)
  BY DEF SInv, NothingElse
<1>3. ASSUME lister' = lister, Outside(f)
      PROVE  Absent(f)'
  BY <1>2, <1>3 DEF Absent, Busy
<1>4. ASSUME lister'.task = lister.task, disk' = disk, changed' = changed,
             Busy => req'[lister.task] = req[lister.task]
      PROVE  Outside(f) /\ Busy /\ Listing' = Listing
  BY <1>4 DEF Outside, InWindow, Content, Listing, Busy
<1>5. ASSUME NEW d \in Dir, NEW g \in File, Change(d, g)
      PROVE  Absent(f)'
  <2>1. /\ lister' = lister /\ req' = req /\ changed' = changed \union {<<d, g>>}
        /\ \E v : disk' = [disk EXCEPT ![d][g] = v]
    BY <1>5 DEF Change, nodeVars
  <2>2. Listing' = Listing /\ Busy
    BY <2>1 DEF Listing, Busy
  <2>3. Listing.dir \in Dir
    BY <1>1, <2>2, ListingType
  <2>4. <<Listing.dir, f>> \notin changed /\ <<Listing.dir, f>> # <<d, g>>
    BY <2>1, <2>2 DEF Outside
  <2>5. disk'[Listing.dir][f] = disk[Listing.dir][f]
    BY <1>1, <2>1, <2>3, <2>4
  <2>6. Outside(f)
    BY <2>2, <2>4, <2>5 DEF Outside, InWindow, Content
  <2> QED
    BY <1>3, <2>1, <2>6
<1>6. ASSUME NEW r \in Request, SyncDirReq(r)
      PROVE  Absent(f)'
  <2>1. lister' = lister /\ disk' = disk /\ changed' = changed
    BY <1>6 DEF SyncDirReq, diskVars
  <2>2. Busy => req'[lister.task] = req[lister.task]
    BY <1>1, <1>6, ListingType DEF SyncDirReq, Queue, AnswerAtOnce, nodeVars
  <2> QED
    BY <1>3, <1>4, <2>1, <2>2
<1>7. ASSUME TakeRequest
      PROVE  Absent(f)'
  <2>1. lister' # lister
    BY <1>7 DEF TakeRequest, Busy
  <2>2. lister' = [Idle EXCEPT !.task = Head(reqs), !.unread = File]
    BY <1>7, <2>1 DEF TakeRequest
  <2>3. lister'.noted = <<>> /\ lister'.out = {}
    BY <2>2 DEF Idle
  <2> QED
    BY <2>3 DEF Absent
<1>8. ASSUME ReadName
      PROVE  Absent(f)'
  <2>1. Busy /\ disk' = disk /\ changed' = changed /\ req' = req
    BY <1>8 DEF ReadName, diskVars, nodeVars
  <2>2. /\ lister'.task = lister.task /\ lister'.out = lister.out
        /\ \/ lister'.noted = lister.noted
           \/ \E g \in File : /\ InWindow(g) /\ <<g, Content[g]>> \in Note
                            /\ lister'.noted = Append(lister.noted, <<g, Content[g]>>)
    BY <1>1, <1>8, ReadNameNotes
  <2>3. Outside(f) /\ Absent(f)
    BY <1>2, <1>4, <2>1, <2>2
  <2>5. ASSUME NEW g \in File, lister'.noted = Append(lister.noted, <<g, Content[g]>>),
               InWindow(g), <<g, Content[g]>> \in Note
        PROVE  Absent(f)'
    <3> g # f
      BY <2>3, <2>5 DEF Outside
    <3>1. \A k \in DOMAIN lister'.noted :
             \/ k \in DOMAIN lister.noted /\ lister'.noted[k] = lister.noted[k]
             \/ lister'.noted[k] = <<g, Content[g]>>
      BY <1>1, <2>5
    <3>2. <<g, Content[g]>>[1] = g
      OBVIOUS
    <3> QED
      BY <2>2, <2>3, <3>1, <3>2 DEF Absent
  <2> QED
    BY <2>2, <2>3, <2>5 DEF Absent
<1>9. ASSUME AddFile
      PROVE  Absent(f)'
  <2>1. Busy /\ disk' = disk /\ changed' = changed /\ req' = req
    BY <1>9 DEF AddFile, diskVars, nodeVars
  <2> DEFINE h == Head(lister.noted)[1]
             v == Head(lister.noted)[2]
             w == Content[h]
  <2>7. /\ lister.noted # <<>>
        /\ \/ lister' = [lister EXCEPT !.left = @ - 1, !.gone = TRUE,
                           !.noted = IF role = "CS" THEN Tail(@) ELSE @]
           \/ lister' = [lister EXCEPT !.cut = TRUE]
           \/ lister' = [lister EXCEPT !.left = @ - 1, !.noted = Tail(@),
                           !.out = @ \union {<<h, v, w>>}]
    BY <1>1, <1>9, AddFileCases
  <2> HIDE DEF h, v, w
  <2>2. /\ lister.noted # <<>> /\ lister'.task = lister.task
        /\ lister'.noted = lister.noted \/ lister'.noted = Tail(lister.noted)
        /\ lister'.out = lister.out \/ lister'.out = lister.out \union {<<h, v, w>>}
    BY <1>1, <2>7
  <2>3. Absent(f)
    BY <1>2, <1>4, <2>1, <2>2
  <2>4. Head(lister.noted) = lister.noted[1] /\ 1 \in DOMAIN lister.noted
    BY <1>1, <2>2
  <2>5. h # f
    BY <2>3, <2>4 DEF Absent, h
  <2>6. \A k \in DOMAIN lister'.noted :
           \E i \in DOMAIN lister.noted : lister'.noted[k] = lister.noted[i]
    <3>1. \A k \in DOMAIN Tail(lister.noted) :
             k + 1 \in DOMAIN lister.noted /\ Tail(lister.noted)[k] = lister.noted[k + 1]
      BY <1>1, <2>2
    <3> QED
      BY <2>2, <3>1
  <2> QED
    BY <2>2, <2>3, <2>5, <2>6 DEF Absent
<1>10. ASSUME ListEnd
       PROVE  FALSE
  BY <1>10 DEF ListEnd, Busy, Idle
<1>11. ASSUME \/ \E c \in Cs : Connect(c) \/ Close(c)
              \/ DayPasses \/ SendAnswer \/ \E r \in Request : TooMany(r)
       PROVE  Absent(f)'
  <2>1. lister' = lister /\ disk' = disk /\ changed' = changed /\ req' = req
    BY <1>11 DEF Connect, Close, DayPasses, SendAnswer, TooMany, diskVars, nodeVars
  <2> QED
    BY <1>3, <1>4, <2>1
<1> QED
  BY <1>5, <1>6, <1>7, <1>8, <1>9, <1>10, <1>11 DEF Next, SyncDirThread

LEMMA SInvKept ==
    SInv /\ [Next]_vars => SInv'
<1>1. SInv /\ Next => SInv'
  BY TypesKept, NodesKept, NothingSkippedKept, NothingElseKept DEF SInv
<1>2. SInv /\ UNCHANGED vars => SInv'
  <2> SUFFICES ASSUME SInv, UNCHANGED vars
               PROVE  SInv'
    OBVIOUS
  <2>1. /\ role' = role /\ up' = up /\ disk' = disk /\ clock' = clock /\ changed' = changed
        /\ req' = req /\ home' = home /\ reqs' = reqs /\ rsps' = rsps
        /\ lister' = lister /\ given' = given
    BY DEF vars, diskVars, nodeVars
  <2>2. Types'
    BY <2>1 DEF SInv, Types, ListerType
  <2>3. NodesApart'
    BY <2>1 DEF SInv, NodesApart
  <2>4. NothingSkipped'
    BY <2>1 DEF SInv, NothingSkipped, Sound, Busy, Owed, InWindow, Kept, Content, Listing
  <2>5. NothingElse'
    BY <2>1 DEF SInv, NothingElse, Busy, Outside, InWindow, Absent, Content, Listing
  <2> QED
    BY <2>2, <2>3, <2>4, <2>5 DEF SInv
<1> QED
  BY <1>1, <1>2

(* Whoever asks for a directory, and whatever is written and deleted in it *)
(* meanwhile, a listing that is finished holds of the files that stood     *)
(* still exactly those with a ctime between the asker's starttime and      *)
(* endtime, each with its own md5, unless the answer was longer than       *)
(* MAXSYNCBUF or, on an FCS, there were more than MAXFILE of them or a     *)
(* file noted had gone (sync_dir_thread, process_dir_sync).                *)
THEOREM ListingIsSound ==
    Spec => []ListingSound
<1>1. Init => SInv
  BY SInvAtFirst
<1>2. SInv /\ [Next]_vars => SInv'
  BY SInvKept
<1>3. SInv => ListingSound
  BY SInvIsSound
<1> QED
  BY <1>1, <1>2, <1>3, PTL DEF Spec

----------------------------------------------------------------------------
(* Serve implements what DirService promises, liveness aside               *)

OwedNow == [c \in Cs |-> [d \in Dir |-> Pending(c, d)]]
AtWork(c, d) == {t \in Task \ home : req[t].cs = c /\ req[t].dir = d}

LEMMA AtWorkIsFinite ==
    ASSUME NEW c, NEW d
    PROVE  /\ IsFiniteSet(AtWork(c, d)) /\ Pending(c, d) = Cardinality(AtWork(c, d))
           /\ Pending(c, d) \in Nat
<1>1. AtWork(c, d) \subseteq Task /\ IsFiniteSet(Task)
  BY ServeAssumption DEF AtWork
<1>2. IsFiniteSet(AtWork(c, d))
  BY <1>1, FS_Subset
<1>3. Pending(c, d) = Cardinality(AtWork(c, d))
  BY DEF Pending, AtWork
<1> QED
  BY <1>2, <1>3, FS_CardinalityType

LEMMA OwedStays ==
    ASSUME home' = home, req' = req
    PROVE  OwedNow' = OwedNow
BY DEF OwedNow, Pending

(* A request left to a node is owed; a node taken back owes no longer.     *)
LEMMA OwedGrows ==
    ASSUME Types, NEW t \in home, NEW r \in Request,
           home' = home \ {t}, req' = [req EXCEPT ![t] = r]
    PROVE  OwedNow' = [OwedNow EXCEPT ![r.cs][r.dir] = @ + 1]
<1>1. t \in Task /\ r.cs \in Cs /\ r.dir \in Dir /\ req \in [Task -> Request]
  BY DEF Types, Request
<1>2. ASSUME NEW c \in Cs, NEW d \in Dir, c # r.cs \/ d # r.dir
      PROVE  Pending(c, d)' = Pending(c, d)
  <2>1. AtWork(c, d)' = AtWork(c, d)
    BY <1>1, <1>2 DEF AtWork
  <2> QED
    BY <2>1 DEF Pending, AtWork
<1>3. Pending(r.cs, r.dir)' = Pending(r.cs, r.dir) + 1
  <2>1. AtWork(r.cs, r.dir)' = AtWork(r.cs, r.dir) \union {t}
    BY <1>1 DEF AtWork
  <2>2. t \notin AtWork(r.cs, r.dir)
    BY DEF AtWork
  <2>3. Cardinality(AtWork(r.cs, r.dir) \union {t}) = Cardinality(AtWork(r.cs, r.dir)) + 1
    BY <2>2, AtWorkIsFinite, FS_AddElement
  <2> QED
    BY <2>1, <2>3 DEF Pending, AtWork
<1>4. OwedNow' = [c \in Cs |-> [d \in Dir |-> Pending(c, d)']]
  BY DEF OwedNow
<1>5. [OwedNow EXCEPT ![r.cs][r.dir] = @ + 1]
      = [c \in Cs |-> [d \in Dir |->
            IF c = r.cs /\ d = r.dir THEN Pending(c, d) + 1 ELSE Pending(c, d)]]
  <2> DEFINE P(c, d) == Pending(c, d)
  <2> HIDE DEF P
  <2>1. OwedNow = [c \in Cs |-> [d \in Dir |-> P(c, d)]]
    BY DEF OwedNow, P
  <2>2. [OwedNow EXCEPT ![r.cs][r.dir] = @ + 1]
        = [c \in Cs |-> [d \in Dir |->
              IF c = r.cs /\ d = r.dir THEN P(c, d) + 1 ELSE P(c, d)]]
    BY <1>1, <2>1
  <2> QED
    BY <2>2 DEF P
<1> QED
  BY <1>2, <1>3, <1>4, <1>5

LEMMA OwedShrinks ==
    ASSUME Types, NEW t \in Task, t \notin home,
           home' = home \union {t}, req' = req
    PROVE  /\ Pending(req[t].cs, req[t].dir) > 0
           /\ OwedNow' = [OwedNow EXCEPT ![req[t].cs][req[t].dir] = @ - 1]
<1>1. PICK a \in Cs, b \in Dir : a = req[t].cs /\ b = req[t].dir
  BY DEF Types, Request
<1>2. ASSUME NEW c \in Cs, NEW d \in Dir, c # a \/ d # b
      PROVE  Pending(c, d)' = Pending(c, d)
  <2>1. AtWork(c, d)' = AtWork(c, d)
    BY <1>1, <1>2 DEF AtWork
  <2> QED
    BY <2>1 DEF Pending, AtWork
<1>3. Pending(a, b)' = Pending(a, b) - 1 /\ Pending(a, b) > 0
  <2>1. AtWork(a, b)' = AtWork(a, b) \ {t}
    BY <1>1 DEF AtWork
  <2>2. t \in AtWork(a, b)
    BY <1>1 DEF AtWork
  <2>3. Cardinality(AtWork(a, b) \ {t}) = Cardinality(AtWork(a, b)) - 1
    BY <2>2, AtWorkIsFinite, FS_RemoveElement
  <2>4. Cardinality(AtWork(a, b) \ {t}) \in Nat
    BY AtWorkIsFinite, FS_RemoveElement, FS_CardinalityType
  <2>5. Pending(a, b)' = Cardinality(AtWork(a, b) \ {t})
    BY <2>1 DEF Pending, AtWork
  <2> QED
    BY <2>3, <2>4, <2>5, AtWorkIsFinite
<1>4. OwedNow' = [c \in Cs |-> [d \in Dir |-> Pending(c, d)']]
  BY DEF OwedNow
<1>5. [OwedNow EXCEPT ![a][b] = @ - 1]
      = [c \in Cs |-> [d \in Dir |->
            IF c = a /\ d = b THEN Pending(c, d) - 1 ELSE Pending(c, d)]]
  <2> DEFINE P(c, d) == Pending(c, d)
  <2> HIDE DEF P
  <2>1. OwedNow = [c \in Cs |-> [d \in Dir |-> P(c, d)]]
    BY DEF OwedNow, P
  <2>2. [OwedNow EXCEPT ![a][b] = @ - 1]
        = [c \in Cs |-> [d \in Dir |->
              IF c = a /\ d = b THEN P(c, d) - 1 ELSE P(c, d)]]
    BY <1>1, <2>1
  <2> QED
    BY <2>2 DEF P
<1>6. OwedNow' = [OwedNow EXCEPT ![a][b] = @ - 1]
  BY <1>2, <1>3, <1>4, <1>5
<1> QED
  BY <1>1, <1>3, <1>6

LEMMA ServiceAtFirst ==
    Init => Service!Init
<1> SUFFICES ASSUME Init
             PROVE  Service!Init
  OBVIOUS
<1>1. up = {} /\ given = [c \in Cs |-> [d \in Dir |-> 0]] /\ home = Task
  BY DEF Init
<1>2. ASSUME NEW c \in Cs, NEW d \in Dir
      PROVE  Pending(c, d) = 0
  <2>1. AtWork(c, d) = {}
    BY <1>1 DEF AtWork
  <2> QED
    BY <2>1, AtWorkIsFinite, FS_EmptySet
<1>3. OwedNow = [c \in Cs |-> [d \in Dir |-> 0]]
  BY <1>2 DEF OwedNow
<1> QED
  BY <1>1, <1>3 DEF Service!Init, Service!None, OwedNow

LEMMA ServiceSteps ==
    SInv /\ [Next]_vars => [Service!Next]_(Service!vars)
<1> SUFFICES ASSUME SInv, [Next]_vars
             PROVE  [Service!Next]_(Service!vars)
  OBVIOUS
<1>1. Types /\ NodesApart
  BY DEF SInv
<1>2. ASSUME up' = up, OwedNow' = OwedNow, given' = given
      PROVE  UNCHANGED Service!vars
  BY <1>2 DEF Service!vars, OwedNow
<1>3. ASSUME NEW c \in Cs,
             (up' = up \union {c} /\ c \notin up) \/ (up' = up \ {c} /\ c \in up),
             home' = home, req' = req, given' = given
      PROVE  Service!Next
  <2>1. OwedNow' = OwedNow
    BY <1>3, OwedStays
  <2>2. Service!Connect(c) \/ Service!Close(c)
    BY <1>3, <2>1 DEF Service!Connect, Service!Close, OwedNow
  <2> QED
    BY <2>2 DEF Service!Next
<1>4. ASSUME NEW c \in Cs, Connect(c) \/ Close(c)
      PROVE  Service!Next
  <2>1. /\ (up' = up \union {c} /\ c \notin up) \/ (up' = up \ {c} /\ c \in up)
        /\ home' = home /\ req' = req /\ given' = given
    BY <1>4 DEF Connect, Close, nodeVars
  <2> QED
    BY <1>3, <2>1
<1>5. ASSUME NEW r \in Request, TooMany(r)
      PROVE  Service!Next
  BY <1>3, <1>5 DEF TooMany, nodeVars, Request
<1>6. ASSUME NEW r \in Request, SyncDirReq(r)
      PROVE  Service!Next
  <2>1. r.cs \in Cs /\ r.dir \in Dir /\ r.cs \in up /\ up' = up
    BY <1>6 DEF SyncDirReq, Request
  <2>2. CASE Queue(r)
    <3>1. PICK t \in home : home' = home \ {t} /\ req' = [req EXCEPT ![t] = r]
      BY <2>2 DEF Queue
    <3>2. OwedNow' = [OwedNow EXCEPT ![r.cs][r.dir] = @ + 1]
      BY <1>1, <3>1, OwedGrows
    <3>3. Service!TakeOn(r.cs, r.dir)
      BY <2>1, <2>2, <3>2 DEF Service!TakeOn, OwedNow, Queue
    <3> QED
      BY <2>1, <3>3 DEF Service!Next
  <2>3. CASE AnswerAtOnce(r)
    <3>1. OwedNow' = OwedNow
      BY <2>3, OwedStays DEF AnswerAtOnce, nodeVars
    <3>2. Service!AnswerAtOnce(r.cs, r.dir)
      BY <2>1, <2>3, <3>1 DEF Service!AnswerAtOnce, OwedNow, AnswerAtOnce
    <3> QED
      BY <2>1, <3>2 DEF Service!Next
  <2> QED
    BY <1>6, <2>2, <2>3 DEF SyncDirReq
<1>7. ASSUME SendAnswer
      PROVE  Service!Next
  <2>1. PICK t \in Task : t = Head(rsps) /\ t \notin home
    <3>1. Head(rsps) = rsps[1] /\ Head(rsps) \in Task /\ 1 \in DOMAIN rsps
      BY <1>1, <1>7 DEF SendAnswer, Types
    <3> QED
      BY <1>1, <3>1 DEF NodesApart
  <2>2. PICK c \in Cs, d \in Dir : c = req[t].cs /\ d = req[t].dir
    BY <1>1 DEF Types, Request
  <2>3. /\ home' = home \union {t} /\ req' = req /\ up' = up
        /\ given' = IF c \in up THEN [given EXCEPT ![c][d] = @ + 1] ELSE given
    BY <1>7, <2>1, <2>2 DEF SendAnswer, Returned
  <2>4. Pending(c, d) > 0 /\ OwedNow' = [OwedNow EXCEPT ![c][d] = @ - 1]
    BY <1>1, <2>1, <2>2, <2>3, OwedShrinks
  <2>5. OwedNow[c][d] > 0
    BY <2>4 DEF OwedNow
  <2>6. CASE c \in up
    <3>1. Service!Answer(c, d)
      BY <2>3, <2>4, <2>5, <2>6 DEF Service!Answer, OwedNow
    <3> QED
      BY <3>1 DEF Service!Next, Service!Settle
  <2>7. CASE c \notin up
    <3>1. Service!Drop(c, d)
      BY <2>3, <2>4, <2>5, <2>7 DEF Service!Drop, OwedNow
    <3> QED
      BY <3>1 DEF Service!Next, Service!Settle
  <2> QED
    BY <2>6, <2>7
<1>8. ASSUME up' = up, home' = home, req' = req, given' = given
      PROVE  UNCHANGED Service!vars
  BY <1>2, <1>8, OwedStays
<1>9. ASSUME \/ \E d \in Dir, f \in File : Change(d, f)
             \/ DayPasses \/ SyncDirThread \/ UNCHANGED vars
      PROVE  UNCHANGED Service!vars
  BY <1>8, <1>9
     DEF Change, DayPasses, SyncDirThread, TakeRequest, ReadName, AddFile, ListEnd,
         nodeVars, vars
<1> QED
  BY <1>4, <1>5, <1>6, <1>7, <1>9 DEF Next

(* Every request that is taken on is answered at most once, to the asker   *)
(* and for the directory it named, and forgotten only when the asker has   *)
(* no connection; that it is settled in the end stays with the run         *)
(* (do_sync_dir_req, do_fin_task).                                         *)
THEOREM ServiceIsKept ==
    Spec => Service!Safety
<1>1. Init => SInv /\ Service!Init
  BY SInvAtFirst, ServiceAtFirst
<1>2. SInv /\ [Next]_vars => SInv'
  BY SInvKept
<1>3. SInv /\ [Next]_vars => [Service!Next]_(Service!vars)
  BY ServiceSteps
<1> QED
  BY <1>1, <1>2, <1>3, PTL DEF Spec, Service!Safety
=============================================================================
