----------------------------- MODULE SyncLimit -----------------------------
(***************************************************************************)
(* check_count_one_day of network/fcs/vfs_sig_sub.c: how many SYNC_DIR_REQs*)
(* of CSs an FCS takes on.  The function keeps a count and the time `last' *)
(* its day began; both are static.                                         *)
(***************************************************************************)
EXTENDS Integers, Sequences

CONSTANTS
    Day,    \* 86400 s, in the model's unit of time
    Limit   \* g_config.sync_dir_count

VARIABLES
    since,   \* time(NULL) - last, Day standing for that or more
    begun,   \* last # 0: the function has been called
    count,
    taken    \* history: how long ago each request was taken on, in their order,
             \* Day standing for that or more

vars == <<since, begun, count, taken>>

Init ==
    /\ since = 0
    /\ begun = FALSE
    /\ count = 0
    /\ taken = <<>>

TakeOn == taken' = Append(taken, 0)

(* The first call starts the day.                                          *)
Elapsed == IF begun THEN since ELSE 0

(* Below the limit: counted, whatever day it is.                           *)
Count ==
    /\ count < Limit
    /\ count' = count + 1
    /\ since' = Elapsed /\ begun' = TRUE
    /\ TakeOn

(* At the limit and a day after it began: a new day.  Seeded fault: the    *)
(* request that opens the day is not counted.                              *)
CountFromZero == 0
CountFromOne == 1
NewDay ==
    /\ count >= Limit /\ Elapsed = Day
    /\ count' = CountFromOne
    /\ since' = 0 /\ begun' = TRUE
    /\ TakeOn

(* At the limit: the connection of the CS is closed.                       *)
Refuse ==
    /\ count >= Limit /\ Elapsed < Day
    /\ since' = Elapsed /\ begun' = TRUE
    /\ UNCHANGED <<count, taken>>

Older(a) == IF a < Day THEN a + 1 ELSE a
Tick ==
    /\ since' = IF begun THEN Older(since) ELSE since
    /\ taken' = [i \in DOMAIN taken |-> Older(taken[i])]
    /\ UNCHANGED <<begun, count>>

Next == Count \/ NewDay \/ Refuse \/ Tick

Spec == Init /\ [][Next]_vars

----------------------------------------------------------------------------
(* Properties                                                              *)

(* However requests come, any span of a day takes on less than twice the   *)
(* limit, the tail of one count and the whole of the next: the request     *)
(* that many before the last was taken on a day ago.                       *)
LessThanTwice ==
    Limit > 0 =>
      \A i \in DOMAIN taken : i + 2 * Limit - 1 =< Len(taken) => taken[i] = Day
=============================================================================
