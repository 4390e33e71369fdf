----------------------------- MODULE Heartbeat -----------------------------
(***************************************************************************)
(* What the pass of svc_timeout over activelist promises: how long a       *)
(* connected peer may go without being heard of (network/tracker/vfs_sig.c,*)
(* network/cs/vfs_sig.c, network/fcs/vfs_sig.c).  Only the list and the    *)
(* hbtimes are left here; Conn has the connections themselves.             *)
(*                                                                         *)
(* Probed are the peers this process sends heartbeats to: on a tracker all *)
(* but the CSs, on a CS all, on an FCS none.  The unit of time is the      *)
(* interval between two calls of svc_timeout.                              *)
(***************************************************************************)
EXTENDS Integers, FiniteSets

CONSTANTS
    Peer,
    Probed,
    Timeout,  \* g_config.timeout
    Times,    \* a peer is closed after Timeout * Times (10 in the code)
    Tasks     \* bound on the tasks sent

TimeParameters ==
    /\ IsFiniteSet(Peer) /\ Probed \subseteq Peer
    /\ Timeout \in Nat \ {0} /\ Times \in Nat \ {0, 1}
    /\ Tasks \in Nat

To == Timeout * Times

VARIABLES
    ahead,   \* activelist: for each peer it links, those it links before it
    age,     \* now - peer->hbtime
    work     \* tasks sent so far

vars == <<ahead, age, work>>

Init ==
    /\ ahead = [p \in {} |-> {}]
    /\ age = [p \in Peer |-> 0]
    /\ work = 0

Up == DOMAIN ahead

(* list_move_tail, list_del.                                               *)
MoveToTail(p) ==
    [q \in Up \union {p} |-> IF q = p THEN Up \ {p} ELSE ahead[q] \ {p}]
Without(ps) == [q \in Up \ ps |-> ahead[q] \ ps]

(* svc_initconn, for a connection accepted.                                *)
Connect(p) ==
    /\ p \notin Up
    /\ ahead' = MoveToTail(p)
    /\ age' = [age EXCEPT ![p] = 0]
    /\ UNCHANGED work

(* svc_recv, or svc_send once all of send_buff is gone.                    *)
Heard(p) ==
    /\ p \in Up
    /\ ahead' = MoveToTail(p)
    /\ age' = [age EXCEPT ![p] = 0]
    /\ UNCHANGED work

(* do_close.                                                               *)
Lost(p) ==
    /\ p \in Up
    /\ ahead' = Without({p})
    /\ UNCHANGED <<age, work>>

(* The pass stops at the first peer younger than Timeout.                  *)
AgeNow == [p \in Peer |-> IF p \in Up THEN age[p] + 1 ELSE age[p]]
Scanned == {p \in Up : \A q \in ahead[p] \union {p} : AgeNow[q] >= Timeout}

(* Heartbeats go out between Timeout and To; active_send sets hbtime and   *)
(* leaves the peer where it is in activelist.                              *)
Beaten == {p \in Scanned \intersect Probed : AgeNow[p] > Timeout /\ AgeNow[p] < To}

(* The peers closed in the pass.                                           *)
Closed == {p \in Scanned : AgeNow[p] > To}

(* svc_timeout, one unit of time later: the pass; then the peer of new, if *)
(* there is one, is connected to and linked last (a second one that is     *)
(* connected to in the same tick is a Connect right after); then a task is *)
(* sent to each of busy.                                                   *)
Passed(new) ==
    [q \in (Up \ Closed) \union new |->
       IF q \in new THEN Up \ Closed ELSE ahead[q] \ Closed]
SvcTimeout(new, busy) ==
    /\ new \in {{}} \union {{p} : p \in Probed \ (Up \ Closed)}
    /\ busy \subseteq (Up \ Closed) \union new
    /\ work + Cardinality(busy) =< Tasks
    /\ ahead' = Passed(new)
    /\ age' = [p \in Peer |->
                 IF p \in Beaten \union new \union busy THEN 0 ELSE AgeNow[p]]
    /\ work' = work + Cardinality(busy)

Next ==
    \/ \E p \in Peer : Connect(p) \/ Heard(p) \/ Lost(p)
    \/ \E new, busy \in SUBSET Peer : SvcTimeout(new, busy)

Spec == Init /\ [][Next]_vars

----------------------------------------------------------------------------
(* Properties                                                              *)

(* Every variable stays in its domain; activelist links a peer once.       *)
TypeOK ==
    /\ Up \subseteq Peer
    /\ \A p, q \in Up :
         /\ ahead[p] \subseteq Up \ {p}
         /\ p # q => (p \in ahead[q] <=> q \notin ahead[p])
         /\ p \in ahead[q] => ahead[p] \subseteq ahead[q]
    /\ age \in [Peer -> Nat]
    /\ work \in 0 .. Tasks

(* How long the peers ahead of one in activelist can hold the pass up      *)
(* before it.  A heartbeat sets the hbtime of a peer that never gets it,   *)
(* and the pass stops there for one Timeout; a peer the pass could not     *)
(* come to meanwhile gets its own when the one that held it up is gone.    *)
HoldUp == 3 * Timeout - 2

(* A peer that neither sends nor is sent anything is closed soon after To: *)
(* it is held up once, and each task sent to a peer ahead of it may hold   *)
(* it up once more.                                                        *)
IdleIsClosed == \A p \in Up : age[p] =< To + HoldUp * (1 + work)
=============================================================================
