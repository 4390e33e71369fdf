-------------------------------- MODULE Conn --------------------------------
(***************************************************************************)
(* The connections of a signalling thread and the loop that serves them    *)
(* (network/vfs_so.c): epoll in edge-triggered mode, a receive and a send  *)
(* buffer for each connection, and the service's callbacks, of which the   *)
(* liveness of peers is kept here (tracker, cs and fcs vfs_sig.c).         *)
(* Heartbeat is what it promises about silent peers.                       *)
(*                                                                         *)
(* An edge-triggered descriptor is reported once: whoever is told of it    *)
(* and leaves something unread, or unsent, is not told again until the     *)
(* kernel sees a change or the descriptor's events are set anew.           *)
(***************************************************************************)
EXTENDS Integers, FiniteSets

CONSTANTS
    Peer,
    Probed,   \* the peers that get heartbeats
    AtOnce,   \* do_req returns RECV_SEND for what it answers (an FCS),
              \* RECV_ADD_EPOLLOUT otherwise (a tracker, a CS)
    Timeout,  \* g_config.timeout
    Times,    \* a peer is closed after Timeout * Times (10 in the code)
    Tasks     \* bound on the tasks sent

ASSUME TimeAssumption ==
    /\ IsFiniteSet(Peer) /\ Probed \subseteq Peer /\ AtOnce \in BOOLEAN
    /\ Timeout \in Nat \ {0} /\ Times \in Nat \ {0, 1}
    /\ Tasks \in Nat

(* A message is answered ("ask": a heartbeat, an ADDONE_REQ) or not        *)
(* ("tell": an answer, or a message that is not all there yet).            *)
Kind == {"ask", "tell"}

VARIABLES
    conn,    \* acon, and the socket behind each entry
    ahead,   \* activelist: for each peer it links, those it links before it
    age,     \* now - peer->hbtime
    work     \* tasks sent so far

vars == <<conn, ahead, age, work>>

(* An entry of acon with fd < 0.                                           *)
Gone == [up |-> FALSE]

(* An entry just made.  inq is what lies unread in the socket and fin that *)
(* the peer has closed; queued is data in send_buff, stuck a socket that   *)
(* takes no more, out EPOLLOUT in its events, ready its place on epoll's   *)
(* ready list; heard tells that svc_recv or svc_send has been called.      *)
Fresh == [up |-> TRUE, inq |-> {}, fin |-> FALSE, queued |-> FALSE, stuck |-> FALSE,
          out |-> FALSE, ready |-> FALSE, heard |-> FALSE]

(* What epoll_wait would find to report.                                   *)
Readable(c) == c.inq # {} \/ c.fin
Writable(c) == c.out /\ ~c.stuck

(* modify_fd_event: epoll looks at the descriptor anew.  Seeded fault: it  *)
(* does not.                                                               *)
SetOnly(c, o) == [c EXCEPT !.out = o]
Modified(c, o) ==
    [c EXCEPT !.out = o, !.ready = Readable(c) \/ (o /\ ~c.stuck)]

(* set_client_data and modify_fd_event, in active_send.  Seeded fault:     *)
(* without EPOLLOUT.                                                       *)
QueuedOnly(c) == Modified([c EXCEPT !.queued = TRUE], FALSE)
Queued(c) == Modified([c EXCEPT !.queued = TRUE], TRUE)

(* do_send.  All of send_buff goes, if there is anything, and svc_send is  *)
(* called; or the socket takes a part of it, or nothing; or the peer is    *)
(* gone.                                                                   *)
Left(c) == Modified([c EXCEPT !.stuck = TRUE], TRUE)
Sent(c) ==
    LET all == Modified([c EXCEPT !.queued = FALSE, !.heard = TRUE], FALSE)
    IN  IF ~c.queued THEN {all}
        ELSE {Left(c)} \union {d \in {all} : ~c.stuck} \union {d \in {Gone} : c.fin}

(* svc_recv: do_req for each message; the values it returns, or'ed.        *)
Returned(msgs) ==
    {"in"} \union (IF "ask" \in msgs THEN {IF AtOnce THEN "send" ELSE "out"} ELSE {})

(* do_recv, with something to read.  It reads until the socket gives less  *)
(* than asked for or, if that was an even number of buffers, until EAGAIN, *)
(* when it sets the events; or finds the peer gone with its last messages  *)
(* unserved.  A message that check_req refuses closes the connection.      *)
Received(c) ==
    LET read == [c EXCEPT !.inq = {}, !.queued = @ \/ "ask" \in c.inq, !.heard = TRUE]
        ret == Returned(c.inq)
        Served(d) == CASE ret = {"in"} -> {Modified(d, FALSE)}
                       [] ret = {"in", "out"} -> {Modified(d, TRUE)}
                       [] ret = {"send"} -> Sent(d)
                       [] OTHER -> {d}
    IN  {Gone} \union
        (IF c.inq = {} THEN {} ELSE Served(read) \union Served(Modified(read, FALSE)))

(* do_process, told of events in and out.                                  *)
Processed(c, in, out) ==
    LET got == IF in THEN Received(c) ELSE {c}
    IN  IF out THEN UNION {IF d.up THEN Sent(d) ELSE {d} : d \in got} ELSE got

Init ==
    /\ conn = [p \in Peer |-> Gone]
    /\ ahead = [p \in {} |-> {}]
    /\ age = [p \in Peer |-> 0]
    /\ work = 0

Up == {p \in Peer : conn[p].up}

(* list_move_tail, list_del.  Seeded fault: list_add_tail, which leaves p  *)
(* where it was as well.                                                   *)
AddToTail(p) ==
    [q \in Up \union {p} |-> IF q = p THEN Up ELSE ahead[q]]
MoveToTail(p) ==
    [q \in Up \union {p} |-> IF q = p THEN Up \ {p} ELSE ahead[q] \ {p}]
Without(ps) == [q \in Up \ ps |-> ahead[q] \ ps]

(* accept_new: svc_initconn refuses a peer that is connected already.      *)
Accept(p) ==
    /\ p \notin Up
    /\ conn' = [conn EXCEPT ![p] = Fresh]
    /\ ahead' = MoveToTail(p)
    /\ age' = [age EXCEPT ![p] = 0]
    /\ UNCHANGED work

(* A message arrives; the peer closes; the peer takes data from a full     *)
(* socket.  The kernel puts the descriptor on the ready list.              *)
Arrive(p, k) ==
    /\ p \in Up /\ ~conn[p].fin /\ k \notin conn[p].inq
    /\ conn' = [conn EXCEPT ![p].inq = @ \union {k}, ![p].ready = TRUE]
    /\ UNCHANGED <<ahead, age, work>>

PeerCloses(p) ==
    /\ p \in Up /\ ~conn[p].fin
    /\ conn' = [conn EXCEPT ![p].fin = TRUE, ![p].ready = TRUE]
    /\ UNCHANGED <<ahead, age, work>>

Drain(p) ==
    /\ p \in Up /\ conn[p].stuck
    /\ conn' = [conn EXCEPT ![p].stuck = FALSE, ![p].ready = @ \/ conn[p].out]
    /\ UNCHANGED <<ahead, age, work>>

(* The loop takes p off the ready list and serves it.                      *)
Event(p) ==
    LET c == conn[p]
        told == [c EXCEPT !.ready = FALSE]
    IN  /\ p \in Up /\ c.ready
        /\ \E d \in Processed(told, Readable(c), Writable(c)) :
             /\ conn' = [conn EXCEPT ![p] = IF d.up THEN [d EXCEPT !.heard = FALSE] ELSE d]
             /\ ahead' = IF ~d.up THEN Without({p}) ELSE IF d.heard THEN MoveToTail(p) ELSE ahead
             /\ age' = IF d.up /\ d.heard THEN [age EXCEPT ![p] = 0] ELSE age
        /\ UNCHANGED work

AgeNow == [p \in Peer |-> IF p \in Up THEN age[p] + 1 ELSE age[p]]
To == Timeout * Times

(* svc_timeout's pass stops at the first peer younger than Timeout.        *)
(* Seeded fault: it goes on.                                               *)
ScannedAll == {p \in Up : AgeNow[p] >= Timeout}
Scanned == {p \in Up : \A q \in ahead[p] \union {p} : AgeNow[q] >= Timeout}
Beaten == {p \in Scanned \intersect Probed : AgeNow[p] > Timeout /\ AgeNow[p] < To}

(* The peers closed in the pass.  Seeded fault: no one is.                 *)
NoneClosed == {}
Closed == {p \in Scanned : AgeNow[p] > To}

(* svc_timeout, one unit of time later: heartbeats and closes; then        *)
(* scan_cfg_iplist_and_connect connects to the peer of new, if there is    *)
(* one, and tells it who we are; then check_task sends a task to each of   *)
(* busy.  The code may connect to more in one tick, the model does in      *)
(* several.                                                                *)
Passed(new) ==
    [q \in (Up \ Closed) \union new |->
       IF q \in new THEN Up \ Closed ELSE ahead[q] \ Closed]
SvcTimeout(new, busy) ==
    /\ new \in {{}} \union {{p} : p \in Probed \ (Up \ Closed)}
    /\ busy \subseteq (Up \ Closed) \union new
    /\ work + Cardinality(busy) =< Tasks
    /\ conn' = [p \in Peer |->
                  IF p \in new THEN Queued(Fresh)
                  ELSE IF p \in Closed THEN Gone
                  ELSE IF p \in Beaten \union busy THEN Queued(conn[p])
                  ELSE conn[p]]
    /\ ahead' = Passed(new)
    /\ age' = [p \in Peer |->
                 IF p \in Beaten \union new \union busy THEN 0 ELSE AgeNow[p]]
    /\ work' = work + Cardinality(busy)

Next ==
    \/ \E p \in Peer : Accept(p) \/ PeerCloses(p) \/ Drain(p) \/ Event(p)
    \/ \E p \in Peer, k \in Kind : Arrive(p, k)
    \/ \E new, busy \in SUBSET Peer : SvcTimeout(new, busy)

(* The loop goes on: it waits for a second at most, and calls svc_timeout  *)
(* when cktimeout is over.                                                 *)
Ticks == \E new, busy \in SUBSET Peer : SvcTimeout(new, busy)
Spec == Init /\ [][Next]_vars /\ WF_vars(Ticks)

----------------------------------------------------------------------------
(* Properties                                                              *)

HB == INSTANCE Heartbeat

(* Every variable stays in its domain; activelist links exactly the peers  *)
(* that are connected, each once.                                          *)
TypeOK ==
    /\ \A p \in Up : conn[p] \in [up : {TRUE}, inq : SUBSET Kind, fin : BOOLEAN,
                                  queued : BOOLEAN, stuck : BOOLEAN, out : BOOLEAN,
                                  ready : BOOLEAN, heard : {FALSE}]
    /\ DOMAIN ahead = Up /\ HB!TypeOK

(* No wake-up is lost to edge triggering: a peer with something unread, or *)
(* with room for what EPOLLOUT was asked for, is on the ready list.        *)
NoLostWakeUp == \A p \in Up : Readable(conn[p]) \/ Writable(conn[p]) => conn[p].ready

(* A silent peer is closed in time: IdleIsClosed of Heartbeat.             *)
IdleIsClosed == HB!IdleIsClosed

(* The loop has all connections in its list, is told of each that has      *)
(* something for it, and closes those that stay silent.                    *)
LoopSound == TypeOK /\ NoLostWakeUp /\ IdleIsClosed

(* Data waiting in send_buff without EPOLLOUT: do_recv takes EPOLLOUT away *)
(* when what it read needed no answer.                                     *)
Stalled(p) == p \in Up /\ conn[p].queued /\ ~conn[p].out

(* A stalled connection does not stay so in silence: the next heartbeat    *)
(* asks for EPOLLOUT again, unless the peer is closed or sends something.  *)
StallEnds == \A p \in Probed : Stalled(p) ~> (~Stalled(p) \/ conn[p].inq # {})

(* The pass over the peers, seen from activelist and the ages alone.        *)
PassSpec == HB!Spec

(* global.h:48 says of RECV_SEND: do_recv need to send at once.  Whoever   *)
(* asked is answered, or its answer waits for EPOLLOUT, when do_recv ends. *)
SentAtOnce ==
    [][\A p \in Peer :
         p \in Up /\ "ask" \in conn[p].inq /\ conn'[p].up /\ conn'[p].inq = {} =>
           ~conn'[p].queued \/ conn'[p].out]_vars
=============================================================================
