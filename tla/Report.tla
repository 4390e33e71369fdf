------------------------------- MODULE Report -------------------------------
(***************************************************************************)
(* How the outcome of a task gets to the voss master.  The agent thread of *)
(* every server (vfs_agent.c) takes finished tasks, writes a line about    *)
(* each, and sends the lines over a connection to the master, or puts them *)
(* in a file of its tmpdir while there is none; the master                 *)
(* (voss/vfs_voss.c, voss/vfs_voss_sub.c) writes what it receives to a log *)
(* per connection and moves the log to outdir, where the CDC fetches it.   *)
(* The master also passes commands of its operator on; the answers come    *)
(* back over the same connection.                                          *)
(*                                                                         *)
(* Bytes are counted in units: a message head, a line, or a message whose  *)
(* body does not matter (login, heartbeat, answer).                        *)
(***************************************************************************)
EXTENDS Naturals, Sequences, FiniteSets, SequencesExt

CONSTANTS
    Rep,       \* the lines, one per finished task
    Conn,      \* connections of the agent to the master; an old one may be there with a new
    MaxFile,   \* bound on the files of tmpdir
    MaxBreak,  \* bound on the connections that break, and deaths of the master
    MaxCmd     \* bound on the commands

NoConn == "none"

ASSUME ReportAssumption ==
    /\ IsFiniteSet(Rep) /\ IsFiniteSet(Conn) /\ NoConn \notin Conn
    /\ MaxFile \in Nat /\ MaxBreak \in Nat /\ MaxCmd \in Nat

Begin(n) == [t |-> "head", n |-> n]
Line(r) == [t |-> "line", r |-> r]
Word(t) == [t |-> t]
Unit == {Word(t) : t \in {"auth", "beat", "answer"}} \union {Line(r) : r \in Rep}
        \union {Begin(n) : n \in 1 .. Cardinality(Rep)}

VARIABLES
    running, clean, \* lines of tasks under way, and of those in TASK_CLEAN
    tmp,      \* tmpdir: the lines of each file, the newest first
    fresh,    \* the newest file of tmpdir is of this hour
    at,       \* the agent: the connection it has, or none
    index,    \* g_tmp_index + 1: the files of tmp it has still to send
    buff,     \* mybuff: the data of send_buff,
    file,     \*         and the part of a file that follows them
    outdata,  \* the agent will wait until it can write
    net,      \* net[c]: what is under way to the master; commands to the agent; state
    peer,     \* peer[c]: the master's side
    out,      \* outdir: how often each line is in the logs moved there
    junk,     \* something that is no line was written to a log
    lost,     \* history: lines that were dropped with a buffer
    mixed,    \* history: an answer was put before the rest of a file
    breaks, cmds

agent == <<running, clean, tmp, fresh, at, index, buff, file, outdata>>
reportVars == <<agent, net, peer, out, junk, lost, mixed, breaks, cmds>>

Reps(seq) == {r \in Rep : Line(r) \in Range(seq)}
AsLines(S) == SetToSeq({Line(r) : r \in S})

NoLog == [r \in Rep |-> 0]
NoPeer == [on |-> FALSE, need |-> 0, log |-> NoLog]
NoNet == [wire |-> << >>, cmd |-> 0, st |-> "gone"]

ReportInit ==
    /\ running = Rep /\ clean = {}
    /\ tmp = << >> /\ fresh = FALSE
    /\ at = NoConn /\ index = 0
    /\ buff = << >> /\ file = << >> /\ outdata = FALSE
    /\ net = [c \in Conn |-> NoNet]
    /\ peer = [c \in Conn |-> NoPeer]
    /\ out = NoLog /\ junk = FALSE /\ lost = {} /\ mixed = FALSE /\ breaks = 0 /\ cmds = 0

master == <<peer, out, junk>>
history == <<lost, mixed, breaks, cmds>>

----------------------------------------------------------------------------
(* The agent                                                               *)

\* A task ends.
Finish(r) ==
    /\ r \in running /\ running' = running \ {r} /\ clean' = clean \union {r}
    /\ UNCHANGED <<tmp, fresh, at, index, buff, file, outdata, net, master, history>>

\* do_run with no connection: do_scan takes the finished tasks and dump_to_file adds
\* the lines to the file of the hour; if that cannot be opened they are dropped when
\* the buffer is next used.
TurnOfHour == fresh /\ fresh' = FALSE
    /\ UNCHANGED <<running, clean, tmp, at, index, buff, file, outdata, net, master, history>>
Dump ==
    /\ at = NoConn /\ clean # {} /\ clean' = {}
    /\ \/ /\ fresh /\ tmp' = [tmp EXCEPT ![1] = @ \o AsLines(clean)] /\ UNCHANGED <<fresh, lost>>
       \/ /\ ~fresh /\ Len(tmp) < MaxFile /\ tmp' = <<AsLines(clean)>> \o tmp
          /\ fresh' = TRUE /\ UNCHANGED lost
       \/ lost' = lost \union clean /\ UNCHANGED <<tmp, fresh>>
    /\ UNCHANGED <<running, at, index, buff, file, outdata, net, master, mixed, breaks, cmds>>

\* The connection is made: the buffers of the descriptor are emptied, the login is
\* the first message, and tmpdir is read once (scantmpdir).  Seeded fault: its oldest
\* file is passed over.
FoundButOldest == IF tmp = << >> THEN 0 ELSE Len(tmp) - 1
Found == Len(tmp)
Connect(c) ==
    /\ at = NoConn /\ ~peer[c].on /\ at' = c
    /\ net' = [net EXCEPT ![c] = [NoNet EXCEPT !.st = "up"]]
    /\ peer' = [peer EXCEPT ![c].on = TRUE]
    /\ buff' = <<Word("auth")>> /\ file' = << >> /\ outdata' = TRUE
    /\ index' = Found
    /\ UNCHANGED <<running, clean, tmp, fresh, out, junk, history>>

\* The top of the loop: the oldest file that is left is put behind a head of its own;
\* only when there is none are finished tasks taken, or a heartbeat put.
NextFile ==
    /\ at # NoConn /\ file = << >> /\ index > 0
    /\ buff' = Append(buff, Begin(Len(tmp[index]))) /\ file' = tmp[index]
    /\ UNCHANGED <<running, clean, tmp, fresh, at, index, outdata, net, master, history>>

Scan ==
    /\ at # NoConn /\ index = 0 /\ clean # {} /\ clean' = {}
    /\ buff' = buff \o <<Begin(Cardinality(clean))>> \o AsLines(clean) /\ outdata' = TRUE
    /\ UNCHANGED <<running, tmp, fresh, at, index, file, net, master, history>>

Heartbeat ==
    /\ at # NoConn /\ index = 0
    /\ Word("beat") \notin Range(buff) \union Range(net[at].wire)
    /\ buff' = Append(buff, Word("beat")) /\ outdata' = TRUE
    /\ UNCHANGED <<running, clean, tmp, fresh, at, index, file, net, master, history>>

\* do_send: the data, as far as the socket takes them, and only then the file; a file
\* that is sent to its end is unlinked (rm_last_send_file).  n units go out.  Seeded
\* fault: g_tmp_index stays.
Wait == outdata \/ file # << >>
SentAll(n) == n = Len(buff \o file)
SameIndex == index
NextIndex == index - 1
Send(n) ==
    /\ at # NoConn /\ Wait /\ net[at].st = "up"
    /\ n \in 1 .. Len(buff \o file)
    /\ net' = [net EXCEPT ![at].wire = @ \o SubSeq(buff \o file, 1, n)]
    /\ buff' = SubSeq(buff, n + 1, Len(buff))
    /\ file' = IF n =< Len(buff) THEN file ELSE SubSeq(buff \o file, n + 1, Len(buff \o file))
    /\ outdata' = (n < Len(buff \o file))
    /\ IF file # << >> /\ SentAll(n)
       THEN /\ tmp' = RemoveAt(tmp, index) /\ index' = NextIndex
            /\ fresh' = (fresh /\ tmp' # << >>)
       ELSE UNCHANGED <<tmp, index, fresh>>
    /\ UNCHANGED <<running, clean, at, master, history>>

\* do_recv and check_req: a command is answered into the same buffer.  When only a
\* part of it has come, what the socket did not take is no longer waited for.
Answer ==
    /\ at # NoConn /\ net[at].cmd > 0
    /\ net' = [net EXCEPT ![at].cmd = @ - 1]
    /\ buff' = Append(buff, Word("answer")) /\ outdata' = TRUE
    /\ mixed' = (mixed \/ file # << >>)
    /\ UNCHANGED <<running, clean, tmp, fresh, at, index, file, master, lost, breaks, cmds>>

PartOfCommand ==
    /\ at # NoConn /\ net[at].cmd > 0 /\ outdata' = FALSE
    /\ UNCHANGED <<running, clean, tmp, fresh, at, index, buff, file, net, master, history>>

\* The agent sees that the connection is gone.  The data in the buffer go with it, the
\* file stays.
Close ==
    /\ at # NoConn /\ net[at].st # "up"
    /\ at' = NoConn /\ index' = 0
    /\ buff' = << >> /\ file' = << >> /\ outdata' = FALSE
    /\ lost' = lost \union Reps(buff)
    /\ UNCHANGED <<running, clean, tmp, fresh, net, master, mixed, breaks, cmds>>

\* The server's process dies and is started again: what the agent has in memory is
\* gone, what it sent may still be read.
AgentDies ==
    /\ breaks < MaxBreak /\ breaks' = breaks + 1
    /\ net' = [c \in Conn |-> IF c = at /\ net[c].st = "up" THEN [net[c] EXCEPT !.st = "half"] ELSE net[c]]
    /\ at' = NoConn /\ index' = 0 /\ clean' = {}
    /\ buff' = << >> /\ file' = << >> /\ outdata' = FALSE
    /\ lost' = lost \union clean \union Reps(buff)
    /\ UNCHANGED <<running, tmp, fresh, master, mixed, cmds>>

----------------------------------------------------------------------------
(* The connection and the master                                           *)

InTmp == UNION {Reps(tmp[i]) : i \in DOMAIN tmp}
\* The lines that are nowhere else when these go.
Dropped(seq) == Reps(seq) \ InTmp

Break(c) ==
    /\ breaks < MaxBreak /\ breaks' = breaks + 1
    /\ net[c].st = "up" /\ net' = [net EXCEPT ![c] = NoNet]
    /\ lost' = lost \union Dropped(net[c].wire)
    /\ UNCHANGED <<agent, master, mixed, cmds>>

\* svc_finiconn: the log is moved to outdir as it is.  Seeded fault: it stays.
Stays(p) == out
Moved(p) == [r \in Rep |-> out[r] + p.log[r]]
FiniConn(c) ==
    /\ peer[c].on /\ net[c].st \in {"gone", "half"} /\ net[c].wire = << >>
    /\ out' = Moved(peer[c]) /\ peer' = [peer EXCEPT ![c] = NoPeer]
    /\ UNCHANGED <<agent, net, junk, history>>

\* check_close_local, in svc_timeout and at the end of a message: a log that is open
\* for voss_interval is moved, never in the middle of a message.
Interval(c) ==
    /\ peer[c].on /\ peer[c].need = 0 /\ peer[c].log # NoLog
    /\ out' = Moved(peer[c]) /\ peer' = [peer EXCEPT ![c].log = NoLog]
    /\ UNCHANGED <<agent, net, junk, history>>

\* svc_recv: between messages a unit is taken for a head (check_req), within one it is
\* written to the log (sub_recv).  Seeded fault: what is left of a message is
\* reckoned one too many.
ToComeOneMore(p, u) == p.need
ToCome(p, u) == p.need - 1
Logged(log, r) == [log EXCEPT ![r] = log[r] + 1]
RecvHead(c) ==
    LET u == Head(net[c].wire) IN
    /\ peer[c].on /\ net[c].wire # << >> /\ peer[c].need = 0 /\ u.t # "line"
    /\ net' = [net EXCEPT ![c].wire = Tail(@)]
    /\ peer' = [peer EXCEPT ![c].need = IF u.t = "head" THEN u.n ELSE 0]
    /\ UNCHANGED <<agent, out, junk, history>>

RecvBody(c) ==
    LET u == Head(net[c].wire) IN
    /\ peer[c].on /\ net[c].wire # << >> /\ peer[c].need > 0
    /\ net' = [net EXCEPT ![c].wire = Tail(@)]
    /\ peer' = [peer EXCEPT ![c].need = ToCome(peer[c], u),
                            ![c].log = IF u.t = "line" THEN Logged(peer[c].log, u.r) ELSE @]
    /\ junk' = (junk \/ u.t # "line")
    /\ UNCHANGED <<agent, out, history>>

\* A head that is none: RECV_CLOSE.
RecvBad(c) ==
    /\ peer[c].on /\ net[c].wire # << >> /\ peer[c].need = 0 /\ Head(net[c].wire).t = "line"
    /\ net' = [net EXCEPT ![c] = NoNet]
    /\ lost' = lost \union Dropped(net[c].wire) /\ breaks' = breaks + 1
    /\ UNCHANGED <<agent, master, mixed, cmds>>

\* check_indir passes a command on to a server.
Command(c) ==
    /\ peer[c].on /\ net[c].st = "up" /\ cmds < MaxCmd /\ cmds' = cmds + 1
    /\ net' = [net EXCEPT ![c].cmd = @ + 1]
    /\ UNCHANGED <<agent, master, lost, mixed, breaks>>

\* The master dies: a log that is open stays in its workdir for good.
MasterDies ==
    /\ breaks < MaxBreak /\ breaks' = breaks + 1
    /\ net' = [c \in Conn |-> NoNet]
    /\ peer' = [c \in Conn |-> NoPeer]
    /\ lost' = lost \union (UNION {Dropped(net[c].wire) : c \in Conn})
                    \union {r \in Rep \ InTmp : \E c \in Conn : peer[c].log[r] > 0}
    /\ UNCHANGED <<agent, out, junk, mixed, cmds>>

----------------------------------------------------------------------------
ReportNext ==
    \/ \E r \in Rep : Finish(r)
    \/ TurnOfHour \/ Dump \/ NextFile \/ Scan \/ Heartbeat
    \/ \E n \in 1 .. Len(buff \o file) : Send(n)
    \/ Answer \/ PartOfCommand \/ Close \/ AgentDies
    \/ \E c \in Conn :
          \/ Connect(c) \/ Break(c) \/ FiniConn(c) \/ Interval(c)
          \/ RecvHead(c) \/ RecvBody(c) \/ RecvBad(c) \/ Command(c)
    \/ MasterDies

\* The agent's loop and the master's, and a connection while there are any to make.
\* A command is not left half sent.
ReportFairness ==
    /\ WF_reportVars(NextFile) /\ WF_reportVars(Scan) /\ WF_reportVars(Heartbeat)
    /\ WF_reportVars(Answer) /\ WF_reportVars(Close)
    /\ SF_reportVars(\E n \in 1 .. Len(buff \o file) : Send(n))
    /\ \A c \in Conn :
          /\ WF_reportVars(Connect(c)) /\ WF_reportVars(FiniConn(c)) /\ WF_reportVars(Interval(c))
          /\ WF_reportVars(RecvHead(c)) /\ WF_reportVars(RecvBody(c)) /\ WF_reportVars(RecvBad(c))

ReportSpec == ReportInit /\ [][ReportNext]_reportVars /\ ReportFairness

----------------------------------------------------------------------------
(* Properties                                                              *)

ReportTypeOK ==
    /\ running \union clean \union lost \subseteq Rep
    /\ tmp \in Seq(Seq(Unit)) /\ Len(tmp) =< MaxFile
    /\ at \in Conn \union {NoConn} /\ index \in 0 .. Len(tmp)
    /\ Range(buff) \union Range(file) \subseteq Unit
    /\ \A c \in Conn : Range(net[c].wire) \subseteq Unit /\ peer[c].need \in Nat
    /\ out \in [Rep -> Nat]

\* The master reads a message where the agent began one, and writes to a log nothing
\* but lines: unless the agent answered a command while a file was on its way, which
\* puts the answer in the middle of the file.
Framed ==
    ~mixed => /\ ~junk
              /\ \A c \in Conn : peer[c].on /\ net[c].wire # << >> =>
                    (Head(net[c].wire).t = "line") = (peer[c].need > 0)

\* Agent and master stay in step, whatever breaks.
StreamSound == ReportTypeOK /\ Framed

\* A line is in one place, or in one more for each connection that broke or process
\* that died: it is sent twice at most then, and missing only if it was in memory.
\* Rest(i) is what is left of a file of tmpdir, Total(f) the sum of f's values.
Count(r, seq) == Cardinality({i \in DOMAIN seq : seq[i] = Line(r)})
Total(f) == Cardinality(UNION {{x} \X (1 .. f[x]) : x \in DOMAIN f})
Rest(i) == IF file # << >> /\ net[at].st = "up" /\ i = index THEN file ELSE tmp[i]
Copies(r) ==
    (IF r \in clean THEN 1 ELSE 0) + Count(r, buff) + out[r]
    + Total([i \in DOMAIN tmp |-> Count(r, Rest(i))])
    + Total([c \in Conn |-> Count(r, net[c].wire) + peer[c].log[r]])
CopiesBounded ==
    \A r \in Rep \ running :
        Copies(r) \in (IF r \in lost THEN 0 ELSE 1) .. (1 + breaks)

\* The line of a finished task gets to outdir, or was dropped with a buffer: no file of
\* tmpdir is passed over and nothing waits for ever, as long as a connection can be made.
Reported == \A r \in Rep : r \in clean ~> out[r] > 0 \/ r \in lost
=============================================================================
