------------------------------ MODULE CdcEntry ------------------------------
(***************************************************************************)
(* What the CDC knows of a file (t_cdc_val) and what a line of a log does  *)
(* to it (process_line_fcs and process_line of cdc/src/cdc_sub.c).  A value*)
(* has parts: what the source is, and for each of at most MaxIp servers a  *)
(* slot.  A line changes the source part, then the slot of its server; each*)
(* time the file is looked up anew, and only the one part changes, in place*)
(* and unless it is later already.  A part remembers here which file it was*)
(* written for.  The stores a part takes (fmd5, fmtime and fctime; ip,     *)
(* status and mtime) are one step.                                         *)
(***************************************************************************)
EXTENDS Naturals, FiniteSets

CONSTANTS
    Key, NoKey,    \* files, by their three hashes; the key of a zeroed node
    Host, NoHost,  \* servers; a line of another server than the log's
    Source,        \* the part with fmd5, fmtime and fctime
    MaxIp,         \* MAX_IP_IN_DIR
    MaxTime        \* bound on the times

ASSUME EntryAssumption ==
    /\ NoKey \notin Key /\ NoHost \notin Host /\ Source \notin Host \union {NoHost}
    /\ MaxIp \in Nat \ {0} /\ MaxTime \in Nat

Part == Host \union {Source}
Value == [Part -> [of : Key \union {NoKey}, t : 0 .. MaxTime]]
NoPart == [of |-> NoKey, t |-> 0]
Zero == [p \in Part |-> NoPart]

\* A line: when the source last changed (0: the line does not say), and the server
\* it is of and when that had the file.  One with neither does nothing.
Report ==
    {l \in [key : Key, src : 0 .. MaxTime, host : Host \union {NoHost}, mt : 0 .. MaxTime] :
        l.host = NoHost => l.src > 0 /\ l.mt = 0}
NoLine == [key |-> NoKey, src |-> 0, host |-> NoHost, mt |-> 0]

\* The part that is next, what it becomes, and what is left of the line after it.
PartOf(l) == IF l.src > 0 THEN Source ELSE l.host
Own(l) == [of |-> l.key, t |-> IF l.src > 0 THEN l.src ELSE l.mt]
Rest(l) == IF l.src > 0 /\ l.host # NoHost THEN [l EXCEPT !.src = 0] ELSE NoLine

\* A file that is not there gets a value with the one part; of a file that is
\* there the part changes unless it is later, or a server finds all slots taken.
Fits(v, p) == p = Source \/ v[p] # NoPart \/ Cardinality({h \in Host : v[h] # NoPart}) < MaxIp
Created(l) == [Zero EXCEPT ![PartOf(l)] = Own(l)]
Changed(v, l) ==
    IF Fits(v, PartOf(l)) /\ v[PartOf(l)].t =< Own(l).t
    THEN [v EXCEPT ![PartOf(l)] = Own(l)] ELSE v
=============================================================================
