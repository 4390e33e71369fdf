----------------------------- MODULE DirService -----------------------------
(***************************************************************************)
(* What a server owes the content servers that ask it for the files of a   *)
(* directory: every request it takes on is answered exactly once, on       *)
(* whatever connection of the asker it then finds, or is dropped because   *)
(* there is none.  How, and by which threads, is Serve's business.         *)
(***************************************************************************)
EXTENDS Naturals

CONSTANTS
    Cs,    \* the content servers that ask
    Dir    \* the directories asked for

VARIABLES
    up,    \* the askers with a connection
    owed,  \* owed[c][d]: requests of c for d that are neither answered nor dropped
    given  \* given[c][d]: answers sent to c for d

vars == <<up, owed, given>>

None == [c \in Cs |-> [d \in Dir |-> 0]]

Init == up = {} /\ owed = None /\ given = None

Connect(c) == c \notin up /\ up' = up \union {c} /\ UNCHANGED <<owed, given>>
Close(c) == c \in up /\ up' = up \ {c} /\ UNCHANGED <<owed, given>>

TakeOn(c, d) ==
    /\ c \in up
    /\ owed' = [owed EXCEPT ![c][d] = @ + 1]
    /\ UNCHANGED <<up, given>>

\* A server that can take nothing on answers with no files.
AnswerAtOnce(c, d) ==
    /\ c \in up
    /\ given' = [given EXCEPT ![c][d] = @ + 1]
    /\ UNCHANGED <<up, owed>>

Answer(c, d) ==
    /\ c \in up /\ owed[c][d] > 0
    /\ owed' = [owed EXCEPT ![c][d] = @ - 1]
    /\ given' = [given EXCEPT ![c][d] = @ + 1]
    /\ UNCHANGED up

Drop(c, d) ==
    /\ c \notin up /\ owed[c][d] > 0
    /\ owed' = [owed EXCEPT ![c][d] = @ - 1]
    /\ UNCHANGED <<up, given>>

Settle(c, d) == Answer(c, d) \/ Drop(c, d)

Next ==
    \E c \in Cs :
        \/ Connect(c) \/ Close(c)
        \/ \E d \in Dir : TakeOn(c, d) \/ AnswerAtOnce(c, d) \/ Settle(c, d)

Safety == Init /\ [][Next]_vars

Spec ==
    /\ Safety
    /\ \A c \in Cs, d \in Dir : WF_vars(Settle(c, d))
=============================================================================
