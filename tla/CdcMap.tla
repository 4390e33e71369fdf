------------------------------- MODULE CdcMap -------------------------------
(***************************************************************************)
(* What the shared table of the CDC promises, whatever its memory looks    *)
(* like: it maps files to what is known of them; one process puts what a   *)
(* line says, part by part, another forgets.  A daemon killed in the middle*)
(* of putting a new file may leave that file, and no other, with a value   *)
(* that was somebody else's: its parts stay until lines about the file     *)
(* replace them one by one, or it is forgotten.                            *)
(***************************************************************************)
EXTENDS CdcEntry

VARIABLES
    map,   \* map[k]: the value of k, or Absent
    line   \* the line the daemon is putting, what is left of it, or NoLine

vars == <<map, line>>

Absent == [p \in {} |-> NoPart]

Init == map = [k \in Key |-> Absent] /\ line = NoLine

Begin(l) == line = NoLine /\ line' = l /\ UNCHANGED map

\* The next part of a line: a new file gets a value with this part alone, of a
\* known one the other parts stay, whosever they are.  The daemon may also find no
\* room, or put into an entry that was forgotten meanwhile.
Put ==
    /\ line # NoLine /\ line' = Rest(line)
    /\ \/ map[line.key] = Absent /\ map' = [map EXCEPT ![line.key] = Created(line)]
       \/ map[line.key] # Absent /\ map' = [map EXCEPT ![line.key] = Changed(@, line)]
       \/ map[line.key] = Absent /\ UNCHANGED map

\* Killed: a file that was not there may now be there with any value.
Killed ==
    /\ line # NoLine /\ line' = NoLine
    /\ \/ map[line.key] = Absent /\ \E v \in Value : map' = [map EXCEPT ![line.key] = v]
       \/ UNCHANGED map

Forget(k) == map' = [map EXCEPT ![k] = Absent] /\ UNCHANGED line

Next ==
    \/ \E l \in Report : Begin(l)
    \/ Put \/ Killed
    \/ \E k \in Key : Forget(k)

Spec == Init /\ [][Next]_vars
=============================================================================
