--------------------------- MODULE Tracker_proofs ---------------------------
(***************************************************************************)
(* What holds of Tracker for every pool of tasks, every set of CSs and     *)
(* files, and every value of the bounds.                                   *)
(*                                                                         *)
(* None of the properties is inductive alone.  RunIsHashed survives an     *)
(* answer because an answer only moves a task off RUN; RestHoldsNothing    *)
(* because no step but a dispatch hashes or owns a task and a dispatched   *)
(* task is live; OwnerOnline because the target was eligible when it was   *)
(* chosen and its close moves or orphans every task it owns.  They are     *)
(* proved together, with what a live task is about.                        *)
(*                                                                         *)
(* The last section is about TmpStatus, the file its tasks are kept in.    *)
(***************************************************************************)
EXTENDS Tracker, TmpStatus, FiniteSetTheorems, TLAPS

(* A task on a list other than HOME and CLEAN is about a file and an ISP.  *)
LiveIsAbout == \A t \in Task : Live(t) => key[t] \in Key /\ isp[t] \in Isp

IInv ==
    /\ TypeOK
    /\ LiveIsAbout
    /\ RunIsHashed
    /\ RestHoldsNothing
    /\ SlotIffLive
    /\ OwnerOnline

(* The retry counter stays an int8_t.                                      *)
LEMMA IncrRange == \A n \in Retry : Incr(n) \in Retry
  BY BoundAssumption DEF Incr, Retry

(* Every task starts at HOME with nothing attached.                        *)
LEMMA InitIInv == Init => IInv
  <1> SUFFICES ASSUME Init PROVE IInv
    OBVIOUS
  <1>1. retry \in [Task -> Retry]
    BY BoundAssumption DEF Init, Retry
  <1>2. stat \in [Task -> Status] /\ once \in 0 .. MaxRunOnce /\ faults \in 0 .. MaxFault
    BY BoundAssumption DEF Init, Status
  <1>3. TypeOK
    BY <1>1, <1>2 DEF Init, TypeOK, Owner
  <1>4. \A t \in Task : ~Live(t)
    BY DEF Init, Live
  <1>5. RunIsHashed /\ OwnerOnline
    BY DEF Init, RunIsHashed, OwnerOnline
  <1>6. LiveIsAbout /\ RestHoldsNothing /\ SlotIffLive
    BY <1>4 DEF Init, LiveIsAbout, RestHoldsNothing, SlotIffLive
  <1> QED BY <1>3, <1>5, <1>6 DEF IInv

(* Each action of the tracker, the agent and the environment keeps IInv.   *)
LEMMA NextIInv == IInv /\ [Next]_vars => IInv'
  <1> SUFFICES ASSUME IInv, [Next]_vars PROVE IInv'
    OBVIOUS
  <1> USE CsAssumption, KeyAssumption, BoundAssumption
      DEF IInv, TypeOK, LiveIsAbout, RunIsHashed, RestHoldsNothing, SlotIffLive,
          OwnerOnline, Live, Status, Owner, Isp, Relist, taskVars, netVars
  <1>1. ASSUME NEW k \in Key, NewTask(k) PROVE IInv'
    <2>1. PICK t \in Task, u \in Task :
            /\ t # u /\ stat[t] = "HOME" /\ stat[u] = "HOME"
            /\ stat' = Relist({t, u}, "WAIT")
            /\ key' = [key EXCEPT ![t] = k, ![u] = k]
            /\ isp' = [isp EXCEPT ![t] = "TEL", ![u] = "CNC"]
            /\ dst' = [dst EXCEPT ![t] = NoCs, ![u] = NoCs]
            /\ retry' = [retry EXCEPT ![t] = 0, ![u] = 0]
            /\ owner' = [owner EXCEPT ![t] = NoCs, ![u] = NoCs]
            /\ slot' = slot \union {t, u}
      BY <1>1 DEF NewTask
    <2>2. UNCHANGED <<hashed, conn, load, offline, fcs, work, pc, once, faults>>
      BY <1>1 DEF NewTask
    <2> met' \subseteq Key
      BY <1>1 DEF NewTask
    <2>3. TypeOK'
      <3>1. key' \in [Task -> Key \union {NoKey}] BY <2>1
      <3>2. isp' \in [Task -> Isp \union {NoIsp}] BY <2>1
      <3>3. dst' \in [Task -> Cs \union {NoCs}] /\ owner' \in [Task -> Owner] BY <2>1
      <3>4. retry' \in [Task -> Retry] BY <2>1 DEF Retry
      <3>5. stat' \in [Task -> Status] /\ slot' \subseteq Task BY <2>1
      <3> QED BY <2>2, <3>1, <3>2, <3>3, <3>4, <3>5
    <2>4. (LiveIsAbout /\ RunIsHashed /\ RestHoldsNothing /\ SlotIffLive)' BY <2>1, <2>2
    <2>5. OwnerOnline' BY <2>1, <2>2
    <2> QED BY <2>3, <2>4, <2>5
  <1>2. CASE TickBegin
    BY <1>2 DEF TickBegin, Requeued
  <1>3. CASE TickEnd
    BY <1>3 DEF TickEnd
  <1>4. ASSUME NEW t \in Task, NEW c \in Cs, Dispatch(t, c) PROVE IInv'
    <2>1. c \in Eligible(t)
      BY <1>4 DEF Dispatch, IsGoodIp, Candidate, FirstEligible
    <2>2. TypeOK'
      <3>1. retry' \in [Task -> Retry] BY <1>4, IncrRange DEF Dispatch
      <3>2. work' \in [Cs -> [Key -> Nat]] BY <1>4 DEF Dispatch
      <3> QED BY <1>4, <3>1, <3>2 DEF Dispatch, AddToAllTask
    <2>3. (LiveIsAbout /\ RunIsHashed /\ RestHoldsNothing /\ SlotIffLive)'
      BY <1>4 DEF Dispatch, AddToAllTask
    <2>4. OwnerOnline' BY <1>4, <2>1 DEF Dispatch, Eligible
    <2> QED BY <2>2, <2>3, <2>4
  <1>5. ASSUME NEW t \in Task, DispatchFails(t) PROVE IInv'
    BY <1>5 DEF DispatchFails
  <1>6. ASSUME NEW t \in Task, Expire(t) PROVE IInv'
    <2>1. TypeOK' BY <1>6 DEF Expire, Zero, Fault, NotInAllTask, Blanked, Retry
    <2>2. (LiveIsAbout /\ RunIsHashed /\ RestHoldsNothing /\ SlotIffLive /\ OwnerOnline)'
      BY <1>6 DEF Expire, Zero, NotInAllTask, Blanked
    <2> QED BY <2>1, <2>2
  <1>7. ASSUME NEW c \in Cs, NEW k \in Key, UnknownAnswer(c, k) PROVE IInv'
    <2>1. UNCHANGED <<taskVars, conn, offline, fcs, pc, once, faults, met>>
      BY <1>7 DEF UnknownAnswer
    <2>2. load' \in [Cs -> Nat] /\ work' \in [Cs -> [Key -> Nat]]
      BY <1>7 DEF UnknownAnswer, Answered
    <2> QED BY <2>1, <2>2
  <1>8. ASSUME NEW c \in Cs, NEW k \in Key, NEW t \in Task, RetryAnswer(c, k, t) PROVE IInv'
    <2>1. TypeOK' BY <1>8 DEF RetryAnswer, Answered, NotInAllTask
    <2>2. Live(t) BY <1>8 DEF RetryAnswer, Match
    <2>3. (LiveIsAbout /\ RunIsHashed /\ RestHoldsNothing /\ SlotIffLive /\ OwnerOnline)'
      BY <1>8, <2>2 DEF RetryAnswer, NotInAllTask
    <2> QED BY <2>1, <2>3
  <1>9. ASSUME NEW c \in Cs, NEW k \in Key, NEW t \in Task, FinalAnswer(c, k, t) PROVE IInv'
    <2>1. TypeOK' BY <1>9 DEF FinalAnswer, Answered, NotInAllTask, Blanked
    <2>2. (LiveIsAbout /\ RunIsHashed /\ RestHoldsNothing /\ SlotIffLive /\ OwnerOnline)'
      BY <1>9 DEF FinalAnswer, NotInAllTask, Blanked
    <2> QED BY <2>1, <2>2
  <1>10. ASSUME NEW t \in Task, AgentReap(t) PROVE IInv'
    BY <1>10 DEF AgentReap, Zero, Retry
  <1>11. ASSUME NEW c \in Cs, CsConnect(c) PROVE IInv'
    BY <1>11 DEF CsConnect
  <1>12. ASSUME NEW c \in Cs, CsLogin(c) PROVE IInv'
    BY <1>12 DEF CsLogin
  <1>13. ASSUME NEW c \in Cs, CsClose(c) PROVE IInv'
    <2>1. TypeOK' BY <1>13 DEF CsClose, TasksOf, Fault
    <2>2. \A t \in TasksOf(c) : Live(t) BY DEF TasksOf
    <2>3. (LiveIsAbout /\ RunIsHashed /\ RestHoldsNothing /\ SlotIffLive)'
      BY <1>13, <2>2 DEF CsClose, TasksOf
    <2>4. OwnerOnline' BY <1>13 DEF CsClose, TasksOf
    <2> QED BY <2>1, <2>3, <2>4
  <1>14. ASSUME NEW c \in Cs, NEW k \in Key, CsForgets(c, k) PROVE IInv'
    BY <1>14 DEF CsForgets
  <1>15. ASSUME NEW c \in Cs, SetOffline(c) \/ SetOnline(c) PROVE IInv'
    BY <1>15 DEF SetOffline, SetOnline, Fault
  <1>16. CASE FcsConnect \/ FcsClose
    <2>1. fcs' \in BOOLEAN BY <1>16 DEF FcsConnect, FcsClose
    <2>2. faults' \in 0 .. MaxFault BY <1>16 DEF FcsConnect, FcsClose, Fault
    <2>3. UNCHANGED <<taskVars, conn, load, offline, work, pc, once, met>>
      BY <1>16 DEF FcsConnect, FcsClose
    <2> QED BY <2>1, <2>2, <2>3
  <1>17. CASE UNCHANGED vars
    BY <1>17 DEF vars
  <1>18. ASSUME NEW t \in Task, TryDispatch(t) PROVE IInv'
    BY <1>4, <1>5, <1>18 DEF TryDispatch
  <1>19. ASSUME NEW c \in Cs, NEW k \in Key, Answer(c, k) PROVE IInv'
    BY <1>7, <1>8, <1>9, <1>19 DEF Answer
  <1>20. ASSUME Next PROVE IInv'
    <2> HIDE CsAssumption, KeyAssumption, BoundAssumption
        DEF IInv, TypeOK, LiveIsAbout, RunIsHashed, RestHoldsNothing, SlotIffLive,
            OwnerOnline, Live, Status, Owner, Isp, Relist, taskVars, netVars
    <2>1. CASE \E k \in Key : NewTask(k) BY <1>1, <2>1
    <2>2. CASE TickBegin \/ TickEnd BY <1>2, <1>3, <2>2
    <2>3. CASE \E t \in Task : TryDispatch(t) \/ Expire(t) \/ AgentReap(t)
      BY <1>6, <1>10, <1>18, <2>3
    <2>4. CASE \E c \in Cs, k \in Key : Answer(c, k) \/ CsForgets(c, k)
      BY <1>14, <1>19, <2>4
    <2>5. CASE \E c \in Cs : CsConnect(c) \/ CsLogin(c) \/ CsClose(c)
      BY <1>11, <1>12, <1>13, <2>5
    <2>6. CASE \E c \in Cs : SetOffline(c) \/ SetOnline(c) BY <1>15, <2>6
    <2>7. CASE FcsConnect \/ FcsClose BY <1>16, <2>7
    <2> QED BY <1>20, <2>1, <2>2, <2>3, <2>4, <2>5, <2>6, <2>7 DEF Next
  <1> QED BY <1>17, <1>20

(* The inductive invariant holds in every reachable state.                 *)
THEOREM Invariance == Spec => []IInv
  BY InitIInv, NextIInv, PTL DEF Spec

(* Every variable of the tracker keeps its domain.                         *)
THEOREM TypeCorrect == Spec => []TypeOK
  BY Invariance, PTL DEF IInv

(* Every running task can be found by its answer in alltask.               *)
THEOREM RunningIsFindable == Spec => []RunIsHashed
  BY Invariance, PTL DEF IInv

(* A finished or free node is linked in no other structure, so the agent   *)
(* may reap it and do_newtask may reuse it.                                *)
THEOREM ReapIsSafe == Spec => []RestHoldsNothing
  BY Invariance, PTL DEF IInv

(* The status file holds the unfinished tasks and nothing else.            *)
THEOREM DiskHasTheUnfinished == Spec => []SlotIffLive
  BY Invariance, PTL DEF IInv

(* A running task is owned by the connected CS it was sent to, or was left *)
(* by one that closed before its login.                                    *)
THEOREM RunningIsOwned == Spec => []OwnerOnline
  BY Invariance, PTL DEF IInv

----------------------------------------------------------------------------
(* An answer about a file that was never submitted again while it was live *)
(* can only be about the one live task of that file and ISP: it takes no   *)
(* other running task's answer away.                                       *)

(* No two live tasks are about one such file and one ISP.                  *)
NoDuplicates ==
    \A t, u \in Task :
        /\ Live(t) /\ Live(u) /\ key[t] = key[u] /\ isp[t] = isp[u]
        /\ key[t] \notin met
        => t = u

AwaitInv == IInv /\ NoDuplicates /\ RunIsAwaited

LEMMA NextAwaitInv == AwaitInv /\ [Next]_vars => AwaitInv'
  <1> SUFFICES ASSUME AwaitInv, [Next]_vars PROVE AwaitInv'
    OBVIOUS
  <1>1. IInv' /\ IInv
    BY NextIInv DEF AwaitInv
  <1>2. CASE \E k \in Key : NewTask(k)
    <2>1. NoDuplicates'
      BY <1>2 DEF NewTask, AwaitInv, NoDuplicates, Live, Relist, IInv, TypeOK
    <2>2. RunIsAwaited'
      BY <1>2 DEF NewTask, AwaitInv, RunIsAwaited, Relist, IInv, TypeOK, netVars
    <2> QED BY <1>1, <2>1, <2>2 DEF AwaitInv
  <1>3. ASSUME NEW t \in Task, NEW c \in Cs, Dispatch(t, c) PROVE AwaitInv'
    <2>1. NoDuplicates'
      BY <1>3 DEF Dispatch, AwaitInv, NoDuplicates, Live, Relist
    <2>2. key[t] \in Key
      BY <1>3 DEF Dispatch, AwaitInv, IInv, LiveIsAbout, Live
    <2>3. \A d \in Cs, k \in Key : work'[d][k] >= work[d][k]
      BY <1>3, <2>2 DEF Dispatch, AwaitInv, IInv, TypeOK
    <2>4. work'[c][key[t]] > 0 /\ owner'[t] = c /\ key' = key
      BY <1>3, <2>2 DEF Dispatch, AwaitInv, IInv, TypeOK
    <2>5. ASSUME NEW u \in Task, u # t, stat'[u] = "RUN", owner'[u] \in Cs,
                 key'[u] \notin met'
          PROVE  work'[owner'[u]][key'[u]] > 0
      <3>1. /\ stat[u] = "RUN" /\ owner[u] = owner'[u] /\ key[u] = key'[u]
            /\ met' = met
        BY <1>3, <2>5 DEF Dispatch, Relist, AwaitInv, IInv, TypeOK
      <3>2. key[u] \in Key /\ work[owner[u]][key[u]] > 0
        BY <2>5, <3>1 DEF AwaitInv, RunIsAwaited, IInv, LiveIsAbout, Live
      <3> QED
        BY <1>1, <2>3, <2>5, <3>1, <3>2 DEF IInv, TypeOK
    <2> QED BY <1>1, <2>1, <2>4, <2>5 DEF AwaitInv, RunIsAwaited
  <1>4. ASSUME NEW c \in Cs, NEW k \in Key, Answer(c, k) PROVE AwaitInv'
    <2>1. PICK T \in SUBSET Task :
            /\ T \subseteq hashed
            /\ \A t \in T : key[t] = k /\ isp[t] = IspOf[c] /\ stat'[t] # "RUN"
            /\ \A t \in Task \ T : stat'[t] = stat[t] /\ owner'[t] = owner[t]
            /\ T = {} => Match(c, k) = {}
      <3>1. CASE UnknownAnswer(c, k)
        <4> WITNESS {} \in SUBSET Task
        <4> QED BY <3>1 DEF UnknownAnswer, taskVars
      <3>2. ASSUME NEW t \in Task, RetryAnswer(c, k, t) \/ FinalAnswer(c, k, t)
            PROVE  \E T \in SUBSET Task :
                     /\ T \subseteq hashed
                     /\ \A u \in T : key[u] = k /\ isp[u] = IspOf[c] /\ stat'[u] # "RUN"
                     /\ \A u \in Task \ T : stat'[u] = stat[u] /\ owner'[u] = owner[u]
                     /\ T = {} => Match(c, k) = {}
        <4> WITNESS {t} \in SUBSET Task
        <4> QED BY <3>2 DEF RetryAnswer, FinalAnswer, Match, Relist, AwaitInv, IInv, TypeOK
      <3> QED BY <1>4, <3>1, <3>2 DEF Answer
    <2>2. key' = key /\ isp' = isp /\ met' = met
      BY <1>4 DEF Answer, UnknownAnswer, RetryAnswer, FinalAnswer, taskVars
    <2>3. \A d \in Cs, j \in Key : (d # c \/ j # k) => work'[d][j] = work[d][j]
      <3>1. Answered(c, k)
        BY <1>4 DEF Answer, UnknownAnswer, RetryAnswer, FinalAnswer
      <3> QED BY <3>1 DEF Answered, AwaitInv, IInv, TypeOK
    <2>4. NoDuplicates'
      <3>1. \A t \in Task : Live(t)' => Live(t)
        BY <2>1 DEF Live, AwaitInv, IInv, RestHoldsNothing
      <3> QED BY <2>2, <3>1 DEF AwaitInv, NoDuplicates
    <2>5. ASSUME NEW u \in Task, stat'[u] = "RUN", owner'[u] \in Cs,
                 key'[u] \notin met'
          PROVE  work'[owner'[u]][key'[u]] > 0
      <3>1. /\ u \notin T /\ stat[u] = "RUN" /\ owner[u] = owner'[u]
            /\ key[u] = key'[u] /\ key[u] \notin met
        BY <2>1, <2>2, <2>5
      <3>2. u \in hashed /\ Live(u) /\ key[u] \in Key /\ IspOf[owner[u]] = isp[u]
        BY <2>5, <3>1, CsAssumption
        DEF AwaitInv, IInv, RunIsHashed, LiveIsAbout, OwnerOnline, Live
      <3>3. owner[u] # c \/ key[u] # k
        <4> SUFFICES ASSUME owner[u] = c, key[u] = k PROVE FALSE
          OBVIOUS
        <4>1. u \in Match(c, k) BY <3>2 DEF Match
        <4>2. PICK t \in T : TRUE BY <2>1, <4>1
        <4>3. t \in Task /\ Live(t) /\ key[t] = k /\ isp[t] = isp[u]
          BY <2>1, <3>2, <4>2 DEF AwaitInv, IInv, RestHoldsNothing, TypeOK
        <4> QED BY <3>1, <3>2, <4>2, <4>3 DEF AwaitInv, NoDuplicates
      <3> QED BY <2>3, <2>5, <3>1, <3>2, <3>3 DEF AwaitInv, RunIsAwaited
    <2> QED BY <1>1, <2>4, <2>5 DEF AwaitInv, RunIsAwaited
  <1>5. CASE \E c \in Cs, k \in Key : CsForgets(c, k)
    <2>1. PICK c \in Cs, k \in Key : CsForgets(c, k) BY <1>5
    <2>2. UNCHANGED <<taskVars, met>> BY <2>1 DEF CsForgets
    <2>3. \A d \in Cs : conn[d] # "down" => work'[d] = work[d]
      BY <2>1 DEF CsForgets, AwaitInv, IInv, TypeOK
    <2>4. RunIsAwaited'
      BY <2>2, <2>3, CsAssumption DEF AwaitInv, RunIsAwaited, IInv, OwnerOnline, taskVars
    <2> QED BY <1>1, <2>2, <2>4 DEF AwaitInv, NoDuplicates, Live, taskVars
  <1>6. ASSUME NEW c \in Cs, CsClose(c) PROVE AwaitInv'
    <2>1. \A t \in Task : Live(t)' => Live(t)
      BY <1>6, CsAssumption
      DEF CsClose, Relist, TasksOf, Live, AwaitInv, IInv, RestHoldsNothing
    <2>2. \A t \in Task : stat'[t] = "RUN" /\ owner'[t] \in Cs =>
            stat[t] = "RUN" /\ owner'[t] = owner[t]
      BY <1>6, CsAssumption DEF CsClose, Relist, TasksOf, AwaitInv, IInv, TypeOK
    <2>3. UNCHANGED <<key, isp, work, met>> BY <1>6 DEF CsClose
    <2> QED BY <1>1, <2>1, <2>2, <2>3 DEF AwaitInv, NoDuplicates, RunIsAwaited
  <1>7. CASE TickBegin
    BY <1>1, <1>7
    DEF TickBegin, Requeued, Relist, AwaitInv, NoDuplicates, RunIsAwaited, Live, netVars
  <1>8. ASSUME NEW t \in Task, DispatchFails(t) \/ Expire(t) \/ AgentReap(t) PROVE AwaitInv'
    <2>1. \A u \in Task : u # t =>
            stat'[u] = stat[u] /\ key'[u] = key[u] /\ isp'[u] = isp[u] /\ owner'[u] = owner[u]
      BY <1>8
      DEF DispatchFails, Expire, AgentReap, Zero, Relist, AwaitInv, IInv, TypeOK
    <2>2. stat'[t] # "RUN" /\ work' = work /\ met' = met
      BY <1>8 DEF DispatchFails, Expire, AgentReap, Relist, netVars
    <2>3. Live(t)' => Live(t) /\ key'[t] = key[t] /\ isp'[t] = isp[t]
      BY <1>8 DEF DispatchFails, Expire, AgentReap, Relist, Live
    <2> QED BY <1>1, <2>1, <2>2, <2>3 DEF AwaitInv, NoDuplicates, RunIsAwaited, Live
  <1>9. CASE UNCHANGED <<taskVars, work, met>>
    BY <1>1, <1>9 DEF AwaitInv, NoDuplicates, RunIsAwaited, Live, taskVars
  <1>10. ASSUME Next PROVE AwaitInv'
    <2>1. CASE TickEnd \/ FcsConnect \/ FcsClose
      BY <1>9, <2>1 DEF TickEnd, FcsConnect, FcsClose, netVars
    <2>2. CASE \E c \in Cs : CsConnect(c) \/ CsLogin(c) \/ SetOffline(c) \/ SetOnline(c)
      BY <1>9, <2>2 DEF CsConnect, CsLogin, SetOffline, SetOnline
    <2>3. CASE \E t \in Task : TryDispatch(t) \/ Expire(t) \/ AgentReap(t)
      BY <1>3, <1>8, <2>3 DEF TryDispatch
    <2>4. CASE \E c \in Cs, k \in Key : Answer(c, k) \/ CsForgets(c, k)
      BY <1>4, <1>5, <2>4
    <2>5. CASE \E c \in Cs : CsClose(c)
      BY <1>6, <2>5
    <2> QED BY <1>2, <1>7, <1>10, <2>1, <2>2, <2>3, <2>4, <2>5 DEF Next
  <1>11. CASE UNCHANGED vars
    BY <1>9, <1>11 DEF vars, netVars
  <1> QED BY <1>10, <1>11

(* Unless its file was submitted again while live, a running task's CS     *)
(* owes an answer for it: disconnections, retries and answers that come *)
(* late never leave a running task waiting for nothing.                    *)
THEOREM RunningIsAwaited == Spec => []RunIsAwaited
  <1>1. Init => AwaitInv
    BY InitIInv DEF AwaitInv, NoDuplicates, RunIsAwaited, Init, Live
  <1>2. AwaitInv /\ [Next]_vars => AwaitInv'
    BY NextAwaitInv
  <1>3. AwaitInv => RunIsAwaited
    BY DEF AwaitInv
  <1> QED BY <1>1, <1>2, <1>3, PTL DEF Spec

----------------------------------------------------------------------------
(* The load of a CS counts requests it owes.                               *)

(* What a CS owes is finite, and a CS without a connection has no load.    *)
LoadInv ==
    /\ TypeOK /\ LoadBounded
    /\ \A c \in Cs : IsFiniteSet(Owed(c)) /\ (conn[c] = "down" => load[c] = 0)

(* A request sent is one more owed, one answered or lost one less.         *)
LEMMA OwedMore ==
  ASSUME TypeOK, NEW c \in Cs, NEW k \in Key, IsFiniteSet(Owed(c)),
         work'[c] = [work[c] EXCEPT ![k] = @ + 1]
  PROVE  IsFiniteSet(Owed(c)') /\ Cardinality(Owed(c)') = Cardinality(Owed(c)) + 1
  <1> DEFINE n == work[c][k]
  <1>1. work[c] \in [Key -> Nat] /\ n \in Nat
    BY DEF TypeOK
  <1>2. Owed(c)' = UNION {{j} \X (1 .. work'[c][j]) : j \in Key}
    BY DEF Owed
  <1>3. \A j \in Key : \A i : i \in 1 .. work'[c][j] <=> i \in 1 .. work[c][j] \/ (j = k /\ i = n + 1)
    BY <1>1
  <1>4. Owed(c)' = Owed(c) \union {<<k, n + 1>>}
    <2> HIDE DEF n
    <2> QED BY <1>2, <1>3 DEF Owed
  <1>5. <<k, n + 1>> \notin Owed(c)
    BY <1>1 DEF Owed
  <1> QED BY <1>4, <1>5, FS_AddElement

LEMMA OwedLess ==
  ASSUME TypeOK, NEW c \in Cs, NEW k \in Key, IsFiniteSet(Owed(c)), work[c][k] > 0,
         work'[c] = [work[c] EXCEPT ![k] = @ - 1]
  PROVE  /\ IsFiniteSet(Owed(c)') /\ Cardinality(Owed(c)') = Cardinality(Owed(c)) - 1
         /\ Cardinality(Owed(c)') \in Nat
  <1> DEFINE n == work[c][k]
  <1>1. work[c] \in [Key -> Nat] /\ n \in Nat /\ n > 0
    BY DEF TypeOK
  <1>2. Owed(c)' = UNION {{j} \X (1 .. work'[c][j]) : j \in Key}
    BY DEF Owed
  <1>3. \A j \in Key : \A i : i \in 1 .. work'[c][j] <=> i \in 1 .. work[c][j] /\ ~(j = k /\ i = n)
    BY <1>1
  <1>4. Owed(c)' = Owed(c) \ {<<k, n>>}
    <2> HIDE DEF n
    <2> QED BY <1>2, <1>3 DEF Owed
  <1>5. <<k, n>> \in Owed(c)
    <2>1. n \in 1 .. work[c][k]
      BY <1>1
    <2> HIDE DEF n
    <2> QED BY <2>1 DEF Owed
  <1> QED BY <1>4, <1>5, FS_RemoveElement, FS_CardinalityType

LEMMA NextLoadInv == LoadInv /\ IInv /\ [Next]_vars => LoadInv'
  <1> SUFFICES ASSUME LoadInv, IInv, [Next]_vars
               PROVE  \A c \in Cs : /\ load'[c] =< Cardinality(Owed(c)')
                                    /\ IsFiniteSet(Owed(c)')
                                    /\ conn'[c] = "down" => load'[c] = 0
    BY NextIInv DEF LoadInv, IInv, LoadBounded
  <1>1. \A c \in Cs : /\ load[c] \in Nat /\ load[c] =< Cardinality(Owed(c))
                      /\ IsFiniteSet(Owed(c)) /\ Cardinality(Owed(c)) \in Nat
                      /\ conn[c] = "down" => load[c] = 0
    BY FS_CardinalityType DEF LoadInv, LoadBounded, TypeOK
  <1>2. TypeOK /\ load \in [Cs -> Nat] /\ conn \in [Cs -> {"down", "open", "login"}]
        /\ work \in [Cs -> [Key -> Nat]]
    BY DEF LoadInv, TypeOK
  <1>3. ASSUME NEW c \in Cs, work'[c] = work[c]
        PROVE  Owed(c)' = Owed(c)
    BY <1>3 DEF Owed
  <1>4. ASSUME NEW c \in Cs, work'[c] = work[c],
               load'[c] = 0 \/ (load'[c] = load[c] /\ conn'[c] # "down")
                 \/ (load'[c] = load[c] /\ conn'[c] = conn[c])
        PROVE  /\ load'[c] =< Cardinality(Owed(c)') /\ IsFiniteSet(Owed(c)')
               /\ conn'[c] = "down" => load'[c] = 0
    BY <1>1, <1>3, <1>4
  <1>5. ASSUME NEW t \in Task, NEW d \in Cs, Dispatch(t, d), NEW c \in Cs
        PROVE  /\ load'[c] =< Cardinality(Owed(c)') /\ IsFiniteSet(Owed(c)')
               /\ conn'[c] = "down" => load'[c] = 0
    <2>1. key[t] \in Key /\ conn[d] # "down" /\ conn' = conn
      BY <1>5 DEF IInv, LiveIsAbout, Live, Dispatch, IsGoodIp, Candidate, FirstEligible, Eligible
    <2>2. load' = [load EXCEPT ![d] = @ + 1] /\ work' = [work EXCEPT ![d][key[t]] = @ + 1]
      BY <1>5 DEF Dispatch
    <2>3. CASE c = d
      <3>1. work'[d] = [work[d] EXCEPT ![key[t]] = @ + 1] /\ load'[d] = load[d] + 1
        BY <1>2, <2>2
      <3> QED BY <1>1, <1>2, <2>1, <2>3, <3>1, OwedMore
    <2>4. CASE c # d
      BY <1>2, <1>4, <2>1, <2>2, <2>4
    <2> QED BY <2>3, <2>4
  <1>6. ASSUME NEW d \in Cs, NEW k \in Key, Answered(d, k) /\ conn' = conn, NEW c \in Cs
        PROVE  /\ load'[c] =< Cardinality(Owed(c)') /\ IsFiniteSet(Owed(c)')
               /\ conn'[c] = "down" => load'[c] = 0
    <2>1. work[d][k] > 0 /\ work' = [work EXCEPT ![d][k] = @ - 1] /\ conn[d] # "down"
          /\ load' = [load EXCEPT ![d] = IF @ = 0 THEN 0 ELSE @ - 1]
      BY <1>6 DEF Answered
    <2>2. CASE c = d
      <3>1. work'[d] = [work[d] EXCEPT ![k] = @ - 1]
            /\ load'[d] = IF load[d] = 0 THEN 0 ELSE load[d] - 1
        BY <1>2, <2>1
      <3>2. /\ IsFiniteSet(Owed(d)') /\ Cardinality(Owed(d)') = Cardinality(Owed(d)) - 1
            /\ Cardinality(Owed(d)') \in Nat
        BY <1>1, <1>2, <2>1, <3>1, OwedLess
      <3> QED BY <1>1, <1>6, <2>1, <2>2, <3>1, <3>2
    <2>3. CASE c # d
      BY <1>2, <1>4, <1>6, <2>1, <2>3
    <2> QED BY <2>2, <2>3
  <1>7. ASSUME NEW d \in Cs, NEW k \in Key, CsForgets(d, k), NEW c \in Cs
        PROVE  /\ load'[c] =< Cardinality(Owed(c)') /\ IsFiniteSet(Owed(c)')
               /\ conn'[c] = "down" => load'[c] = 0
    <2>1. work[d][k] > 0 /\ work' = [work EXCEPT ![d][k] = @ - 1] /\ conn[d] = "down"
          /\ load' = load /\ conn' = conn
      BY <1>7 DEF CsForgets
    <2>2. CASE c = d
      <3>1. work'[d] = [work[d] EXCEPT ![k] = @ - 1]
        BY <1>2, <2>1
      <3>2. /\ IsFiniteSet(Owed(d)') /\ Cardinality(Owed(d)') = Cardinality(Owed(d)) - 1
            /\ Cardinality(Owed(d)') \in Nat
        BY <1>1, <1>2, <2>1, <3>1, OwedLess
      <3> QED BY <1>1, <2>1, <2>2, <3>1, <3>2
    <2>3. CASE c # d
      BY <1>2, <1>4, <2>1, <2>3
    <2> QED BY <2>2, <2>3
  <1>8. ASSUME NEW d \in Cs, CsConnect(d) \/ CsLogin(d) \/ CsClose(d), NEW c \in Cs
        PROVE  /\ load'[c] =< Cardinality(Owed(c)') /\ IsFiniteSet(Owed(c)')
               /\ conn'[c] = "down" => load'[c] = 0
    BY <1>2, <1>4, <1>8 DEF CsConnect, CsLogin, CsClose
  <1>9. ASSUME UNCHANGED <<conn, load, work>>, NEW c \in Cs
        PROVE  /\ load'[c] =< Cardinality(Owed(c)') /\ IsFiniteSet(Owed(c)')
               /\ conn'[c] = "down" => load'[c] = 0
    BY <1>4, <1>9
  <1>10. ASSUME \/ TickBegin \/ TickEnd \/ FcsConnect \/ FcsClose
                \/ \E k \in Key : NewTask(k)
                \/ \E t \in Task : DispatchFails(t) \/ Expire(t) \/ AgentReap(t)
                \/ \E c \in Cs : SetOffline(c) \/ SetOnline(c)
                \/ UNCHANGED vars
         PROVE  UNCHANGED <<conn, load, work>>
    BY <1>10
    DEF TickBegin, TickEnd, FcsConnect, FcsClose, NewTask, DispatchFails, Expire, AgentReap,
        SetOffline, SetOnline, netVars, vars
  <1>11. \A c \in Cs, k \in Key : Answer(c, k) => Answered(c, k) /\ conn' = conn
    BY DEF Answer, UnknownAnswer, RetryAnswer, FinalAnswer
  <1> QED
    BY <1>5, <1>6, <1>7, <1>8, <1>9, <1>10, <1>11 DEF Next, TryDispatch

(* peer->taskcount never exceeds what the CS owes: an answer of an earlier *)
(* connection may lower it too far, and nothing raises it too far.         *)
THEOREM LoadIsOwed == Spec => []LoadBounded
  <1>1. Init => LoadInv
    <2> SUFFICES ASSUME Init PROVE LoadInv
      OBVIOUS
    <2>1. TypeOK /\ \A c \in Cs : load[c] = 0
      BY InitIInv DEF IInv, Init
    <2>2. \A c \in Cs : Owed(c) = {}
      BY DEF Init, Owed
    <2> QED BY <2>1, <2>2, FS_EmptySet DEF LoadInv, LoadBounded
  <1>2. IInv /\ LoadInv /\ [Next]_vars => LoadInv'
    BY NextLoadInv
  <1>3. LoadInv => LoadBounded
    BY DEF LoadInv
  <1> QED BY <1>1, <1>2, <1>3, Invariance, PTL DEF Spec

----------------------------------------------------------------------------
(* The status file                                                         *)

(* An idle slot is left whenever a task needs one.  Else set_task_to_tmp   *)
(* takes the end of the file for a slot, which after a restart may lie     *)
(* within a record.                                                        *)
SlotIsLeft == (\E t \in Name : Submit(t)) \/ LoadTask => idle # << >>

Aligned(p) == p % RecLen = 0
Holds(f, p, v) == p + NameCell \in DOMAIN f /\ f[p + NameCell] = v
Loading == phase = "load"
EndsBy(p, i) == p + RecLen =< i * RecLen

(* What is on disk was submitted.                                          *)
CellsOf(f, n) ==
    DOMAIN f = 0 .. n - 1 /\ \A c \in DOMAIN f : f[c] \in submitted \union {Blank}
DiskTyped ==
    /\ \E n \in Nat : CellsOf(disk, n)
    /\ \E n \in Nat : CellsOf(copy, n)
    /\ idle \in Seq(Nat)
    /\ live \subseteq [name : submitted, pos : Nat]
    /\ finished \subseteq submitted /\ submitted \subseteq Name
    /\ present \subseteq finished
    /\ phase \in {"run", "load"} /\ index \in Nat /\ crashes \in 0 .. MaxCrash

(* While the copy is read, the slots given out lie before the record that  *)
(* is read next, and a task is on disk in the slot it got.                 *)
SlotInv ==
    /\ SlotsApart
    /\ \A j \in DOMAIN idle : Aligned(idle[j])
    /\ \A m \in live : Aligned(m.pos)
    /\ Loading => /\ \A j \in DOMAIN idle : EndsBy(idle[j], index)
                  /\ \A m \in live : EndsBy(m.pos, index) /\ Holds(disk, m.pos, m.name)

(* The file that counts is the one that is there when the loading is over. *)
Kept == IF Loading THEN copy ELSE disk
IdleInv ==
    BigIsp => \A j \in DOMAIN idle :
        idle[j] + NameCell \in DOMAIN Kept => Kept[idle[j] + NameCell] \in {Blank} \union present

(* A task in memory has a record, which nobody else will write to: not in  *)
(* an idle slot, nor in that of another task.                              *)
IsHome(m, p) ==
    /\ Aligned(p) /\ Holds(Kept, p, m.name)
    /\ Loading => EndsBy(p, index)
    /\ \A j \in DOMAIN idle : Apart(p, idle[j])
    /\ \A n \in live : n # m => Apart(p, n.pos)
HomeInv == \A m \in live : \E p \in Nat : IsHome(m, p)

FileInv == DiskTyped /\ SlotInv /\ IdleInv /\ HomeInv

LEMMA FileSize ==
  ASSUME NEW f, NEW n \in Nat, DOMAIN f = 0 .. n - 1
  PROVE  Size(f) = n
  <1>1. Size(f) = Cardinality(0 .. n - 1)
    BY Zenon DEF Size
  <1>2. n - 1 \in Int /\ 0 \in Int
    OBVIOUS
  <1>3. Cardinality(0 .. n - 1) = IF 0 > n - 1 THEN 0 ELSE n - 1 - 0 + 1
    BY <1>2, FS_Interval
  <1> QED BY <1>1, <1>3

LEMMA MaxOfTwo ==
  ASSUME NEW a \in Int, NEW b \in Int
  PROVE  Max({a, b}) = IF a >= b THEN a ELSE b
  BY DEF Max

(* A record written changes the cells of its slot; before it, where the    *)
(* file was shorter, are zeros.                                            *)
WrittenTo(f, n, pos, v, k) ==
    /\ k >= n /\ k >= pos + RecLen
    /\ DOMAIN Write(f, pos, v) = 0 .. k - 1
    /\ \A c \in 0 .. k - 1 : Write(f, pos, v)[c] =
          IF c >= pos /\ c < pos + RecLen THEN v
          ELSE IF c < n THEN f[c] ELSE Blank
LEMMA WriteIs ==
  ASSUME NEW f, NEW n \in Nat, DOMAIN f = 0 .. n - 1,
         NEW pos \in Nat, NEW v
  PROVE  \E k \in Nat : WrittenTo(f, n, pos, v, k)
  <1> DEFINE k == IF n >= pos + RecLen THEN n ELSE pos + RecLen
  <1>1. pos + RecLen \in Nat
    BY FileAssumption
  <1>2. k \in Nat /\ k >= n /\ k >= pos + RecLen
    BY <1>1
  <1>3. Max({Size(f), pos + RecLen}) = k
    BY <1>1, FileSize, MaxOfTwo
  <1>4. Write(f, pos, v) = [c \in 0 .. k - 1 |->
            IF c >= pos /\ c < pos + RecLen THEN v
            ELSE IF c < n THEN f[c] ELSE Blank]
    <2> HIDE DEF k
    <2> QED BY <1>3, FileSize DEF Write
  <1> HIDE DEF k
  <1> QED BY <1>2, <1>4 DEF WrittenTo

LEMMA CellInSlot ==
  ASSUME NEW p \in Nat
  PROVE  p + NameCell \in Nat /\ p + NameCell >= p /\ p + NameCell < p + RecLen
  BY FileAssumption

LEMMA CellOutOfSlot ==
  ASSUME NEW p \in Nat, NEW q \in Nat, Apart(p, q)
  PROVE  ~(p + NameCell >= q /\ p + NameCell < q + RecLen)
  BY FileAssumption DEF Apart

LEMMA WrittenHolds ==
  ASSUME NEW f, NEW n \in Nat, DOMAIN f = 0 .. n - 1,
         NEW pos \in Nat, NEW v
  PROVE  Holds(Write(f, pos, v), pos, v)
  <1>1. PICK k \in Nat : WrittenTo(f, n, pos, v, k)
    BY WriteIs
  <1>2. RecLen \in Nat
    BY FileAssumption
  <1>3. pos + NameCell \in 0 .. k - 1
    BY <1>1, <1>2, CellInSlot DEF WrittenTo
  <1> QED BY <1>1, <1>3, CellInSlot DEF Holds, WrittenTo

LEMMA WrittenKeeps ==
  ASSUME NEW f, NEW n \in Nat, DOMAIN f = 0 .. n - 1,
         NEW pos \in Nat, NEW v, NEW p \in Nat, NEW u,
         Apart(p, pos), Holds(f, p, u)
  PROVE  Holds(Write(f, pos, v), p, u)
  <1>1. PICK k \in Nat : WrittenTo(f, n, pos, v, k)
    BY WriteIs
  <1>2. p + NameCell \in 0 .. n - 1 /\ f[p + NameCell] = u
    BY DEF Holds
  <1>3. p + NameCell \in 0 .. k - 1 /\ p + NameCell < n
    BY <1>1, <1>2 DEF WrittenTo
  <1> QED BY <1>1, <1>2, <1>3, CellOutOfSlot DEF Holds, WrittenTo

(* A cell of another slot is what it was, or zero in a hole.               *)
LEMMA WrittenElsewhere ==
  ASSUME NEW f, NEW n \in Nat, DOMAIN f = 0 .. n - 1,
         NEW pos \in Nat, NEW v, NEW p \in Nat, Apart(p, pos),
         p + NameCell \in DOMAIN Write(f, pos, v)
  PROVE  LET u == Write(f, pos, v)[p + NameCell] IN
         u = Blank \/ (p + NameCell \in DOMAIN f /\ u = f[p + NameCell])
  <1>1. PICK k \in Nat : WrittenTo(f, n, pos, v, k)
    BY WriteIs
  <1>2. p + NameCell \in 0 .. k - 1 /\ p + NameCell \in Nat
    BY <1>1, CellInSlot DEF WrittenTo
  <1>3. CASE p + NameCell < n
    <2>1. p + NameCell \in DOMAIN f
      BY <1>2, <1>3
    <2> QED BY <1>1, <1>2, <1>3, <2>1, CellOutOfSlot DEF WrittenTo
  <1>4. CASE ~(p + NameCell < n)
    BY <1>1, <1>2, <1>4, CellOutOfSlot DEF WrittenTo
  <1> QED BY <1>3, <1>4

LEMMA WrittenTyped ==
  ASSUME NEW f, NEW S, NEW n \in Nat, DOMAIN f = 0 .. n - 1,
         \A c \in DOMAIN f : f[c] \in S, NEW pos \in Nat, NEW v \in S, Blank \in S
  PROVE  \E k \in Nat :
            /\ k >= n
            /\ DOMAIN Write(f, pos, v) = 0 .. k - 1
            /\ \A c \in DOMAIN Write(f, pos, v) : Write(f, pos, v)[c] \in S
  <1>1. PICK k \in Nat : WrittenTo(f, n, pos, v, k)
    BY WriteIs
  <1>2. \A c \in 0 .. k - 1 : Write(f, pos, v)[c] \in S
    BY <1>1 DEF WrittenTo
  <1> QED BY <1>1, <1>2 DEF WrittenTo

LEMMA PushedIs ==
  ASSUME idle \in Seq(Nat), NEW p \in Nat
  PROVE  LET s == <<p>> \o idle IN
         /\ s \in Seq(Nat)
         /\ DOMAIN s = 1 .. Len(idle) + 1 /\ s[1] = p
         /\ \A j \in DOMAIN s : j # 1 => j - 1 \in DOMAIN idle /\ s[j] = idle[j - 1]
  OBVIOUS

LEMMA PoppedIs ==
  ASSUME idle \in Seq(Nat), idle # << >>
  PROVE  /\ Tail(idle) \in Seq(Nat) /\ Head(idle) = idle[1] /\ 1 \in DOMAIN idle
         /\ idle[1] \in Nat
         /\ \A j \in DOMAIN Tail(idle) :
               j \in Nat /\ j + 1 \in DOMAIN idle /\ j + 1 # 1 /\ Tail(idle)[j] = idle[j + 1]
  OBVIOUS

LEMMA ApartBothWays ==
  ASSUME NEW p \in Nat, NEW q \in Nat
  PROVE  Apart(p, q) => Apart(q, p)
  BY FileAssumption DEF Apart

(* A task takes the first idle slot.                                       *)
TakesSlot(t, p) ==
    /\ p \in Nat /\ 1 \in DOMAIN idle /\ p = idle[1]
    /\ disk' = Write(disk, p, t)
    /\ idle' \in Seq(Nat)
    /\ \A j \in DOMAIN idle' :
          j \in Nat /\ j + 1 \in DOMAIN idle /\ j + 1 # 1 /\ idle'[j] = idle[j + 1]
    /\ live' = live \union {[name |-> t, pos |-> p]}

LEMMA TaskTakesSlot ==
  ASSUME DiskTyped, idle # << >>, NEW t, SetTaskToTmp(t)
  PROVE  \E p \in Nat : TakesSlot(t, p)
  <1>1. idle \in Seq(Nat)
    BY DEF DiskTyped
  <1>2. disk' = Write(disk, Head(idle), t) /\ idle' = Tail(idle)
        /\ live' = live \union {[name |-> t, pos |-> Head(idle)]}
    BY Zenon DEF SetTaskToTmp, IdleRest
  <1>3. Head(idle) \in Nat
    BY <1>1, PoppedIs
  <1> QED BY <1>1, <1>2, <1>3, PoppedIs DEF TakesSlot

(* A slot is blanked and put before the others.                            *)
FreesSlot(p) ==
    /\ disk' = Write(disk, p, Blank)
    /\ idle' \in Seq(Nat)
    /\ \A j \in DOMAIN idle' :
          \/ j = 1 /\ idle'[j] = p
          \/ j # 1 /\ j - 1 \in DOMAIN idle /\ idle'[j] = idle[j - 1]

LEMMA SlotIsFreed ==
  ASSUME DiskTyped, NEW p \in Nat, SetTmpBlank(p)
  PROVE  FreesSlot(p)
  <1>1. idle \in Seq(Nat)
    BY DEF DiskTyped
  <1>2. disk' = Write(disk, p, Blank) /\ idle' = <<p>> \o idle
    BY Zenon DEF SetTmpBlank
  <1> QED BY <1>1, <1>2, PushedIs DEF FreesSlot

LEMMA IdleTyped ==
  ASSUME DiskTyped
  PROVE  \A j \in DOMAIN idle : idle[j] \in Nat
  BY DEF DiskTyped

LEMMA LiveTyped ==
  ASSUME DiskTyped
  PROVE  \A m \in live : m.pos \in Nat /\ m.name \in submitted /\ m = [name |-> m.name, pos |-> m.pos]
  BY DEF DiskTyped

LEMMA TakenApart ==
  ASSUME DiskTyped, SlotsApart, NEW t, NEW p \in Nat, TakesSlot(t, p)
  PROVE  SlotsApart'
  <1> DEFINE new == [name |-> t, pos |-> p]
  <1>1. \A m \in live : Apart(m.pos, p) /\ Apart(p, m.pos)
    BY LiveTyped, ApartBothWays DEF TakesSlot, SlotsApart
  <1>2. \A j \in DOMAIN idle' : Apart(p, idle'[j])
    BY DEF TakesSlot, SlotsApart
  <1>3. new.pos = p /\ live' = live \union {new}
    BY DEF TakesSlot
  <1> HIDE DEF new
  <1>4. \A m, n \in live' : m # n => Apart(m.pos, n.pos)
    BY <1>1, <1>3 DEF SlotsApart
  <1>5. \A m \in live', j \in DOMAIN idle' : Apart(m.pos, idle'[j])
    BY <1>2, <1>3 DEF TakesSlot, SlotsApart
  <1>6. \A j, k \in DOMAIN idle' : j # k => Apart(idle'[j], idle'[k])
    BY DEF TakesSlot, SlotsApart
  <1> QED BY <1>4, <1>5, <1>6 DEF SlotsApart, Apart

LEMMA FreedApart ==
  ASSUME DiskTyped, SlotsApart, NEW p \in Nat, FreesSlot(p),
         live' \subseteq live,
         \A m \in live' : Apart(m.pos, p),
         \A j \in DOMAIN idle : Apart(idle[j], p)
  PROVE  SlotsApart'
  <1>1. \A j \in DOMAIN idle : Apart(p, idle[j])
    BY IdleTyped, ApartBothWays
  <1>4. \A m, n \in live' : m # n => Apart(m.pos, n.pos)
    BY DEF SlotsApart
  <1>5. \A m \in live', j \in DOMAIN idle' : Apart(m.pos, idle'[j])
    BY DEF FreesSlot, SlotsApart
  <1>6. \A j, k \in DOMAIN idle' : j # k => Apart(idle'[j], idle'[k])
    <2> SUFFICES ASSUME NEW j \in DOMAIN idle', NEW k \in DOMAIN idle', j # k
                 PROVE  Apart(idle'[j], idle'[k])
      OBVIOUS
    <2>1. CASE j # 1 /\ k # 1
      <3>1. j \in Nat /\ k \in Nat /\ j - 1 # k - 1
        BY DEF FreesSlot
      <3> QED BY <2>1, <3>1 DEF FreesSlot, SlotsApart
    <2> QED BY <1>1, <2>1 DEF FreesSlot
  <1> QED BY <1>4, <1>5, <1>6 DEF SlotsApart, Apart

LEMMA DiskIs ==
  ASSUME DiskTyped
  PROVE  \E n \in Nat : CellsOf(disk, n)
  BY DEF DiskTyped

(* What a task that takes a slot leaves alone.                             *)
LEMMA TakenTyped ==
  ASSUME DiskTyped, NEW t, NEW p \in Nat, TakesSlot(t, p),
         submitted' = submitted \union {t}
  PROVE  /\ \E k \in Nat : CellsOf(disk, k)'
         /\ idle' \in Seq(Nat)
         /\ live' \subseteq [name : submitted', pos : Nat]
  <1>1. PICK n \in Nat : CellsOf(disk, n)
    BY DiskIs
  <1> DEFINE S == submitted' \union {Blank}
  <1>2. DOMAIN disk = 0 .. n - 1 /\ \A c \in DOMAIN disk : disk[c] \in S
    BY <1>1 DEF CellsOf
  <1>3. t \in S /\ Blank \in S
    OBVIOUS
  <1>4. \E k \in Nat : k >= n /\ DOMAIN disk' = 0 .. k - 1 /\ \A c \in DOMAIN disk' : disk'[c] \in S
    <2> HIDE DEF S
    <2>1. disk' = Write(disk, p, t)
      BY DEF TakesSlot
    <2>2. \E k \in Nat :
             /\ k >= n
             /\ DOMAIN Write(disk, p, t) = 0 .. k - 1
             /\ \A c \in DOMAIN Write(disk, p, t) : Write(disk, p, t)[c] \in S
      BY <1>2, <1>3, WrittenTyped
    <2> QED BY <2>1, <2>2
  <1>5. \E k \in Nat : CellsOf(disk, k)'
    BY <1>4 DEF CellsOf
  <1>6. live' \subseteq [name : submitted', pos : Nat]
    <2>1. live \subseteq [name : submitted, pos : Nat]
      BY DEF DiskTyped
    <2> QED BY <2>1 DEF TakesSlot
  <1> QED BY <1>5, <1>6 DEF TakesSlot

LEMMA TakenHolds ==
  ASSUME DiskTyped, NEW t, NEW p \in Nat, TakesSlot(t, p)
  PROVE  /\ Holds(disk', p, t)
         /\ \A q \in Nat : \A u : Apart(q, p) /\ Holds(disk, q, u) => Holds(disk', q, u)
         /\ \A q \in Nat : Apart(q, p) /\ q + NameCell \in DOMAIN disk' =>
               disk'[q + NameCell] = Blank
               \/ (q + NameCell \in DOMAIN disk /\ disk'[q + NameCell] = disk[q + NameCell])
  <1>1. PICK n \in Nat : CellsOf(disk, n)
    BY DiskIs
  <1>2. DOMAIN disk = 0 .. n - 1 /\ disk' = Write(disk, p, t)
    BY <1>1 DEF CellsOf, TakesSlot
  <1>3. Holds(disk', p, t)
    BY <1>2, WrittenHolds
  <1>4. \A q \in Nat : \A u : Apart(q, p) /\ Holds(disk, q, u) => Holds(disk', q, u)
    BY <1>2, WrittenKeeps
  <1>5. \A q \in Nat : Apart(q, p) /\ q + NameCell \in DOMAIN disk' =>
               disk'[q + NameCell] = Blank
               \/ (q + NameCell \in DOMAIN disk /\ disk'[q + NameCell] = disk[q + NameCell])
    BY <1>2, WrittenElsewhere
  <1> QED BY <1>3, <1>4, <1>5

LEMMA FreedHolds ==
  ASSUME DiskTyped, NEW p \in Nat, FreesSlot(p), submitted' = submitted
  PROVE  /\ \E k \in Nat : CellsOf(disk, k)'
         /\ Holds(disk', p, Blank)
         /\ \A q \in Nat : \A u : Apart(q, p) /\ Holds(disk, q, u) => Holds(disk', q, u)
         /\ \A q \in Nat : Apart(q, p) /\ q + NameCell \in DOMAIN disk' =>
               disk'[q + NameCell] = Blank
               \/ (q + NameCell \in DOMAIN disk /\ disk'[q + NameCell] = disk[q + NameCell])
  <1>1. PICK n \in Nat : CellsOf(disk, n)
    BY DiskIs
  <1>2. DOMAIN disk = 0 .. n - 1 /\ disk' = Write(disk, p, Blank)
    BY <1>1 DEF CellsOf, FreesSlot
  <1>3. Holds(disk', p, Blank)
    BY <1>2, WrittenHolds
  <1>4. \A q \in Nat : \A u : Apart(q, p) /\ Holds(disk, q, u) => Holds(disk', q, u)
    BY <1>2, WrittenKeeps
  <1>5. \A q \in Nat : Apart(q, p) /\ q + NameCell \in DOMAIN disk' =>
               disk'[q + NameCell] = Blank
               \/ (q + NameCell \in DOMAIN disk /\ disk'[q + NameCell] = disk[q + NameCell])
    BY <1>2, WrittenElsewhere
  <1> DEFINE S == submitted \union {Blank}
  <1>6. \A c \in DOMAIN disk : disk[c] \in S
    BY <1>1 DEF CellsOf
  <1>7. \E k \in Nat : k >= n /\ DOMAIN disk' = 0 .. k - 1 /\ \A c \in DOMAIN disk' : disk'[c] \in S
    <2>1. Blank \in S
      OBVIOUS
    <2> HIDE DEF S
    <2>2. \E k \in Nat :
             /\ k >= n
             /\ DOMAIN Write(disk, p, Blank) = 0 .. k - 1
             /\ \A c \in DOMAIN Write(disk, p, Blank) : Write(disk, p, Blank)[c] \in S
      BY <1>2, <1>6, <2>1, WrittenTyped
    <2> QED BY <1>2, <2>2
  <1>8. \E k \in Nat : CellsOf(disk, k)'
    BY <1>7 DEF CellsOf
  <1> QED BY <1>3, <1>4, <1>5, <1>8

----------------------------------------------------------------------------
LEMMA RecordsAligned ==
  ASSUME NEW i \in Nat
  PROVE  /\ i * RecLen \in Nat /\ Aligned(i * RecLen)
         /\ (i + 1) * RecLen = i * RecLen + RecLen
  BY FileAssumption DEF Aligned

LEMMA RecordOf ==
  ASSUME NEW p \in Nat, Aligned(p)
  PROVE  p \div RecLen \in Nat /\ (p \div RecLen) * RecLen = p
  BY FileAssumption DEF Aligned

LEMMA RecordsApart ==
  ASSUME NEW i \in Nat, NEW j \in Nat, i < j
  PROVE  i * RecLen + RecLen =< j * RecLen
  <1>1. PICK d \in Nat : j = i + 1 + d
    <2>1. j - i - 1 \in Nat /\ j = i + 1 + (j - i - 1)
      OBVIOUS
    <2> QED BY <2>1
  <1>2. RecLen \in Nat
    BY FileAssumption
  <1>3. j * RecLen = i * RecLen + RecLen + d * RecLen
    BY <1>1, <1>2
  <1>4. d * RecLen \in Nat /\ i * RecLen \in Nat /\ j * RecLen \in Nat
    BY <1>2
  <1> QED BY <1>2, <1>3, <1>4

LEMMA FileAtFirst ==
  ASSUME FileInit
  PROVE  FileInv
  <1>1. Items * RecLen \in Nat /\ Items \in Nat /\ RecLen \in Nat \ {0} /\ MaxCrash \in Nat
    BY FileAssumption
  <1>2. CellsOf(disk, Items * RecLen) /\ CellsOf(copy, Items * RecLen)
    BY <1>1 DEF FileInit, CellsOf
  <1>3. \A j \in 1 .. Items : Items - j \in Nat /\ (Items - j) * RecLen \in Nat
    <2> TAKE j \in 1 .. Items
    <2>1. Items - j \in Nat
      BY <1>1
    <2> QED BY <2>1, RecordsAligned
  <1>4. idle = [j \in 1 .. Items |-> (Items - j) * RecLen] /\ live = {}
    BY DEF FileInit
  <1>5. idle \in Seq(Nat) /\ DOMAIN idle = 1 .. Items
    BY <1>1, <1>3, <1>4
  <1>6. DiskTyped
    <2>1. (\E n \in Nat : CellsOf(disk, n)) /\ (\E n \in Nat : CellsOf(copy, n))
      BY <1>1, <1>2
    <2>2. /\ live = {} /\ finished = {} /\ submitted = {} /\ present = {}
          /\ phase = "run" /\ index = 0 /\ crashes = 0
      BY DEF FileInit
    <2>3. live \subseteq [name : submitted, pos : Nat]
      BY <2>2
    <2>4. index \in Nat /\ crashes \in 0 .. MaxCrash
      BY <1>1, <2>2
    <2> QED BY <1>5, <2>1, <2>2, <2>3, <2>4 DEF DiskTyped
  <1>7. \A j \in DOMAIN idle : Aligned(idle[j])
    BY <1>3, <1>4, <1>5, RecordsAligned
  <1>8. \A j, k \in DOMAIN idle : j # k => Apart(idle[j], idle[k])
    <2> SUFFICES ASSUME NEW j \in 1 .. Items, NEW k \in 1 .. Items, j # k
                 PROVE  Apart(idle[j], idle[k])
      BY <1>5
    <2>1. idle[j] = (Items - j) * RecLen /\ idle[k] = (Items - k) * RecLen
      BY <1>4
    <2>2. Items - j \in Nat /\ Items - k \in Nat /\ (Items - j < Items - k \/ Items - k < Items - j)
      BY <1>1
    <2> QED BY <2>1, <2>2, RecordsApart DEF Apart
  <1>9. ~Loading
    BY DEF FileInit, Loading
  <1>10. SlotInv
    BY <1>4, <1>7, <1>8, <1>9 DEF SlotInv, SlotsApart
  <1>11. IdleInv
    BY <1>9 DEF IdleInv, Kept, FileInit
  <1> QED BY <1>4, <1>6, <1>10, <1>11 DEF FileInv, HomeInv

LEMMA SubmitKeeps ==
  ASSUME FileInv, NEW t \in Name, Submit(t), idle # << >>
  PROVE  FileInv'
  <1>1. /\ phase = "run" /\ phase' = "run"
        /\ submitted' = submitted \union {t}
        /\ UNCHANGED <<copy, index, finished, present, crashes>>
        /\ SetTaskToTmp(t)
    BY DEF Submit
  <1>2. DiskTyped /\ SlotsApart /\ SlotInv /\ IdleInv /\ HomeInv
    BY DEF FileInv, SlotInv
  <1>3. PICK p \in Nat : TakesSlot(t, p)
    BY <1>1, <1>2, TaskTakesSlot
  <1>4. ~Loading /\ ~Loading'
    BY <1>1 DEF Loading
  <1>5. DiskTyped'
    <2>1. \E n \in Nat : CellsOf(copy, n)'
      BY <1>1, <1>2 DEF DiskTyped, CellsOf
    <2>2. finished' \subseteq submitted' /\ submitted' \subseteq Name /\ present' \subseteq finished'
          /\ phase' \in {"run", "load"} /\ index' \in Nat /\ crashes' \in 0 .. MaxCrash
      BY <1>1, <1>2 DEF DiskTyped
    <2> QED BY <1>1, <1>2, <1>3, <2>1, <2>2, TakenTyped DEF DiskTyped
  <1>6. SlotInv'
    <2>1. \A j \in DOMAIN idle' : Aligned(idle'[j])
      BY <1>2, <1>3 DEF TakesSlot, SlotInv
    <2>2. \A m \in live' : Aligned(m.pos)
      BY <1>2, <1>3 DEF TakesSlot, SlotInv
    <2> QED BY <1>2, <1>3, <1>4, <2>1, <2>2, TakenApart DEF SlotInv, Aligned
  <1>7. \A j \in DOMAIN idle' : idle'[j] \in Nat /\ Apart(idle'[j], p)
    BY <1>2, <1>3, IdleTyped DEF TakesSlot, SlotsApart
  <1>8. IdleInv'
    <2> SUFFICES ASSUME BigIsp, NEW j \in DOMAIN idle', idle'[j] + NameCell \in DOMAIN disk'
                 PROVE  disk'[idle'[j] + NameCell] \in {Blank} \union present
      BY <1>1, <1>4 DEF IdleInv, Kept
    <2>1. j \in Nat /\ j + 1 \in DOMAIN idle /\ idle'[j] = idle[j + 1]
      BY <1>3 DEF TakesSlot
    <2> QED BY <1>2, <1>3, <1>4, <1>7, <2>1, TakenHolds DEF IdleInv, Kept
  <1>9. HomeInv'
    <2> DEFINE new == [name |-> t, pos |-> p]
    <2>1. live' = live \union {new} /\ new.name = t /\ new.pos = p
      BY <1>3 DEF TakesSlot
    <2> HIDE DEF new
    <2>2. \A j \in DOMAIN idle' : Apart(p, idle'[j])
      BY <1>2, <1>3 DEF TakesSlot, SlotsApart
    <2>3. ASSUME NEW m \in live PROVE \E q \in Nat : IsHome(m, q)'
      <3>1. PICK q \in Nat : IsHome(m, q)
        BY <1>2 DEF HomeInv
      <3>2. Apart(q, p)
        BY <1>3, <3>1 DEF TakesSlot, IsHome
      <3>3. Holds(disk', q, m.name)
        BY <1>2, <1>3, <1>4, <3>1, <3>2, TakenHolds DEF IsHome, Kept
      <3>4. \A j \in DOMAIN idle' : Apart(q, idle'[j])
        BY <1>3, <3>1 DEF TakesSlot, IsHome
      <3>5. \A n \in live' : n # m => Apart(q, n.pos)
        BY <2>1, <3>1, <3>2 DEF IsHome
      <3> QED BY <1>4, <3>1, <3>3, <3>4, <3>5 DEF IsHome, Kept, Holds, Aligned, Apart
    <2>4. ASSUME new \notin live PROVE IsHome(new, p)'
      <3>1. Aligned(p)
        BY <1>2, <1>3 DEF TakesSlot, SlotInv
      <3>2. Holds(disk', p, new.name)
        BY <1>2, <1>3, <2>1, TakenHolds
      <3>3. \A n \in live' : n # new => Apart(p, n.pos)
        BY <1>2, <1>3, <2>1, LiveTyped, ApartBothWays DEF SlotsApart, TakesSlot
      <3> QED BY <1>4, <2>2, <3>1, <3>2, <3>3 DEF IsHome, Kept, Holds, Aligned, Apart
    <2> QED BY <2>1, <2>3, <2>4 DEF HomeInv
  <1> QED BY <1>5, <1>6, <1>8, <1>9 DEF FileInv

LEMMA FinishKeeps ==
  ASSUME FileInv, NEW m \in live, Finish(m)
  PROVE  FileInv'
  <1>1. /\ phase = "run" /\ phase' = "run"
        /\ live' = live \ {m} /\ finished' = finished \union {m.name}
        /\ UNCHANGED <<copy, index, submitted, present, crashes>>
        /\ SetTmpBlank(m.pos)
    BY DEF Finish
  <1>2. DiskTyped /\ SlotsApart /\ SlotInv /\ IdleInv /\ HomeInv
    BY DEF FileInv, SlotInv
  <1>3. m.pos \in Nat /\ m.name \in submitted
    BY <1>2, LiveTyped
  <1>4. FreesSlot(m.pos)
    BY <1>1, <1>2, <1>3, SlotIsFreed
  <1>5. ~Loading /\ ~Loading'
    BY <1>1 DEF Loading
  <1>6. DiskTyped'
    <2>1. \E n \in Nat : CellsOf(copy, n)'
      BY <1>1, <1>2 DEF DiskTyped, CellsOf
    <2>2. finished' \subseteq submitted' /\ submitted' \subseteq Name /\ present' \subseteq finished'
          /\ phase' \in {"run", "load"} /\ index' \in Nat /\ crashes' \in 0 .. MaxCrash
          /\ live' \subseteq [name : submitted', pos : Nat]
      BY <1>1, <1>2, <1>3 DEF DiskTyped
    <2> QED BY <1>1, <1>2, <1>3, <1>4, <2>1, <2>2, FreedHolds DEF DiskTyped, FreesSlot
  <1>7. \A j \in DOMAIN idle : idle[j] \in Nat /\ Apart(m.pos, idle[j]) /\ Apart(idle[j], m.pos)
    BY <1>2, <1>3, IdleTyped, ApartBothWays DEF SlotsApart
  <1>8. SlotInv'
    <2>1. SlotsApart'
      <3>1. \A n \in live' : Apart(n.pos, m.pos)
        BY <1>1, <1>2 DEF SlotsApart
      <3> QED BY <1>1, <1>2, <1>3, <1>4, <1>7, <3>1, FreedApart
    <2>2. Aligned(m.pos)
      BY <1>2 DEF SlotInv
    <2>3. \A j \in DOMAIN idle' : Aligned(idle'[j])
      BY <1>2, <1>4, <2>2 DEF FreesSlot, SlotInv
    <2>4. \A n \in live' : Aligned(n.pos)
      BY <1>1, <1>2 DEF SlotInv
    <2> QED BY <1>5, <2>1, <2>3, <2>4 DEF SlotInv, Aligned
  <1>9. IdleInv'
    <2> SUFFICES ASSUME BigIsp, NEW j \in DOMAIN idle', idle'[j] + NameCell \in DOMAIN disk'
                 PROVE  disk'[idle'[j] + NameCell] \in {Blank} \union present
      BY <1>1, <1>5 DEF IdleInv, Kept
    <2>1. CASE idle'[j] = m.pos
      BY <1>1, <1>2, <1>3, <1>4, <2>1, FreedHolds DEF Holds
    <2>2. CASE j # 1 /\ j - 1 \in DOMAIN idle /\ idle'[j] = idle[j - 1]
      BY <1>1, <1>2, <1>3, <1>4, <1>5, <1>7, <2>2, FreedHolds DEF IdleInv, Kept
    <2> QED BY <1>4, <2>1, <2>2 DEF FreesSlot
  <1>10. HomeInv'
    <2> SUFFICES ASSUME NEW n \in live' PROVE \E q \in Nat : IsHome(n, q)'
      BY DEF HomeInv
    <2>1. n \in live /\ n # m
      BY <1>1
    <2>2. PICK q \in Nat : IsHome(n, q)
      BY <1>2, <2>1 DEF HomeInv
    <2>3. Apart(q, m.pos)
      BY <2>1, <2>2 DEF IsHome
    <2>4. Holds(disk', q, n.name)
      BY <1>1, <1>2, <1>3, <1>4, <1>5, <2>2, <2>3, FreedHolds DEF IsHome, Kept
    <2>5. \A j \in DOMAIN idle' : Apart(q, idle'[j])
      BY <1>4, <2>2, <2>3 DEF FreesSlot, IsHome
    <2>6. \A k \in live' : k # n => Apart(q, k.pos)
      BY <1>1, <2>2 DEF IsHome
    <2> QED BY <1>5, <2>2, <2>4, <2>5, <2>6 DEF IsHome, Kept, Holds, Aligned, Apart
  <1> QED BY <1>6, <1>8, <1>9, <1>10 DEF FileInv

LEMMA CrashKeeps ==
  ASSUME FileInv, Crash
  PROVE  FileInv'
  <1>1. /\ idle' = << >> /\ live' = {} /\ phase' = "load" /\ index' = 0
        /\ crashes < MaxCrash /\ crashes' = crashes + 1
        /\ copy' = Truncated(disk, InitSize * NodeLen)
        /\ UNCHANGED <<disk, submitted, finished, present>>
    BY DEF Crash
  <1>2. DiskTyped
    BY DEF FileInv
  <1>3. PICK n \in Nat : CellsOf(disk, n)
    BY <1>2, DiskIs
  <1>4. n \div NodeLen \in Nat /\ Items \in Nat /\ NodeLen \in Nat /\ MaxCrash \in Nat
    BY FileAssumption
  <1>5. InitSize \in Nat
    <2>1. Size(disk) = n
      BY <1>3, FileSize DEF CellsOf
    <2>2. InitSize = Max({n \div NodeLen, Items})
      BY <2>1 DEF InitSize
    <2> QED BY <1>4, <2>2, MaxOfTwo
  <1> DEFINE k == InitSize * NodeLen
  <1>6. k \in Nat
    BY <1>4, <1>5
  <1>7. \E i \in Nat : CellsOf(copy, i)'
    <2>1. copy' = Truncated(disk, k)
      BY <1>1
    <2> HIDE DEF k
    <2>2. Truncated(disk, k) = [c \in 0 .. k - 1 |-> IF c < n THEN disk[c] ELSE Blank]
      BY <1>3, FileSize DEF Truncated, CellsOf
    <2>3. \A c \in 0 .. k - 1 : c < n => disk[c] \in submitted \union {Blank}
      BY <1>3, <1>6 DEF CellsOf
    <2>4. DOMAIN copy' = 0 .. k - 1 /\ \A c \in DOMAIN copy' : copy'[c] \in submitted' \union {Blank}
      BY <1>1, <2>1, <2>2, <2>3
    <2> QED BY <1>6, <2>4 DEF CellsOf
  <1>8. \E i \in Nat : CellsOf(disk, i)'
    BY <1>1, <1>3 DEF CellsOf
  <1>9. DiskTyped'
    BY <1>1, <1>2, <1>4, <1>7, <1>8 DEF DiskTyped
  <1>10. SlotInv' /\ IdleInv' /\ HomeInv'
    BY <1>1 DEF SlotInv, IdleInv, HomeInv, SlotsApart
  <1> QED BY <1>9, <1>10 DEF FileInv

LEMMA LoadIdleKeeps ==
  ASSUME FileInv, LoadIdle
  PROVE  FileInv'
  <1> PICK p, rec : p = index * RecLen /\ rec = copy[p + NameCell]
    OBVIOUS
  <1>1. /\ phase = "load" /\ phase' = "load" /\ index' = index + 1
        /\ rec = Blank \/ ~BigIsp \/ rec \in finished
        /\ present' = present \union ({rec} \intersect finished)
        /\ UNCHANGED <<copy, live, submitted, finished, crashes>>
        /\ SetTmpBlank(p)
    BY DEF LoadIdle, Record, IsBlank
  <1>2. DiskTyped /\ SlotsApart /\ SlotInv /\ IdleInv /\ HomeInv
    BY DEF FileInv, SlotInv
  <1>3. p \in Nat /\ Aligned(p) /\ (index + 1) * RecLen = p + RecLen /\ index \in Nat /\ RecLen \in Nat
    BY <1>2, RecordsAligned, FileAssumption DEF DiskTyped
  <1>4. Loading /\ Loading'
    BY <1>1 DEF Loading
  <1>5. FreesSlot(p)
    BY <1>1, <1>2, <1>3, SlotIsFreed
  <1>6. \A q \in Nat : EndsBy(q, index) => Apart(q, p) /\ Apart(p, q) /\ EndsBy(q, index')
    BY <1>1, <1>3 DEF EndsBy, Apart
  <1>7. EndsBy(p, index')
    BY <1>1, <1>3 DEF EndsBy
  <1>8. DiskTyped'
    <2>1. \E n \in Nat : CellsOf(copy, n)'
      BY <1>1, <1>2 DEF DiskTyped, CellsOf
    <2>2. finished' \subseteq submitted' /\ submitted' \subseteq Name /\ present' \subseteq finished'
          /\ phase' \in {"run", "load"} /\ index' \in Nat /\ crashes' \in 0 .. MaxCrash
          /\ live' \subseteq [name : submitted', pos : Nat]
      BY <1>1, <1>2, <1>3 DEF DiskTyped
    <2> QED BY <1>1, <1>2, <1>3, <1>5, <2>1, <2>2, FreedHolds DEF DiskTyped, FreesSlot
  <1>9. \A j \in DOMAIN idle : idle[j] \in Nat /\ EndsBy(idle[j], index)
    BY <1>2, <1>4, IdleTyped DEF SlotInv
  <1>10. \A m \in live : m.pos \in Nat /\ EndsBy(m.pos, index)
    BY <1>2, <1>4, LiveTyped DEF SlotInv
  <1>11. SlotInv'
    <2>1. SlotsApart'
      BY <1>1, <1>2, <1>3, <1>5, <1>6, <1>9, <1>10, FreedApart
    <2>2. \A j \in DOMAIN idle' : Aligned(idle'[j]) /\ EndsBy(idle'[j], index')
      <3> TAKE j \in DOMAIN idle'
      <3>1. CASE idle'[j] = p
        BY <1>3, <1>7, <3>1 DEF EndsBy
      <3>2. CASE j # 1 /\ j - 1 \in DOMAIN idle /\ idle'[j] = idle[j - 1]
        BY <1>2, <1>6, <1>9, <3>2 DEF EndsBy, SlotInv
      <3> QED BY <1>5, <3>1, <3>2 DEF FreesSlot
    <2>3. \A m \in live : Aligned(m.pos) /\ EndsBy(m.pos, index') /\ Holds(disk', m.pos, m.name)
      <3> TAKE m \in live
      <3>1. Aligned(m.pos) /\ Holds(disk, m.pos, m.name)
        BY <1>2, <1>4 DEF SlotInv
      <3> QED BY <1>1, <1>2, <1>3, <1>5, <1>6, <1>10, <3>1, FreedHolds DEF EndsBy
    <2> QED BY <1>1, <1>4, <2>1, <2>2, <2>3 DEF SlotInv, Aligned, Holds, EndsBy
  <1>12. IdleInv'
    <2> SUFFICES ASSUME BigIsp, NEW j \in DOMAIN idle', idle'[j] + NameCell \in DOMAIN copy
                 PROVE  copy[idle'[j] + NameCell] \in {Blank} \union present'
      BY <1>1, <1>4 DEF IdleInv, Kept
    <2>1. CASE idle'[j] = p
      BY <1>1, <2>1
    <2>2. CASE j # 1 /\ j - 1 \in DOMAIN idle /\ idle'[j] = idle[j - 1]
      BY <1>1, <1>2, <1>4, <2>2 DEF IdleInv, Kept
    <2> QED BY <1>5, <2>1, <2>2 DEF FreesSlot
  <1>13. HomeInv'
    <2> SUFFICES ASSUME NEW n \in live PROVE \E q \in Nat : IsHome(n, q)'
      BY <1>1 DEF HomeInv
    <2>1. PICK q \in Nat : IsHome(n, q)
      BY <1>2 DEF HomeInv
    <2>2. Apart(q, p) /\ EndsBy(q, index')
      BY <1>4, <1>6, <2>1 DEF IsHome, EndsBy
    <2>3. Holds(copy, q, n.name)
      BY <1>4, <2>1 DEF IsHome, Kept
    <2>4. \A j \in DOMAIN idle' : Apart(q, idle'[j])
      BY <1>5, <2>1, <2>2 DEF FreesSlot, IsHome
    <2>5. \A k \in live' : k # n => Apart(q, k.pos)
      BY <1>1, <2>1 DEF IsHome
    <2> QED BY <1>1, <1>4, <2>1, <2>2, <2>3, <2>4, <2>5 DEF IsHome, Kept, Holds, Aligned, Apart
  <1> QED BY <1>8, <1>11, <1>12, <1>13 DEF FileInv

LEMMA LoadTaskKeeps ==
  ASSUME FileInv, LoadTask, idle # << >>
  PROVE  FileInv'
  <1> PICK h, t : h = index * RecLen /\ t = copy[h + NameCell]
    OBVIOUS
  <1>1. /\ phase = "load" /\ phase' = "load" /\ index' = index + 1
        /\ h + RecLen =< Size(copy) /\ t # Blank
        /\ UNCHANGED <<copy, submitted, finished, present, crashes>>
        /\ SetTaskToTmp(t)
    BY DEF LoadTask, Record, IsBlank, HasRecord, CopyKept
  <1>2. DiskTyped /\ SlotsApart /\ SlotInv /\ IdleInv /\ HomeInv
    BY DEF FileInv, SlotInv
  <1>3. h \in Nat /\ Aligned(h) /\ (index + 1) * RecLen = h + RecLen /\ index \in Nat /\ RecLen \in Nat
    BY <1>2, RecordsAligned, FileAssumption DEF DiskTyped
  <1>4. Loading /\ Loading'
    BY <1>1 DEF Loading
  <1>5. \A q \in Nat : EndsBy(q, index) => Apart(q, h) /\ Apart(h, q) /\ EndsBy(q, index')
    BY <1>1, <1>3 DEF EndsBy, Apart
  <1>6. EndsBy(h, index')
    BY <1>1, <1>3 DEF EndsBy
  <1>7. h + NameCell \in DOMAIN copy /\ t \in submitted
    <2>1. PICK n \in Nat : CellsOf(copy, n)
      BY <1>2 DEF DiskTyped
    <2>2. h + RecLen =< n
      BY <1>1, <2>1, FileSize DEF CellsOf
    <2>3. h + NameCell \in 0 .. n - 1
      BY <1>3, <2>2, CellInSlot
    <2> QED BY <1>1, <2>1, <2>3 DEF CellsOf
  <1>8. PICK p \in Nat : TakesSlot(t, p)
    BY <1>1, <1>2, TaskTakesSlot
  <1>9. DiskTyped'
    <2>1. \E n \in Nat : CellsOf(copy, n)'
      BY <1>1, <1>2 DEF DiskTyped, CellsOf
    <2>2. finished' \subseteq submitted' /\ submitted' \subseteq Name /\ present' \subseteq finished'
          /\ phase' \in {"run", "load"} /\ index' \in Nat /\ crashes' \in 0 .. MaxCrash
      BY <1>1, <1>2, <1>3 DEF DiskTyped
    <2>3. submitted' = submitted \union {t}
      BY <1>1, <1>7
    <2> QED BY <1>1, <1>2, <1>8, <2>1, <2>2, <2>3, TakenTyped DEF DiskTyped
  <1>10. \A j \in DOMAIN idle : idle[j] \in Nat /\ EndsBy(idle[j], index) /\ Aligned(idle[j])
    BY <1>2, <1>4, IdleTyped DEF SlotInv
  <1>11. \A m \in live : m.pos \in Nat /\ EndsBy(m.pos, index) /\ Apart(m.pos, p)
    BY <1>2, <1>4, <1>8, LiveTyped DEF SlotInv, TakesSlot, SlotsApart
  <1>12. EndsBy(p, index) /\ Aligned(p)
    BY <1>8, <1>10 DEF TakesSlot
  <1> DEFINE new == [name |-> t, pos |-> p]
  <1>13. live' = live \union {new} /\ new.name = t /\ new.pos = p
    BY <1>8 DEF TakesSlot
  <1> HIDE DEF new
  <1>14. SlotInv'
    <2>1. SlotsApart'
      BY <1>2, <1>8, TakenApart
    <2>2. \A j \in DOMAIN idle' : Aligned(idle'[j]) /\ EndsBy(idle'[j], index')
      BY <1>5, <1>8, <1>10 DEF TakesSlot, EndsBy
    <2>3. \A m \in live' : Aligned(m.pos) /\ EndsBy(m.pos, index') /\ Holds(disk', m.pos, m.name)
      <3>1. ASSUME NEW m \in live
            PROVE  Aligned(m.pos) /\ EndsBy(m.pos, index') /\ Holds(disk', m.pos, m.name)
        <4>1. Aligned(m.pos) /\ Holds(disk, m.pos, m.name)
          BY <1>2, <1>4 DEF SlotInv
        <4> QED BY <1>2, <1>5, <1>8, <1>11, <4>1, TakenHolds DEF EndsBy
      <3>2. Aligned(p) /\ EndsBy(p, index') /\ Holds(disk', p, t)
        BY <1>2, <1>5, <1>8, <1>12, TakenHolds
      <3> QED BY <1>13, <3>1, <3>2 DEF EndsBy
    <2> QED BY <1>1, <1>4, <2>1, <2>2, <2>3 DEF SlotInv, Aligned, Holds, EndsBy
  <1>15. IdleInv'
    <2> SUFFICES ASSUME BigIsp, NEW j \in DOMAIN idle', idle'[j] + NameCell \in DOMAIN copy
                 PROVE  copy[idle'[j] + NameCell] \in {Blank} \union present
      BY <1>1, <1>4 DEF IdleInv, Kept
    <2> QED BY <1>2, <1>4, <1>8 DEF IdleInv, Kept, TakesSlot
  <1>16. HomeInv'
    <2>1. ASSUME NEW m \in live PROVE \E q \in Nat : IsHome(m, q)'
      <3>1. PICK q \in Nat : IsHome(m, q)
        BY <1>2 DEF HomeInv
      <3>2. EndsBy(q, index') /\ Holds(copy, q, m.name) /\ Aligned(q)
        BY <1>4, <1>5, <3>1 DEF IsHome, Kept, EndsBy
      <3>3. \A j \in DOMAIN idle' : Apart(q, idle'[j])
        BY <1>8, <3>1 DEF TakesSlot, IsHome
      <3>4. \A n \in live' : n # m => Apart(q, n.pos)
        BY <1>8, <1>13, <3>1 DEF TakesSlot, IsHome
      <3> QED BY <1>1, <1>4, <3>2, <3>3, <3>4 DEF IsHome, Kept, Holds, Aligned, Apart
    <2>2. IsHome(new, h)'
      <3>1. Holds(copy, h, new.name)
        BY <1>7, <1>13 DEF Holds
      <3>2. \A j \in DOMAIN idle' : Apart(h, idle'[j])
        BY <1>5, <1>8, <1>10 DEF TakesSlot
      <3>3. \A n \in live' : n # new => Apart(h, n.pos)
        BY <1>5, <1>11, <1>13
      <3> QED BY <1>1, <1>3, <1>4, <1>6, <3>1, <3>2, <3>3 DEF IsHome, Kept, Holds, Aligned, Apart
    <2> QED BY <1>3, <1>13, <2>1, <2>2 DEF HomeInv
  <1> QED BY <1>9, <1>14, <1>15, <1>16 DEF FileInv

LEMMA LoadEndKeeps ==
  ASSUME FileInv, LoadEnd
  PROVE  FileInv'
  <1>1. /\ phase = "load" /\ phase' = "run" /\ disk' = copy
        /\ UNCHANGED <<copy, idle, live, index, submitted, finished, present, crashes>>
    BY DEF LoadEnd
  <1>2. DiskTyped /\ SlotInv /\ IdleInv /\ HomeInv
    BY DEF FileInv
  <1>3. Loading /\ ~Loading'
    BY <1>1 DEF Loading
  <1>4. DiskTyped'
    <2>1. \E n \in Nat : CellsOf(copy, n)
      BY <1>2 DEF DiskTyped
    <2>2. (\E n \in Nat : CellsOf(disk, n)') /\ (\E n \in Nat : CellsOf(copy, n)')
      BY <1>1, <2>1 DEF CellsOf
    <2> QED BY <1>1, <1>2, <2>2 DEF DiskTyped
  <1>5. SlotInv'
    BY <1>1, <1>2, <1>3 DEF SlotInv, SlotsApart, Apart, Aligned
  <1>6. IdleInv'
    BY <1>1, <1>2, <1>3 DEF IdleInv, Kept
  <1>7. HomeInv'
    <2> SUFFICES ASSUME NEW m \in live, NEW q \in Nat, IsHome(m, q) PROVE IsHome(m, q)'
      BY <1>1, <1>2 DEF HomeInv
    <2> QED BY <1>1, <1>3 DEF IsHome, Kept, Holds, Aligned, Apart
  <1> QED BY <1>4, <1>5, <1>6, <1>7 DEF FileInv

----------------------------------------------------------------------------
LEMMA FileInvStep ==
  ASSUME FileInv, [FileNext]_fileVars, [SlotIsLeft]_fileVars
  PROVE  FileInv'
  <1>1. CASE UNCHANGED fileVars
    BY <1>1 DEF fileVars, FileInv, DiskTyped, CellsOf, SlotInv, SlotsApart, Apart,
                Aligned, EndsBy, Holds, Loading, IdleInv, Kept, HomeInv, IsHome
  <1>2. CASE FileNext /\ SlotIsLeft
    <2>1. ASSUME NEW t \in Name, Submit(t) PROVE FileInv'
      BY <1>2, <2>1, SubmitKeeps DEF SlotIsLeft
    <2>2. ASSUME NEW m \in live, Finish(m) PROVE FileInv'
      BY <2>2, FinishKeeps
    <2>3. ASSUME LoadTask PROVE FileInv'
      BY <1>2, <2>3, LoadTaskKeeps DEF SlotIsLeft
    <2> QED BY <1>2, <2>1, <2>2, <2>3, CrashKeeps, LoadIdleKeeps, LoadEndKeeps DEF FileNext
  <1> QED BY <1>1, <1>2

LEMMA FileIsTyped ==
  ASSUME DiskTyped
  PROVE  FileTypeOK
  <1>1. \A f : (\E n \in Nat : CellsOf(f, n)) =>
           DOMAIN f = 0 .. Size(f) - 1 /\ \A c \in DOMAIN f : f[c] \in Name \union {Blank}
    <2> SUFFICES ASSUME NEW f, NEW n \in Nat, CellsOf(f, n)
                 PROVE  DOMAIN f = 0 .. Size(f) - 1
                        /\ \A c \in DOMAIN f : f[c] \in Name \union {Blank}
      OBVIOUS
    <2>1. Size(f) = n
      BY FileSize DEF CellsOf
    <2>2. submitted \subseteq Name
      BY DEF DiskTyped
    <2> QED BY <2>1, <2>2 DEF CellsOf
  <1>2. \A f \in {disk, copy} :
           DOMAIN f = 0 .. Size(f) - 1 /\ \A c \in DOMAIN f : f[c] \in Name \union {Blank}
    BY <1>1 DEF DiskTyped
  <1> QED BY <1>2 DEF DiskTyped, FileTypeOK

LEMMA FileIsSound ==
  ASSUME FileInv
  PROVE  SlotsSound /\ LiveIsOnDisk
  <1>1. DiskTyped /\ SlotsApart /\ SlotInv /\ IdleInv /\ HomeInv
    BY DEF FileInv, SlotInv
  <1>2. IdleIsBlank
    BY <1>1 DEF IdleIsBlank, IdleInv, Kept, Loading
  <1>3. LiveIsOnDisk
    <2> SUFFICES ASSUME NEW m \in live
                 PROVE  \E j \in 0 .. Size(disk) \div RecLen :
                           /\ j * RecLen + NameCell \in DOMAIN disk
                           /\ disk[j * RecLen + NameCell] = m.name
      BY DEF LiveIsOnDisk
    <2>1. PICK p \in Nat : Aligned(p) /\ Holds(disk, p, m.name)
      <3>1. CASE Loading
        BY <1>1, <3>1, LiveTyped DEF SlotInv
      <3>2. CASE ~Loading
        BY <1>1, <3>2 DEF HomeInv, IsHome, Kept
      <3> QED BY <3>1, <3>2
    <2>2. PICK j \in Nat : j * RecLen = p
      BY <2>1, RecordOf
    <2>3. PICK n \in Nat : CellsOf(disk, n)
      BY <1>1, DiskIs
    <2>4. Size(disk) = n /\ p + NameCell < n
      BY <2>1, <2>3, FileSize DEF CellsOf, Holds
    <2>5. j =< n \div RecLen
      <3> DEFINE q == n \div RecLen
      <3>1. RecLen \in Nat \ {0}
        BY FileAssumption
      <3>2. q \in Nat /\ n < q * RecLen + RecLen
        BY <3>1
      <3>3. p =< n
        BY <2>4, CellInSlot
      <3> HIDE DEF q
      <3>4. ~(q < j)
        <4>1. q * RecLen \in Nat
          BY <3>1, <3>2
        <4> QED BY <2>2, <3>1, <3>2, <3>3, <4>1, RecordsApart
      <3> QED BY <3>2, <3>4 DEF q
    <2>6. j \in 0 .. n \div RecLen
      BY <2>5
    <2> QED BY <2>1, <2>2, <2>4, <2>6 DEF Holds
  <1> QED BY <1>1, <1>2, <1>3, FileIsTyped DEF SlotsSound

(* The invariant of the status file, while an idle slot is left whenever   *)
(* a task needs one.                                                       *)
THEOREM FileInvariance ==
  FileSpec /\ [][SlotIsLeft]_fileVars => []FileInv
  <1>1. FileInit => FileInv
    BY FileAtFirst
  <1>2. FileInv /\ [FileNext]_fileVars /\ [SlotIsLeft]_fileVars => FileInv'
    BY FileInvStep
  <1> QED BY <1>1, <1>2, PTL DEF FileSpec

(* As long as an idle slot is left whenever a task needs one, and whatever *)
(* restarts there are, also in the middle of a restart: no two tasks have  *)
(* a slot in common, and an idle slot is no task's and holds nothing that  *)
(* a later restart would bring back (set_task_to_tmp, set_tmp_blank,       *)
(* init_load_tmp_status).                                                  *)
THEOREM SlotsAreSound ==
  FileSpec /\ [][SlotIsLeft]_fileVars => []SlotsSound
  <1>1. FileInv => SlotsSound
    BY FileIsSound
  <1> QED BY <1>1, FileInvariance, PTL

(* On the same condition a task in memory has a record on disk, whatever   *)
(* other tasks write to the slots they know.                               *)
THEOREM LiveTasksAreOnDisk ==
  FileSpec /\ [][SlotIsLeft]_fileVars => []LiveIsOnDisk
  <1>1. FileInv => LiveIsOnDisk
    BY FileIsSound
  <1> QED BY <1>1, FileInvariance, PTL
=============================================================================
