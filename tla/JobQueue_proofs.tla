--------------------------- MODULE JobQueue_proofs ---------------------------
(***************************************************************************)
(* Proofs about JobQueue for every set of jobs, customers and goroutines, *)
(* every cap, every max_attempts and every number of restarts and lost    *)
(* writes.                                                                 *)
(***************************************************************************)
EXTENDS JobQueue, FiniteSetTheorems, TLAPS

\* A count that is at most one and not one is zero.
LEMMA ZeroOrOne == \A n \in Nat : n <= 1 /\ n # 1 => n = 0
OBVIOUS

(***************************************************************************)
(* Next, one named disjunct per action: the case split of every step      *)
(* lemma below.                                                            *)
(***************************************************************************)
LEMMA NextCases ==
    ASSUME Next
    PROVE  \/ \E j \in Jobs : EnqueueJob(j)
           \/ \E j \in Jobs : ComesDue(j)
           \/ \E g \in Goroutines, j \in Jobs : Fetch(g, j)
           \/ \E g \in Goroutines : ClaimJob(g)
           \/ \E g \in Goroutines : CheckPlan(g)
           \/ \E g \in Goroutines : CheckCap(g)
           \/ \E g \in Goroutines : Defer(g)
           \/ \E g \in Goroutines : OpenLog(g)
           \/ \E g \in Goroutines : Send(g)
           \/ \E g \in Goroutines : FailJob(g)
           \/ \E g \in Goroutines : CompleteJob(g)
           \/ \E g \in Goroutines : MarkLogSent(g)
           \/ \E g \in Goroutines : TagOrder(g)
           \/ \E C \in {Contacts} \cup {{c} : c \in Contacts} : Purge(C)
           \/ NewDay
           \/ \E c \in Contacts : OtherSend(c)
           \/ Restart
BY DEF Next, Process

\* Every variable keeps its type, and a goroutine works on a row exactly when it runs.
LEMMA TypeStep == TypeOK /\ [Next]_vars => TypeOK'
<1> SUFFICES ASSUME TypeOK, [Next]_vars PROVE TypeOK'
  OBVIOUS
<1> USE JobQueueAssumption DEF TypeOK, Statuses, PCs, rowVars, goVars, countVars, netVars,
        faultVars, Goto, Return, DropError, StatusWrite, RowSet
<1>1. ASSUME NEW j \in Jobs, EnqueueJob(j) PROVE TypeOK'
  BY <1>1 DEF EnqueueJob
<1>2. ASSUME NEW j \in Jobs, ComesDue(j) PROVE TypeOK'
  BY <1>2 DEF ComesDue
<1>3. ASSUME NEW g \in Goroutines, NEW j \in Jobs, Fetch(g, j) PROVE TypeOK'
  BY <1>3 DEF Fetch
<1>4. ASSUME NEW g \in Goroutines, ClaimJob(g) PROVE TypeOK'
  BY <1>4 DEF ClaimJob, ClaimCost, Claimable
<1>5. ASSUME NEW g \in Goroutines, CheckPlan(g) PROVE TypeOK'
  BY <1>5 DEF CheckPlan
<1>6. ASSUME NEW g \in Goroutines, CheckCap(g) PROVE TypeOK'
  BY <1>6 DEF CheckCap
<1>7. ASSUME NEW g \in Goroutines, Defer(g) PROVE TypeOK'
  <2>1. job[g] \in Jobs
    BY <1>7 DEF Defer
  <2>2. due' = [due EXCEPT ![job[g]] = FALSE] \/ due' = due
    BY <1>7 DEF Defer
  <2>3. due' \in [Jobs -> BOOLEAN]
    BY <2>2
  <2>4. status' \in [Jobs -> Statuses]
    BY <2>1, <1>7 DEF Defer
  <2>5. lost' \in 0..MaxDropped
    BY <1>7 DEF Defer
  <2>6. /\ job' \in [Goroutines -> Jobs \cup {NoJob}]
        /\ pc' \in [Goroutines -> PCs]
        /\ log' \in [Goroutines -> {"none", "today", "old"}]
        /\ \A h \in Goroutines : pc'[h] = "idle" <=> job'[h] = NoJob
    BY <1>7 DEF Defer
  <2>7. UNCHANGED <<attempts, sentToday, otherToday, delivered, acked, restarts>>
    BY <1>7 DEF Defer
  <2> QED
    BY <2>3, <2>4, <2>5, <2>6, <2>7
<1>8. ASSUME NEW g \in Goroutines, OpenLog(g) PROVE TypeOK'
  BY <1>8 DEF OpenLog
<1>9. ASSUME NEW g \in Goroutines, Send(g) PROVE TypeOK'
  BY <1>9 DEF Send
<1>10. ASSUME NEW g \in Goroutines, FailJob(g) PROVE TypeOK'
  BY <1>10 DEF FailJob, FailStatus
<1>11. ASSUME NEW g \in Goroutines, CompleteJob(g) PROVE TypeOK'
  BY <1>11 DEF CompleteJob
<1>12. ASSUME NEW g \in Goroutines, MarkLogSent(g) PROVE TypeOK'
  BY <1>12 DEF MarkLogSent, CountSent
<1>13. ASSUME NEW g \in Goroutines, TagOrder(g) PROVE TypeOK'
  BY <1>13 DEF TagOrder
<1>14. ASSUME NEW C \in {Contacts} \cup {{c} : c \in Contacts}, Purge(C) PROVE TypeOK'
  BY <1>14 DEF Purge
<1>15. CASE NewDay
  BY <1>15 DEF NewDay
<1>18. ASSUME NEW c \in Contacts, OtherSend(c) PROVE TypeOK'
  BY <1>18 DEF OtherSend
<1>16. CASE Restart
  BY <1>16 DEF Restart, StatusOnRestart
<1>17. CASE UNCHANGED vars
  BY <1>17 DEF vars
<1> QED
  BY NextCases, <1>1, <1>2, <1>3, <1>4, <1>5, <1>6, <1>7, <1>8, <1>9, <1>10, <1>11,
     <1>12, <1>13, <1>14, <1>15, <1>16, <1>17, <1>18

\* The rest of the inductive invariant, given that types are kept.
LEMMA InvStep == IInv /\ [Next]_vars => IInv'
<1> SUFFICES ASSUME IInv, [Next]_vars PROVE IInv'
  OBVIOUS
<1>0. TypeOK /\ TypeOK'
  BY TypeStep DEF IInv
<1> DEFINE Rest == /\ ClaimExclusive
                   /\ AbsentIsUntouched
                   /\ AckEndsTheJob
                   /\ AckBeforeBookkeeping
                   /\ CopiesWithinAttempts
                   /\ AttemptInHand
<1> USE JobQueueAssumption, <1>0 DEF IInv, TypeOK, Statuses, PCs, rowVars, goVars, countVars, netVars,
        faultVars, Goto, Return, DropError, StatusWrite, RowSet, Owns, Owning, BeforeSend,
        ClaimExclusive, AbsentIsUntouched, AckEndsTheJob, AckBeforeBookkeeping,
        CopiesWithinAttempts, AttemptInHand
<1>1. ASSUME NEW j \in Jobs, EnqueueJob(j) PROVE Rest'
  BY <1>1 DEF EnqueueJob
<1>2. ASSUME NEW j \in Jobs, ComesDue(j) PROVE Rest'
  BY <1>2 DEF ComesDue
<1>3. ASSUME NEW g \in Goroutines, NEW j \in Jobs, Fetch(g, j) PROVE Rest'
  BY <1>3 DEF Fetch, Ready
<1>4. ASSUME NEW g \in Goroutines, ClaimJob(g) PROVE Rest'
  <2>1. PICK j \in Jobs : j = job[g]
    BY <1>4 DEF ClaimJob
  <2>2. CASE /\ status[j] = "pending" /\ status' = [status EXCEPT ![j] = "processing"]
             /\ attempts' = [attempts EXCEPT ![j] = @ + 1]
             /\ pc' = [pc EXCEPT ![g] = "claimed"]
             /\ UNCHANGED <<job, delivered, acked>>
    <3>1. ClaimExclusive'
      BY <2>1, <2>2
    <3>2. AbsentIsUntouched'
      BY <2>1, <2>2
    <3>3. AckEndsTheJob'
      BY <2>1, <2>2
    <3>4. AckBeforeBookkeeping'
      <4> SUFFICES ASSUME NEW h \in Goroutines, pc'[h] \in {"acked", "completed", "tagging"}
                   PROVE  acked'[job'[h]] = 1
        OBVIOUS
      <4>1. pc'[g] = "claimed" /\ \A k \in Goroutines \ {g} : pc'[k] = pc[k]
        BY <2>2
      <4> QED
        BY <4>1, <2>2
    <3>5. CopiesWithinAttempts' /\ AttemptInHand'
      BY <2>1, <2>2
    <3> QED
      BY <3>1, <3>2, <3>3, <3>4, <3>5
  <2>3. CASE Return(g) /\ UNCHANGED <<status, attempts, delivered, acked>>
    <3>0. /\ pc'[g] = "idle" /\ job'[g] = NoJob
          /\ \A k \in Goroutines \ {g} : pc'[k] = pc[k] /\ job'[k] = job[k]
      BY <2>3
    <3>1. ClaimExclusive' /\ AbsentIsUntouched' /\ AckEndsTheJob'
      BY <3>0, <2>3
    <3>2. AckBeforeBookkeeping'
      <4> SUFFICES ASSUME NEW h \in Goroutines, pc'[h] \in {"acked", "completed", "tagging"}
                   PROVE  acked'[job'[h]] = 1
        OBVIOUS
      <4> QED
        BY <3>0, <2>3
    <3>3. CopiesWithinAttempts' /\ AttemptInHand'
      BY <3>0, <2>3
    <3> QED
      BY <3>1, <3>2, <3>3
  <2> HIDE DEF ClaimExclusive, AbsentIsUntouched, AckEndsTheJob, AckBeforeBookkeeping,
               CopiesWithinAttempts, AttemptInHand, Rest, IInv
  <2> QED
    BY <2>1, <2>2, <2>3, <1>4 DEF ClaimJob, ClaimCost, Claimable
<1>5. ASSUME NEW g \in Goroutines, CheckPlan(g) PROVE Rest'
  <2>1. PICK j \in Jobs : j = job[g]
    BY <1>5 DEF CheckPlan
  <2>2. ClaimExclusive'
    BY <2>1, <1>5 DEF CheckPlan
  <2>3. AbsentIsUntouched'
    BY <2>1, <1>5 DEF CheckPlan
  <2>4. AckEndsTheJob'
    BY <2>1, <1>5 DEF CheckPlan
  <2>5. AckBeforeBookkeeping'
    BY <2>1, <1>5 DEF CheckPlan
  <2>6. CopiesWithinAttempts'
    BY <2>1, <1>5 DEF CheckPlan
  <2>7. AttemptInHand'
    BY <2>1, <1>5 DEF CheckPlan
  <2> QED
    BY <2>2, <2>3, <2>4, <2>5, <2>6, <2>7
<1>6. ASSUME NEW g \in Goroutines, CheckCap(g) PROVE Rest'
  <2>1. PICK j \in Jobs : j = job[g]
    BY <1>6 DEF CheckCap
  <2>2. ClaimExclusive'
    BY <2>1, <1>6 DEF CheckCap
  <2>3. AbsentIsUntouched'
    BY <2>1, <1>6 DEF CheckCap
  <2>4. AckEndsTheJob'
    BY <2>1, <1>6 DEF CheckCap
  <2>5. AckBeforeBookkeeping'
    BY <2>1, <1>6 DEF CheckCap
  <2>6. CopiesWithinAttempts'
    BY <2>1, <1>6 DEF CheckCap
  <2>7. AttemptInHand'
    BY <2>1, <1>6 DEF CheckCap
  <2> QED
    BY <2>2, <2>3, <2>4, <2>5, <2>6, <2>7
<1>7. ASSUME NEW g \in Goroutines, Defer(g) PROVE Rest'
  <2>1. PICK j \in Jobs : j = job[g]
    BY <1>7 DEF Defer
  <2>2. ClaimExclusive'
    BY <2>1, <1>7 DEF Defer
  <2>3. AbsentIsUntouched'
    BY <2>1, <1>7 DEF Defer
  <2>4. AckEndsTheJob'
    BY <2>1, <1>7 DEF Defer
  <2>5. AckBeforeBookkeeping'
    BY <2>1, <1>7 DEF Defer
  <2>6. CopiesWithinAttempts'
    BY <2>1, <1>7 DEF Defer
  <2>7. AttemptInHand'
    BY <2>1, <1>7 DEF Defer
  <2> QED
    BY <2>2, <2>3, <2>4, <2>5, <2>6, <2>7
<1>8. ASSUME NEW g \in Goroutines, OpenLog(g) PROVE Rest'
  <2>1. PICK j \in Jobs : j = job[g]
    BY <1>8 DEF OpenLog
  <2>2. ClaimExclusive'
    BY <2>1, <1>8 DEF OpenLog
  <2>3. AbsentIsUntouched'
    BY <2>1, <1>8 DEF OpenLog
  <2>4. AckEndsTheJob'
    BY <2>1, <1>8 DEF OpenLog
  <2>5. AckBeforeBookkeeping'
    BY <2>1, <1>8 DEF OpenLog
  <2>6. CopiesWithinAttempts'
    BY <2>1, <1>8 DEF OpenLog
  <2>7. AttemptInHand'
    BY <2>1, <1>8 DEF OpenLog
  <2> QED
    BY <2>2, <2>3, <2>4, <2>5, <2>6, <2>7
<1>9. ASSUME NEW g \in Goroutines, Send(g) PROVE Rest'
  <2>1. PICK j \in Jobs : j = job[g]
    BY <1>9 DEF Send
  <2>2. ClaimExclusive'
    BY <2>1, <1>9 DEF Send
  <2>3. AbsentIsUntouched'
    BY <2>1, <1>9 DEF Send
  <2>4. AckEndsTheJob'
    BY <2>1, <1>9 DEF Send
  <2>5. AckBeforeBookkeeping'
    <3>1. Owns(g, j) /\ acked[j] = 0
      <4>1. Owns(g, j) /\ pc[g] # "acked"
        BY <2>1, <1>9 DEF Send
      <4>2. acked[j] \in Nat /\ acked[j] <= 1 /\ acked[j] # 1
        BY <4>1
      <4>3. acked[j] = 0
        BY <4>2, ZeroOrOne, Zenon
      <4> QED
        BY <4>1, <4>3, Zenon
    <3>2. CASE acked' = acked
      BY <3>1, <3>2, <2>1, <1>9 DEF Send
    <3>3. CASE acked' = [acked EXCEPT ![j] = @ + 1]
      <4>1. acked'[j] = 1 /\ \A i \in Jobs \ {j} : acked'[i] = acked[i]
        BY <3>1, <3>3
      <4> SUFFICES ASSUME NEW h \in Goroutines, pc'[h] \in {"acked", "completed", "tagging"}
                   PROVE  acked'[job'[h]] = 1
        OBVIOUS
      <4>2. CASE h = g
        BY <4>1, <4>2, <2>1, <1>9 DEF Send
      <4>3. CASE h # g
        BY <4>1, <4>3, <1>9 DEF Send
      <4> QED
        BY <4>2, <4>3
    <3> QED
      BY <3>2, <3>3, <2>1, <1>9 DEF Send
  <2>6. CopiesWithinAttempts'
    BY <2>1, <1>9 DEF Send
  <2>7. AttemptInHand'
    BY <2>1, <1>9 DEF Send
  <2> QED
    BY <2>2, <2>3, <2>4, <2>5, <2>6, <2>7
<1>10. ASSUME NEW g \in Goroutines, FailJob(g) PROVE Rest'
  <2>1. PICK j \in Jobs : j = job[g]
    BY <1>10 DEF FailJob
  <2>2. ClaimExclusive'
    BY <2>1, <1>10 DEF FailJob, FailStatus
  <2>3. AbsentIsUntouched'
    BY <2>1, <1>10 DEF FailJob, FailStatus
  <2>4. AckEndsTheJob'
    BY <2>1, <1>10 DEF FailJob, FailStatus
  <2>5. AckBeforeBookkeeping'
    BY <2>1, <1>10 DEF FailJob, FailStatus
  <2>6. CopiesWithinAttempts'
    BY <2>1, <1>10 DEF FailJob, FailStatus
  <2>7. AttemptInHand'
    BY <2>1, <1>10 DEF FailJob, FailStatus
  <2> QED
    BY <2>2, <2>3, <2>4, <2>5, <2>6, <2>7
<1>11. ASSUME NEW g \in Goroutines, CompleteJob(g) PROVE Rest'
  <2>1. PICK j \in Jobs : j = job[g]
    BY <1>11 DEF CompleteJob
  <2>2. ClaimExclusive'
    BY <2>1, <1>11 DEF CompleteJob
  <2>3. AbsentIsUntouched'
    BY <2>1, <1>11 DEF CompleteJob
  <2>4. AckEndsTheJob'
    BY <2>1, <1>11 DEF CompleteJob
  <2>5. AckBeforeBookkeeping'
    BY <2>1, <1>11 DEF CompleteJob
  <2>6. CopiesWithinAttempts'
    BY <2>1, <1>11 DEF CompleteJob
  <2>7. AttemptInHand'
    BY <2>1, <1>11 DEF CompleteJob
  <2> QED
    BY <2>2, <2>3, <2>4, <2>5, <2>6, <2>7
<1>12. ASSUME NEW g \in Goroutines, MarkLogSent(g) PROVE Rest'
  <2>1. PICK j \in Jobs : j = job[g]
    BY <1>12 DEF MarkLogSent
  <2>2. ClaimExclusive'
    BY <2>1, <1>12 DEF MarkLogSent
  <2>3. AbsentIsUntouched'
    BY <2>1, <1>12 DEF MarkLogSent
  <2>4. AckEndsTheJob'
    BY <2>1, <1>12 DEF MarkLogSent
  <2>5. AckBeforeBookkeeping'
    BY <2>1, <1>12 DEF MarkLogSent
  <2>6. CopiesWithinAttempts'
    BY <2>1, <1>12 DEF MarkLogSent
  <2>7. AttemptInHand'
    BY <2>1, <1>12 DEF MarkLogSent
  <2> QED
    BY <2>2, <2>3, <2>4, <2>5, <2>6, <2>7
<1>13. ASSUME NEW g \in Goroutines, TagOrder(g) PROVE Rest'
  <2>1. PICK j \in Jobs : j = job[g]
    BY <1>13 DEF TagOrder
  <2>2. ClaimExclusive'
    BY <2>1, <1>13 DEF TagOrder
  <2>3. AbsentIsUntouched'
    BY <2>1, <1>13 DEF TagOrder
  <2>4. AckEndsTheJob'
    BY <2>1, <1>13 DEF TagOrder
  <2>5. AckBeforeBookkeeping'
    BY <2>1, <1>13 DEF TagOrder
  <2>6. CopiesWithinAttempts'
    BY <2>1, <1>13 DEF TagOrder
  <2>7. AttemptInHand'
    BY <2>1, <1>13 DEF TagOrder
  <2> QED
    BY <2>2, <2>3, <2>4, <2>5, <2>6, <2>7
<1>14. ASSUME NEW C \in {Contacts} \cup {{c} : c \in Contacts}, Purge(C) PROVE Rest'
  BY <1>14 DEF Purge
<1>15. CASE NewDay
  BY <1>15 DEF NewDay
<1>18. ASSUME NEW c \in Contacts, OtherSend(c) PROVE Rest'
  BY <1>18 DEF OtherSend
<1>16. CASE Restart
  BY <1>16 DEF Restart, StatusOnRestart
<1>17. CASE UNCHANGED vars
  BY <1>17 DEF vars
<1>19. Rest'
  BY NextCases, <1>1, <1>2, <1>3, <1>4, <1>5, <1>6, <1>7, <1>8, <1>9, <1>10, <1>11,
     <1>12, <1>13, <1>14, <1>15, <1>16, <1>17, <1>18
<1> QED
  BY <1>19

-----------------------------------------------------------------------------
(* The safety theorems.                                                    *)

\* The inductive invariant holds in every reachable state.
LEMMA InductiveInvariant == Spec => []IInv
<1>1. Init => IInv
  BY JobQueueAssumption DEF Init, IInv, TypeOK, Statuses, PCs, Owns, Owning, BeforeSend,
     ClaimExclusive, AbsentIsUntouched, AckEndsTheJob, AckBeforeBookkeeping,
     CopiesWithinAttempts, AttemptInHand
<1> QED
  BY <1>1, InvStep, PTL DEF Spec

\* Every variable of the queue and the worker keeps its type.
THEOREM TypeCorrect == Spec => []TypeOK
<1>1. IInv => TypeOK
  BY DEF IInv
<1> QED
  BY <1>1, InductiveInvariant, PTL

\* ClaimJob is mutual exclusion: a row has at most one owner among all goroutines of
\* all ticks, and it reads "processing" under its owner unless a purge deleted it.
THEOREM ClaimIsExclusive == Spec => []ClaimExclusive
<1>1. IInv => ClaimExclusive
  BY DEF IInv
<1> QED
  BY <1>1, InductiveInvariant, PTL

\* A job is sent successfully at most once, and never if it ends as failed.
THEOREM SuccessAtMostOnce == Spec => []AckedAtMostOnce
<1>1. IInv => AckedAtMostOnce
  BY DEF IInv, AckEndsTheJob, AckedAtMostOnce, TypeOK
<1> QED
  BY <1>1, InductiveInvariant, PTL

\* The customer gets no more copies than the row has attempts.
THEOREM CopiesBounded == Spec => []CopiesWithinAttempts
<1>1. IInv => CopiesWithinAttempts
  BY DEF IInv
<1> QED
  BY <1>1, InductiveInvariant, PTL

-----------------------------------------------------------------------------
(* The rows: each step moves a row along the edges of the abstract life    *)
(* cycle, or not at all.                                                   *)

\* A write by the owner of a row either settles it or changes no row.
LEMMA OwnerWrite ==
    ASSUME IInv, NEW g \in Goroutines, pc[g] \in Owning, NEW s \in Statuses,
           StatusWrite(job[g], s)
    PROVE  /\ job[g] \in Jobs
           /\ status[job[g]] \in {"processing", "purged"}
           /\ \/ status' = status
              \/ /\ status[job[g]] = "processing"
                 /\ status' = [status EXCEPT ![job[g]] = s]
<1>1. job[g] \in Jobs
  BY JobQueueAssumption DEF IInv, TypeOK, Owning
<1>2. status[job[g]] \in {"processing", "purged"}
  BY <1>1 DEF IInv, ClaimExclusive, Owns
<1> QED
  BY <1>1, <1>2 DEF StatusWrite, RowSet

\* Sent, failed and purged rows stay: no stale goroutine writes over them.
THEOREM SettledStays == Spec => SettledIsFinal
<1> DEFINE Final == \A j \in Jobs : status[j] \in {"sent", "failed", "purged"} =>
                       status'[j] \in {status[j], "purged"}
<1>1. IInv /\ [Next]_vars => [Final]_vars
  <2> SUFFICES ASSUME IInv, Next PROVE Final
    OBVIOUS
  <2> USE DEF IInv, TypeOK, Owning
  <2>1. ASSUME NEW j \in Jobs, EnqueueJob(j) PROVE Final
    BY <2>1 DEF EnqueueJob
  <2>2. ASSUME NEW g \in Goroutines, ClaimJob(g) PROVE Final
    BY <2>2 DEF ClaimJob, Claimable, rowVars
  <2>3. ASSUME NEW g \in Goroutines, CheckPlan(g) PROVE Final
    BY <2>3, OwnerWrite DEF CheckPlan, rowVars, Statuses
  <2>4. ASSUME NEW g \in Goroutines, CheckCap(g) PROVE Final
    BY <2>4, OwnerWrite DEF CheckCap, rowVars, Statuses
  <2>5. ASSUME NEW g \in Goroutines, Defer(g) PROVE Final
    <3>1. StatusWrite(job[g], "pending")
      BY <2>5 DEF Defer, StatusWrite
    <3> QED
      BY <3>1, <2>5, OwnerWrite DEF Defer, Statuses
  <2>6. ASSUME NEW g \in Goroutines, FailJob(g) PROVE Final
    <3>1. FailStatus(job[g]) \in Statuses
      BY DEF FailStatus, Statuses
    <3> QED
      BY <3>1, <2>6, OwnerWrite DEF FailJob
  <2>7. ASSUME NEW g \in Goroutines, CompleteJob(g) PROVE Final
    BY <2>7, OwnerWrite DEF CompleteJob, Statuses
  <2>8. ASSUME NEW C \in {Contacts} \cup {{c} : c \in Contacts}, Purge(C) PROVE Final
    BY <2>8 DEF Purge
  <2>9. ASSUME UNCHANGED status PROVE Final
    BY <2>9
  <2> QED
    BY NextCases, <2>1, <2>2, <2>3, <2>4, <2>5, <2>6, <2>7, <2>8, <2>9
       DEF ComesDue, Fetch, OpenLog, Send, MarkLogSent, TagOrder, NewDay, OtherSend, Restart,
           StatusOnRestart, rowVars
<1>2. SettledIsFinal <=> [][Final]_vars
  BY DEF SettledIsFinal
<1> QED
  BY <1>1, <1>2, InductiveInvariant, PTL DEF Spec

-----------------------------------------------------------------------------
(* The counting bounds.  A goroutine that has passed a check is counted    *)
(* until it acts on it, so "counted so far + still to act" never grows     *)
(* past the value the check allowed plus one action per goroutine.         *)

\* A set of goroutines is finite and no larger than all of them; without one of its
\* members it counts one less.
LEMMA GoroutineCounts ==
    /\ Cardinality(Goroutines) \in Nat \ {0}
    /\ \A S \in SUBSET Goroutines :
          /\ IsFiniteSet(S)
          /\ Cardinality(S) \in Nat
          /\ Cardinality(S) <= Cardinality(Goroutines)
    /\ \A S, T \in SUBSET Goroutines : S \subseteq T => Cardinality(S) <= Cardinality(T)
    /\ \A S \in SUBSET Goroutines : \A g \in S :
          Cardinality(S \ {g}) = Cardinality(S) - 1
<1>1. IsFiniteSet(Goroutines) /\ Goroutines # {}
  BY JobQueueAssumption
<1>2. \A S \in SUBSET Goroutines : IsFiniteSet(S)
  BY <1>1, FS_Subset
<1>3. \A S, T \in SUBSET Goroutines : S \subseteq T => Cardinality(S) <= Cardinality(T)
  BY <1>2, FS_Subset
<1>4. \A S \in SUBSET Goroutines : Cardinality(S) \in Nat
  BY <1>2, FS_CardinalityType
<1>5. \A S \in SUBSET Goroutines : \A g \in S : Cardinality(S \ {g}) = Cardinality(S) - 1
  BY <1>2, FS_RemoveElement
<1>6. Cardinality(Goroutines) # 0
  BY <1>1, FS_EmptySet
<1> QED
  BY <1>1, <1>2, <1>3, <1>4, <1>5, <1>6

\* The attempts of a row stay below max_attempts plus the number of goroutines.
THEOREM AttemptsBounded == Spec => []AttemptsOvershoot
<1>1. Init => AttemptsAndFetched
  <2> SUFFICES ASSUME Init, NEW j \in Jobs
               PROVE  attempts[j] + Cardinality(Fetched(j)) < MaxAttempts + Cardinality(Goroutines)
    BY DEF AttemptsAndFetched
  <2>1. Fetched(j) \in SUBSET Goroutines /\ attempts[j] = 0
    BY DEF Fetched, Init
  <2> QED
    BY <2>1, GoroutineCounts, JobQueueAssumption
<1>2. TypeOK /\ AttemptsAndFetched /\ [Next]_vars => AttemptsAndFetched'
  <2> SUFFICES ASSUME TypeOK, AttemptsAndFetched, [Next]_vars, NEW j \in Jobs
               PROVE  attempts'[j] + Cardinality(Fetched(j)') < MaxAttempts + Cardinality(Goroutines)
    BY DEF AttemptsAndFetched
  <2>0. /\ attempts[j] \in Nat /\ MaxAttempts \in Nat
        /\ Fetched(j) \in SUBSET Goroutines /\ Fetched(j)' \in SUBSET Goroutines
        /\ attempts[j] + Cardinality(Fetched(j)) < MaxAttempts + Cardinality(Goroutines)
    BY JobQueueAssumption DEF TypeOK, Fetched, AttemptsAndFetched
  <2>a. ASSUME attempts'[j] = attempts[j], Fetched(j)' \subseteq Fetched(j)
        PROVE  attempts'[j] + Cardinality(Fetched(j)') < MaxAttempts + Cardinality(Goroutines)
    <3>1. Cardinality(Fetched(j)') <= Cardinality(Fetched(j))
      BY <2>a, <2>0, GoroutineCounts
    <3> QED
      BY <3>1, <2>a, <2>0, GoroutineCounts
  <2>1. ASSUME NEW g \in Goroutines, NEW i \in Jobs, Fetch(g, i)
        PROVE  attempts'[j] + Cardinality(Fetched(j)') < MaxAttempts + Cardinality(Goroutines)
    <3>1. CASE i = j
      <4>1. attempts'[j] = attempts[j] /\ attempts[j] < MaxAttempts
        BY <3>1, <2>1 DEF Fetch, Ready, rowVars
      <4> QED
        BY <4>1, <2>0, GoroutineCounts
    <3>2. CASE i # j
      <4>1. attempts'[j] = attempts[j] /\ Fetched(j)' \subseteq Fetched(j)
        BY <3>2, <2>1 DEF Fetch, Fetched, Goto, rowVars, TypeOK
      <4> QED
        BY <4>1, <2>a
    <3> QED
      BY <3>1, <3>2
  <2>2. ASSUME NEW g \in Goroutines, ClaimJob(g)
        PROVE  attempts'[j] + Cardinality(Fetched(j)') < MaxAttempts + Cardinality(Goroutines)
    <3>1. CASE attempts' = attempts
      <4>1. Fetched(j)' \subseteq Fetched(j)
        BY <2>2 DEF ClaimJob, Fetched, Goto, Return, TypeOK
      <4> QED
        BY <3>1, <4>1, <2>a
    <3>2. CASE attempts' # attempts /\ job[g] = j
      <4>1. g \in Fetched(j) /\ attempts'[j] = attempts[j] + 1
        BY <3>2, <2>2 DEF ClaimJob, ClaimCost, Fetched, TypeOK, rowVars
      <4>2. Fetched(j)' = Fetched(j) \ {g}
        BY <3>2, <2>2 DEF ClaimJob, Fetched, Goto, TypeOK, rowVars
      <4>3. Cardinality(Fetched(j)') = Cardinality(Fetched(j)) - 1
        BY <4>1, <4>2, <2>0, GoroutineCounts
      <4> QED
        BY <4>1, <4>3, <2>0, GoroutineCounts
    <3>3. CASE attempts' # attempts /\ job[g] # j
      <4>1. attempts'[j] = attempts[j] /\ Fetched(j)' \subseteq Fetched(j)
        BY <3>3, <2>2 DEF ClaimJob, ClaimCost, Fetched, Goto, TypeOK, rowVars
      <4> QED
        BY <4>1, <2>a
    <3> QED
      BY <3>1, <3>2, <3>3
  <2>3. ASSUME NEW g \in Goroutines,
               \/ CheckPlan(g) \/ CheckCap(g) \/ Defer(g) \/ OpenLog(g) \/ Send(g)
               \/ FailJob(g) \/ CompleteJob(g) \/ MarkLogSent(g) \/ TagOrder(g)
        PROVE  attempts'[j] + Cardinality(Fetched(j)') < MaxAttempts + Cardinality(Goroutines)
    <3>1. attempts' = attempts
      BY <2>3 DEF CheckPlan, CheckCap, Defer, OpenLog, Send, FailJob, CompleteJob,
                  MarkLogSent, TagOrder, rowVars
    <3>2. \A h \in Goroutines : pc'[h] = "fetched" => pc[h] = "fetched" /\ job'[h] = job[h]
      BY <2>3 DEF CheckPlan, CheckCap, Defer, OpenLog, Send, FailJob, CompleteJob,
                  MarkLogSent, TagOrder, Goto, Return, TypeOK
    <3>3. Fetched(j)' \subseteq Fetched(j)
      BY <3>2 DEF Fetched
    <3> QED
      BY <3>1, <3>3, <2>a
  <2>4. ASSUME \/ \E i \in Jobs : EnqueueJob(i) \/ ComesDue(i)
               \/ \E C \in {Contacts} \cup {{c} : c \in Contacts} : Purge(C)
               \/ NewDay \/ (\E c \in Contacts : OtherSend(c)) \/ Restart \/ UNCHANGED vars
        PROVE  attempts'[j] + Cardinality(Fetched(j)') < MaxAttempts + Cardinality(Goroutines)
    <3>1. attempts' = attempts
      BY <2>4 DEF EnqueueJob, ComesDue, Purge, NewDay, OtherSend, Restart, vars, rowVars
    <3>2. \A h \in Goroutines : pc'[h] = "fetched" => pc[h] = "fetched" /\ job'[h] = job[h]
      BY <2>4 DEF EnqueueJob, ComesDue, Purge, NewDay, OtherSend, Restart, vars, goVars, TypeOK
    <3>3. Fetched(j)' \subseteq Fetched(j)
      BY <3>2 DEF Fetched
    <3> QED
      BY <3>1, <3>3, <2>a
  <2> QED
    BY NextCases, <2>1, <2>2, <2>3, <2>4
<1>3. TypeOK /\ AttemptsAndFetched => AttemptsOvershoot
  <2> SUFFICES ASSUME TypeOK, AttemptsAndFetched, NEW j \in Jobs
               PROVE  attempts[j] < MaxAttempts + Cardinality(Goroutines)
    BY DEF AttemptsOvershoot
  <2>1. Fetched(j) \in SUBSET Goroutines /\ attempts[j] \in Nat
    BY DEF Fetched, TypeOK
  <2> QED
    BY <2>1, GoroutineCounts, JobQueueAssumption DEF AttemptsAndFetched
<1> QED
  BY <1>1, <1>2, <1>3, TypeCorrect, PTL DEF Spec

\* Whatever else is sent to a customer, the worker's own messages of a day stay below
\* the cap plus the number of goroutines plus the reads that failed.
THEOREM CapBounded == Spec => []CapOvershoot
<1> DEFINE Below(c) == sentToday[c] + Cardinality(PastCap(c))
                           < CapPerDay + Cardinality(Goroutines) + lost
<1>1. Init => CapAndPastCap
  <2> SUFFICES ASSUME Init, CapPerDay > 0, NEW c \in Contacts PROVE Below(c)
    BY DEF CapAndPastCap
  <2>1. PastCap(c) \in SUBSET Goroutines /\ sentToday[c] = 0 /\ lost = 0
    BY DEF PastCap, Init
  <2> QED
    BY <2>1, GoroutineCounts, JobQueueAssumption
<1>2. TypeOK /\ CapAndPastCap /\ [Next]_vars => CapAndPastCap'
  <2> SUFFICES ASSUME TypeOK, CapAndPastCap, [Next]_vars, CapPerDay > 0, NEW c \in Contacts
               PROVE  Below(c)'
    BY DEF CapAndPastCap
  <2>0. /\ sentToday[c] \in Nat /\ otherToday[c] \in Nat /\ CapPerDay \in Nat
        /\ PastCap(c) \in SUBSET Goroutines /\ PastCap(c)' \in SUBSET Goroutines
        /\ Below(c)
    BY JobQueueAssumption DEF TypeOK, PastCap, CapAndPastCap
  <2>l. lost \in Nat /\ lost' \in Nat /\ lost <= lost'
    <3>1. lost' \in {lost, lost + 1}
      BY NextCases DEF EnqueueJob, ComesDue, Fetch, ClaimJob, CheckPlan, CheckCap, Defer,
         OpenLog, Send, FailJob, CompleteJob, MarkLogSent, TagOrder, Purge, NewDay,
         OtherSend, Restart, StatusWrite, DropError, vars, faultVars
    <3>2. lost \in Nat
      BY JobQueueAssumption DEF TypeOK
    <3> QED
      BY <3>1, <3>2
  \* Nobody new passed the check, and the count did not grow.
  <2>a. ASSUME sentToday'[c] \in Nat, sentToday'[c] <= sentToday[c], PastCap(c)' \subseteq PastCap(c)
        PROVE  Below(c)'
    <3>1. Cardinality(PastCap(c)') <= Cardinality(PastCap(c))
      BY <2>a, <2>0, GoroutineCounts
    <3> QED
      BY <3>1, <2>a, <2>0, <2>l, GoroutineCounts
  <2>1. ASSUME NEW g \in Goroutines, CheckCap(g) PROVE Below(c)'
    <3>0. sentToday' = sentToday
      BY <2>1 DEF CheckCap, countVars
    <3>1. CASE UnderCap(c)
      <4>1. sentToday[c] < CapPerDay
        BY <3>1, <2>0 DEF UnderCap
      <4> QED
        BY <4>1, <3>0, <2>0, <2>l, GoroutineCounts
    <3>2. CASE ~UnderCap(c) /\ lost' = lost
      <4>1. \A h \in Goroutines : h \in PastCap(c)' => h \in PastCap(c)
        BY <3>2, <2>1, <2>l, JobQueueAssumption
           DEF CheckCap, PastCap, Goto, Return, DropError, TypeOK
      <4> QED
        BY <4>1, <3>0, <2>0, <2>a
    \* A count that was not read lets one goroutine pass, and is one more that failed.
    <3>3. CASE lost' # lost
      <4>1. lost' = lost + 1
        BY <3>3, <2>1 DEF CheckCap, StatusWrite, DropError
      <4>2. PastCap(c)' \subseteq PastCap(c) \cup {g}
        BY <2>1 DEF CheckCap, PastCap, Goto, Return, TypeOK
      <4>3. PastCap(c)' \ {g} \subseteq PastCap(c) /\ PastCap(c)' \ {g} \in SUBSET Goroutines
        BY <4>2, <2>0
      <4>4. Cardinality(PastCap(c)' \ {g}) <= Cardinality(PastCap(c))
        BY <4>3, <2>0, GoroutineCounts
      <4>5. Cardinality(PastCap(c)') <= Cardinality(PastCap(c)' \ {g}) + 1
        <5>1. CASE g \in PastCap(c)'
          BY <5>1, <4>3, <2>0, GoroutineCounts
        <5>2. CASE g \notin PastCap(c)'
          <6>1. PastCap(c)' \ {g} = PastCap(c)'
            BY <5>2
          <6> QED
            BY <6>1, <2>0, GoroutineCounts
        <5> QED
          BY <5>1, <5>2
      <4> QED
        BY <4>1, <4>3, <4>4, <4>5, <3>0, <2>0, <2>l, GoroutineCounts
    <3> QED
      BY <3>1, <3>2, <3>3
  <2>2. ASSUME NEW g \in Goroutines, MarkLogSent(g) PROVE Below(c)'
    <3>1. \A h \in Goroutines : h \in PastCap(c)' => h \in PastCap(c) /\ h # g
      BY <2>2, JobQueueAssumption DEF MarkLogSent, CountSent, PastCap, Goto, Return, TypeOK
    <3>2. CASE sentToday'[c] = sentToday[c]
      BY <3>1, <3>2, <2>0, <2>a
    <3>3. CASE sentToday'[c] # sentToday[c]
      <4>1. ContactOf[job[g]] = c /\ sentToday'[c] = sentToday[c] + 1
        BY <3>3, <2>2 DEF MarkLogSent, CountSent, TypeOK
      <4>2. g \in PastCap(c)
        BY <4>1, <2>2 DEF MarkLogSent, CountSent, PastCap
      <4>3. PastCap(c)' \subseteq PastCap(c) \ {g}
        BY <3>1, <2>0
      <4>4. Cardinality(PastCap(c)') <= Cardinality(PastCap(c)) - 1
        <5>1. PastCap(c) \ {g} \in SUBSET Goroutines
          BY <2>0
        <5>2. Cardinality(PastCap(c)') <= Cardinality(PastCap(c) \ {g})
          BY <5>1, <4>3, <2>0, GoroutineCounts
        <5>3. Cardinality(PastCap(c) \ {g}) = Cardinality(PastCap(c)) - 1
          BY <4>2, <2>0, GoroutineCounts
        <5> QED
          BY <5>2, <5>3
      <4> QED
        BY <4>1, <4>4, <2>0, <2>l, GoroutineCounts
    <3> QED
      BY <3>2, <3>3
  <2>3. ASSUME NEW g \in Goroutines,
               \/ \E j \in Jobs : Fetch(g, j)
               \/ ClaimJob(g) \/ CheckPlan(g) \/ Defer(g) \/ OpenLog(g) \/ Send(g)
               \/ FailJob(g) \/ CompleteJob(g) \/ TagOrder(g)
        PROVE  Below(c)'
    <3>1. sentToday' = sentToday
      BY <2>3 DEF Fetch, ClaimJob, CheckPlan, Defer, OpenLog, Send, FailJob, CompleteJob,
                  TagOrder, countVars
    <3>2. \A h \in Goroutines : h \in PastCap(c)' => h \in PastCap(c)
      BY <2>3 DEF Fetch, ClaimJob, CheckPlan, Defer, OpenLog, Send, FailJob, CompleteJob,
                  TagOrder, PastCap, Goto, Return, TypeOK
    <3> QED
      BY <3>1, <3>2, <2>0, <2>a
  <2>4. ASSUME \/ \E j \in Jobs : EnqueueJob(j) \/ ComesDue(j)
               \/ \E C \in {Contacts} \cup {{d} : d \in Contacts} : Purge(C)
               \/ NewDay \/ (\E d \in Contacts : OtherSend(d)) \/ Restart \/ UNCHANGED vars
        PROVE  Below(c)'
    <3>1. sentToday'[c] \in {0, sentToday[c]}
      BY <2>4 DEF EnqueueJob, ComesDue, Purge, NewDay, OtherSend, Restart, vars, countVars
    <3>2. \A h \in Goroutines : h \in PastCap(c)' => h \in PastCap(c)
      BY <2>4 DEF EnqueueJob, ComesDue, Purge, NewDay, OtherSend, Restart, vars, goVars, PastCap
    <3> QED
      BY <3>1, <3>2, <2>0, <2>a
  <2> QED
    BY NextCases, <2>1, <2>2, <2>3, <2>4
<1>3. TypeOK /\ CapAndPastCap => CapOvershoot
  <2> SUFFICES ASSUME TypeOK, CapAndPastCap, CapPerDay > 0, NEW c \in Contacts
               PROVE  sentToday[c] < CapPerDay + Cardinality(Goroutines) + lost
    BY DEF CapOvershoot
  <2>1. PastCap(c) \in SUBSET Goroutines /\ sentToday[c] \in Nat /\ lost \in Nat
    BY JobQueueAssumption DEF PastCap, TypeOK
  <2> QED
    BY <2>1, GoroutineCounts, JobQueueAssumption DEF CapAndPastCap
<1> QED
  BY <1>1, <1>2, <1>3, TypeCorrect, PTL DEF Spec

-----------------------------------------------------------------------------
(* The refinement: behind all the goroutines, snapshots, lost writes and   *)
(* restarts, each message goes through the life DeliveryPromise allows.    *)

\* A row that moves from one status to another moves its phase along.
LEMMA PhaseMove ==
    ASSUME TypeOK, NEW j \in Jobs, NEW s \in Statuses, status' = [status EXCEPT ![j] = s]
    PROVE  [i \in Jobs |-> PhaseOf[status[i]]]' =
               [[i \in Jobs |-> PhaseOf[status[i]]] EXCEPT ![j] = PhaseOf[s]]
BY DEF TypeOK

\* A goroutine's write that settles or releases its row is one of the promise's moves.
LEMMA OwnerStep ==
    ASSUME IInv, NEW g \in Goroutines, pc[g] \in Owning, NEW s \in {"sent", "failed", "pending"},
           s = "failed" => attempts[job[g]] >= MaxAttempts,
           StatusWrite(job[g], s), UNCHANGED <<attempts, delivered>>
    PROVE  [Promise!Next]_Promise!promiseVars
<1>1. s \in Statuses
  BY DEF Statuses
<1>2. CASE status' = status
  BY <1>2 DEF Promise!promiseVars
<1>3. CASE status' # status
  <2>0. PICK j \in Jobs : j = job[g]
    BY <1>1, <1>3, OwnerWrite
  <2>1. /\ j \in Jobs
        /\ status[j] = "processing"
        /\ status' = [status EXCEPT ![j] = s]
    BY <2>0, <1>1, <1>3, OwnerWrite
  <2>2. [i \in Jobs |-> PhaseOf[status[i]]]' =
            [[i \in Jobs |-> PhaseOf[status[i]]] EXCEPT ![j] = PhaseOf[s]]
    BY <1>1, <2>1, PhaseMove DEF IInv
  <2>3. PhaseOf[status[j]] = "taken" /\ UNCHANGED <<attempts, delivered>>
    BY <2>1 DEF PhaseOf
  <2>4. CASE s = "sent"
    <3>1. Promise!Finish(j)
      BY <2>1, <2>2, <2>3, <2>4 DEF Promise!Finish, Promise!Move, PhaseOf
    <3> QED
      BY <2>1, <3>1 DEF Promise!Next
  <2>5. CASE s = "pending"
    <3>1. Promise!PutBack(j)
      BY <2>1, <2>2, <2>3, <2>5 DEF Promise!PutBack, Promise!Move, PhaseOf
    <3> QED
      BY <2>1, <3>1 DEF Promise!Next
  <2>6. CASE s = "failed"
    <3>1. Promise!GiveUp(j)
      BY <2>0, <2>1, <2>2, <2>3, <2>6 DEF Promise!GiveUp, Promise!Move, PhaseOf
    <3> QED
      BY <2>1, <3>1 DEF Promise!Next
  <2> QED
    BY <2>4, <2>5, <2>6
<1> QED
  BY <1>2, <1>3

\* The job queue implements the delivery promise.
THEOREM QueueKeepsPromise == Spec => KeepsPromise
<1>1. Init => Promise!Init
  BY DEF Init, Promise!Init, PhaseOf
<1>2. IInv /\ [Next]_vars => [Promise!Next]_Promise!promiseVars
  <2> SUFFICES ASSUME IInv, [Next]_vars PROVE [Promise!Next]_Promise!promiseVars
    OBVIOUS
  <2>0. TypeOK
    BY DEF IInv
  <2>1. ASSUME NEW j \in Jobs, EnqueueJob(j) PROVE [Promise!Next]_Promise!promiseVars
    <3>1. [i \in Jobs |-> PhaseOf[status[i]]]' =
              [[i \in Jobs |-> PhaseOf[status[i]]] EXCEPT ![j] = PhaseOf["pending"]]
      BY <2>0, <2>1, PhaseMove DEF EnqueueJob, Statuses
    <3>2. Promise!Accept(j)
      BY <3>1, <2>1 DEF EnqueueJob, Promise!Accept, Promise!Move, PhaseOf, netVars
    <3> QED
      BY <3>2 DEF Promise!Next
  <2>2. ASSUME NEW g \in Goroutines, ClaimJob(g) PROVE [Promise!Next]_Promise!promiseVars
    <3>1. CASE UNCHANGED <<status, attempts, delivered>>
      BY <3>1 DEF Promise!promiseVars
    <3>2. CASE ~UNCHANGED <<status, attempts, delivered>>
      <4>0. PICK j \in Jobs : j = job[g]
        BY <2>0, <2>2, JobQueueAssumption DEF ClaimJob, TypeOK
      <4>1. /\ status[j] = "pending"
            /\ status' = [status EXCEPT ![j] = "processing"]
            /\ attempts' = [attempts EXCEPT ![j] = @ + 1]
            /\ UNCHANGED delivered
        BY <4>0, <2>0, <2>2, <3>2, JobQueueAssumption
           DEF ClaimJob, Claimable, ClaimCost, TypeOK, rowVars, netVars
      <4>2. [i \in Jobs |-> PhaseOf[status[i]]]' =
                [[i \in Jobs |-> PhaseOf[status[i]]] EXCEPT ![j] = PhaseOf["processing"]]
        BY <2>0, <4>1, PhaseMove DEF Statuses
      <4>3. Promise!Take(j)
        BY <4>1, <4>2 DEF Promise!Take, Promise!Move, PhaseOf
      <4>4. Promise!Next
        BY <4>1, <4>3 DEF Promise!Next
      <4> QED
        BY <4>4
    <3> QED
      BY <3>1, <3>2
  <2>3. ASSUME NEW g \in Goroutines, CheckPlan(g) PROVE [Promise!Next]_Promise!promiseVars
    <3>1. pc[g] \in Owning /\ UNCHANGED <<attempts, delivered>>
      BY <2>3 DEF CheckPlan, Owning, rowVars, netVars
    <3>2. StatusWrite(job[g], "sent") \/ UNCHANGED status
      BY <2>3 DEF CheckPlan, rowVars
    <3> QED
      BY <3>1, <3>2, OwnerStep DEF Promise!promiseVars
  <2>4. ASSUME NEW g \in Goroutines, CheckCap(g) PROVE [Promise!Next]_Promise!promiseVars
    <3>1. pc[g] \in Owning /\ UNCHANGED <<attempts, delivered>>
      BY <2>4 DEF CheckCap, Owning, rowVars, netVars
    <3>2. StatusWrite(job[g], "sent") \/ UNCHANGED status
      BY <2>4 DEF CheckCap, rowVars
    <3> QED
      BY <3>1, <3>2, OwnerStep DEF Promise!promiseVars
  <2>5. ASSUME NEW g \in Goroutines, Defer(g) PROVE [Promise!Next]_Promise!promiseVars
    <3>1. pc[g] \in Owning /\ UNCHANGED <<attempts, delivered>>
      BY <2>5 DEF Defer, Owning, netVars
    <3>2. StatusWrite(job[g], "pending")
      BY <2>5 DEF Defer, StatusWrite
    <3> QED
      BY <3>1, <3>2, OwnerStep
  <2>6. ASSUME NEW g \in Goroutines, FailJob(g) PROVE [Promise!Next]_Promise!promiseVars
    <3>1. pc[g] \in Owning /\ UNCHANGED <<attempts, delivered>>
      BY <2>6 DEF FailJob, Owning, netVars
    <3>2. StatusWrite(job[g], FailStatus(job[g]))
      BY <2>6 DEF FailJob
    <3>3. /\ FailStatus(job[g]) \in {"sent", "failed", "pending"}
          /\ FailStatus(job[g]) = "failed" => attempts[job[g]] >= MaxAttempts
      BY DEF FailStatus
    <3> QED
      BY <3>1, <3>2, <3>3, OwnerStep
  <2>7. ASSUME NEW g \in Goroutines, CompleteJob(g) PROVE [Promise!Next]_Promise!promiseVars
    <3>1. pc[g] \in Owning /\ UNCHANGED <<attempts, delivered>>
      BY <2>7 DEF CompleteJob, Owning, netVars
    <3>2. StatusWrite(job[g], "sent")
      BY <2>7 DEF CompleteJob
    <3> QED
      BY <3>1, <3>2, OwnerStep
  <2>8. ASSUME NEW g \in Goroutines, Send(g) PROVE [Promise!Next]_Promise!promiseVars
    <3>1. /\ job[g] \in Jobs
          /\ status[job[g]] \in {"processing", "purged"}
          /\ delivered[job[g]] < attempts[job[g]]
      BY <2>8, JobQueueAssumption
         DEF Send, IInv, TypeOK, ClaimExclusive, Owns, Owning, AttemptInHand, BeforeSend
    <3>2. UNCHANGED <<status, attempts>>
      BY <2>8 DEF Send, rowVars
    <3>3. CASE UNCHANGED delivered
      BY <3>2, <3>3 DEF Promise!promiseVars
    <3>4. CASE delivered' = [delivered EXCEPT ![job[g]] = @ + 1]
      <4>1. Promise!Deliver(job[g])
        BY <3>1, <3>2, <3>4 DEF Promise!Deliver, PhaseOf
      <4> QED
        BY <3>1, <4>1 DEF Promise!Next
    <3> QED
      BY <2>8, <3>3, <3>4 DEF Send
  <2>9. ASSUME NEW C \in {Contacts} \cup {{c} : c \in Contacts}, Purge(C)
        PROVE  [Promise!Next]_Promise!promiseVars
    <3> DEFINE M == {j \in Jobs : ContactOf[j] \in C}
               Ph == [j \in Jobs |-> PhaseOf[status[j]]]
    <3>1. Ph' = [j \in Jobs |-> IF j \in M /\ Ph[j] # "none" THEN "erased" ELSE Ph[j]]
      BY <2>0, <2>9 DEF Purge, PhaseOf, TypeOK, Statuses
    <3>2. Promise!Erase
      BY <3>1, <2>9 DEF Promise!Erase, Purge, netVars
    <3> QED
      BY <3>2 DEF Promise!Next
  <2>10. ASSUME UNCHANGED <<status, attempts, delivered>>
         PROVE  [Promise!Next]_Promise!promiseVars
    BY <2>10 DEF Promise!promiseVars
  <2> QED
    BY NextCases, <2>1, <2>2, <2>3, <2>4, <2>5, <2>6, <2>7, <2>8, <2>9, <2>10
       DEF ComesDue, Fetch, OpenLog, MarkLogSent, TagOrder, NewDay, OtherSend, Restart,
           StatusOnRestart, rowVars, netVars, vars
<1> QED
  BY <1>1, <1>2, InductiveInvariant, PTL DEF Spec, KeepsPromise, Promise!Spec
=============================================================================
