-------------------------- MODULE Reminders_proofs --------------------------
(***************************************************************************)
(* For any number of reminders, goroutines, restarts and failed           *)
(* statements: what a reply, or the automation going off, does not stop,  *)
(* and how many copies a customer gets.                                   *)
(*                                                                         *)
(* Neither bound is inductive.  While a reply is logged, the copies so    *)
(* far and the goroutines past their look for one are together no more    *)
(* than when it came (ReplyCounts): a goroutine that looks later leaves,  *)
(* or its look fails and is counted.  The same with the switch            *)
(* (SwitchCounts).                                                        *)
(*                                                                         *)
(* All copies are counted while the row is due, against the goroutines    *)
(* that have passed their send and are still to write (CountDue); from    *)
(* then on no goroutine starts, and each that is left may send one more   *)
(* (CountOpen).                                                           *)
(***************************************************************************)
EXTENDS Reminders, FiniteSetTheorems, TLAPS

NotStarted(r) ==
    status[r] \in {"none", "waiting"} =>
        copies[r] = 0 /\ \A s \in Slots : pc[r][s] = "idle"

ReplyCounts(r) ==
    r \in replied => copies[r] + Cardinality(Heedless(r)) <= pastReply[r]

SwitchCounts(r) ==
    ~active => copies[r] + Cardinality(Unmuted(r)) <= pastSwitch[r]

IInv ==
    /\ TypeOK
    /\ \A r \in Reminders : NotStarted(r) /\ ReplyCounts(r) /\ SwitchCounts(r)

(* A set of goroutines of a row is finite; one more or one less counts.   *)
LEMMA SlotCounts ==
    ASSUME NEW A \in SUBSET Slots
    PROVE  /\ IsFiniteSet(A) /\ Cardinality(A) \in Nat
           /\ A = {} => Cardinality(A) = 0
           /\ \A s \in A : Cardinality(A \ {s}) = Cardinality(A) - 1
           /\ \A s \in Slots \ A : Cardinality(A \cup {s}) = Cardinality(A) + 1
<1>1. IsFiniteSet(A)
  BY ReminderAssumption, FS_Subset
<1>2. \A s \in A : Cardinality(A \ {s}) = Cardinality(A) - 1
  BY <1>1, FS_RemoveElement
<1>3. \A s \in Slots \ A : Cardinality(A \cup {s}) = Cardinality(A) + 1
  BY <1>1, FS_AddElement
<1>4. QED
  BY <1>1, <1>2, <1>3, FS_CardinalityType, FS_EmptySet

(* At first there are no rows and no goroutines.                          *)
LEMMA InitIInv == Init => IInv
<1> SUFFICES ASSUME Init PROVE IInv
  OBVIOUS
<1>1. TypeOK
  BY ReminderAssumption DEF Init, TypeOK, None, NoGoroutine, Statuses, Steps
<1>2. ASSUME NEW r \in Reminders PROVE NotStarted(r) /\ ReplyCounts(r) /\ SwitchCounts(r)
  <2>1. Unmuted(r) = {} /\ Unmuted(r) \in SUBSET Slots
    BY DEF Init, NoGoroutine, Unmuted
  <2>2. Cardinality(Unmuted(r)) = 0
    BY <2>1, SlotCounts
  <2>3. copies[r] = 0 /\ pastSwitch[r] = 0 /\ r \notin replied
    BY DEF Init, None
  <2>4. NotStarted(r)
    BY <2>3 DEF Init, NotStarted, NoGoroutine
  <2>5. QED
    BY <2>2, <2>3, <2>4 DEF ReplyCounts, SwitchCounts
<1>3. QED
  BY <1>1, <1>2 DEF IInv

(* A step keeps the types.                                                *)
LEMMA NextTypeOK == TypeOK /\ [Next]_vars => TypeOK'
<1> SUFFICES ASSUME TypeOK, [Next]_vars PROVE TypeOK'
  OBVIOUS
<1> USE ReminderAssumption DEF TypeOK, Statuses, Steps, rows, faults, history, None, DropError
<1>1. ASSUME NEW r \in Reminders, CreateReplyReminder(r) PROVE TypeOK'
  BY <1>1 DEF CreateReplyReminder
<1>2. ASSUME NEW r \in Reminders, ComesDue(r) PROVE TypeOK'
  BY <1>2 DEF ComesDue
<1>c. \A r \in Reminders : copies[r] \in Nat /\ Cardinality(Heedless(r)) \in Nat
                              /\ Cardinality(Unmuted(r)) \in Nat
  BY SlotCounts, \A r \in Reminders : Heedless(r) \in SUBSET Slots /\ Unmuted(r) \in SUBSET Slots
     DEF Heedless, Unmuted
<1>3. CASE CreateIncomingMessageLog
  BY <1>3, <1>c DEF CreateIncomingMessageLog
<1>4. CASE PurgeCustomer
  BY <1>4 DEF PurgeCustomer
<1>5. CASE Uninstall
  <2>1. Unstoppable \in [Reminders -> Nat]
    BY <1>c DEF Unstoppable
  <2>2. pastSwitch' \in [Reminders -> Nat]
    BY <2>1, <1>5 DEF Uninstall
  <2>3. QED
    BY <2>2, <1>5 DEF Uninstall
<1>6. CASE ToggleAutomation
  BY <1>6, <1>c DEF ToggleAutomation, Unstoppable
<1>7. ASSUME NEW r \in Reminders, NEW s \in Slots, Fetch(r, s) PROVE TypeOK'
  BY <1>7 DEF Fetch, Goto
<1>8. ASSUME NEW r \in Reminders, NEW s \in Slots, CheckReply(r, s) PROVE TypeOK'
  <2>1. lost' \in 0..MaxDropped
    BY <1>8 DEF CheckReply
  <2>2. pc' \in [Reminders -> [Slots -> Steps]]
    BY <1>8 DEF CheckReply, Goto
  <2>3. pastReply' \in [Reminders -> Nat]
    BY <1>8 DEF CheckReply
  <2>4. QED
    BY <2>1, <2>2, <2>3, <1>8 DEF CheckReply
<1>9. ASSUME NEW r \in Reminders, NEW s \in Slots, CheckActive(r, s) PROVE TypeOK'
  <2>1. lost' \in 0..MaxDropped
    BY <1>9 DEF CheckActive
  <2>2. PICK p \in Steps : pc' = [pc EXCEPT ![r][s] = p]
    BY <1>9 DEF CheckActive, Goto
  <2>3. pc' \in [Reminders -> [Slots -> Steps]]
    BY <2>2
  <2>4. QED
    BY <2>1, <2>3, <1>9 DEF CheckActive
<1>10. ASSUME NEW r \in Reminders, NEW s \in Slots, Send(r, s) PROVE TypeOK'
  BY <1>10 DEF Send, Goto, Failed
<1>11. ASSUME NEW r \in Reminders, NEW s \in Slots, CompleteReminder(r, s) PROVE TypeOK'
  BY <1>11 DEF CompleteReminder, Goto, Written
<1>12. CASE Restart
  BY <1>12 DEF Restart, NoGoroutine
<1>13. CASE UNCHANGED vars
  BY <1>13 DEF vars
<1>14. QED
  BY <1>1, <1>2, <1>3, <1>4, <1>5, <1>6, <1>7, <1>8, <1>9, <1>10, <1>11, <1>12, <1>13
     DEF Next, Goroutine

(* A step keeps what is said of a row that is not yet due.                *)
LEMMA NextNotStarted ==
    ASSUME TypeOK, TypeOK', [Next]_vars, NEW q \in Reminders, NotStarted(q)
    PROVE  NotStarted(q)'
<1> USE DEF TypeOK, NotStarted, rows, faults, history, DropError
<1>1. ASSUME NEW r \in Reminders, CreateReplyReminder(r) PROVE NotStarted(q)'
  BY <1>1 DEF CreateReplyReminder
<1>2. ASSUME NEW r \in Reminders, ComesDue(r) PROVE NotStarted(q)'
  BY <1>2 DEF ComesDue
<1>3. CASE CreateIncomingMessageLog \/ PurgeCustomer \/ Uninstall \/ ToggleAutomation
  BY <1>3 DEF CreateIncomingMessageLog, PurgeCustomer, Uninstall, ToggleAutomation
<1>4. ASSUME NEW r \in Reminders, NEW s \in Slots, Fetch(r, s) PROVE NotStarted(q)'
  BY <1>4 DEF Fetch, Goto
<1>5. ASSUME NEW r \in Reminders, NEW s \in Slots, CheckReply(r, s) PROVE NotStarted(q)'
  BY <1>5 DEF CheckReply, Goto
<1>6. ASSUME NEW r \in Reminders, NEW s \in Slots, CheckActive(r, s) PROVE NotStarted(q)'
  BY <1>6 DEF CheckActive, Goto
<1>7. ASSUME NEW r \in Reminders, NEW s \in Slots, Send(r, s) PROVE NotStarted(q)'
  BY <1>7 DEF Send, Goto
<1>8. ASSUME NEW r \in Reminders, NEW s \in Slots, CompleteReminder(r, s) PROVE NotStarted(q)'
  BY <1>8 DEF CompleteReminder, Goto, Written
<1>9. CASE Restart
  BY <1>9 DEF Restart, NoGoroutine
<1>10. CASE UNCHANGED vars
  BY <1>10 DEF vars
<1>11. QED
  BY <1>1, <1>2, <1>3, <1>4, <1>5, <1>6, <1>7, <1>8, <1>9, <1>10 DEF Next, Goroutine

(* A step keeps the counts against a logged reply and against the switch. *)
LEMMA NextStops ==
    ASSUME TypeOK, TypeOK', [Next]_vars, NEW q \in Reminders, ReplyCounts(q), SwitchCounts(q)
    PROVE  ReplyCounts(q)' /\ SwitchCounts(q)'
<1> DEFINE H == Cardinality(Heedless(q))
           U == Cardinality(Unmuted(q))
           Kept == ReplyCounts(q)' /\ SwitchCounts(q)'
<1>d. /\ Heedless(q) \in SUBSET Slots /\ Unmuted(q) \in SUBSET Slots
      /\ Heedless(q)' \in SUBSET Slots /\ Unmuted(q)' \in SUBSET Slots
  BY DEF Heedless, Unmuted
<1>n. /\ H \in Nat /\ U \in Nat /\ H' \in Nat /\ U' \in Nat
      /\ copies[q] \in Nat /\ copies'[q] \in Nat
      /\ pastReply[q] \in Nat /\ pastReply'[q] \in Nat
      /\ pastSwitch[q] \in Nat /\ pastSwitch'[q] \in Nat
  BY <1>d, SlotCounts DEF TypeOK
\* The counts do not grow, and neither bound moves.
<1>a. ASSUME copies'[q] + H' <= copies[q] + H, copies'[q] + U' <= copies[q] + U,
             UNCHANGED <<replied, active, pastReply, pastSwitch>>
      PROVE  Kept
  BY <1>a, <1>n DEF ReplyCounts, SwitchCounts
<1>b. ASSUME UNCHANGED pc PROVE H' = H /\ U' = U
  <2>1. Heedless(q)' = Heedless(q) /\ Unmuted(q)' = Unmuted(q)
    BY <1>b DEF Heedless, Unmuted
  <2>2. QED
    BY <2>1
\* A goroutine of another row, or one that enters and leaves neither set.
<1>c. ASSUME NEW r \in Reminders, NEW s \in Slots, NEW p, pc' = [pc EXCEPT ![r][s] = p],
             r # q \/ (pc[r][s] \notin {"active", "send"} /\ p \notin {"active", "send"})
      PROVE  H' = H /\ U' = U
  <2>1. Heedless(q)' = Heedless(q) /\ Unmuted(q)' = Unmuted(q)
    BY <1>c DEF Heedless, Unmuted, TypeOK
  <2>2. QED
    BY <2>1
<1>1. ASSUME NEW r \in Reminders, CreateReplyReminder(r) \/ ComesDue(r) PROVE Kept
  BY <1>1, <1>a, <1>b, <1>n DEF CreateReplyReminder, ComesDue, faults, history
<1>2. CASE CreateIncomingMessageLog
  <2>1. H' = H /\ U' = U
    BY <1>2, <1>b DEF CreateIncomingMessageLog
  <2>2. SwitchCounts(q)'
    BY <2>1, <1>2 DEF CreateIncomingMessageLog, SwitchCounts
  <2>3. ReplyCounts(q)'
    BY <2>1, <1>2, <1>n DEF CreateIncomingMessageLog, ReplyCounts
  <2>4. QED
    BY <2>2, <2>3
<1>3. CASE PurgeCustomer
  BY <1>3, <1>b DEF PurgeCustomer, ReplyCounts, SwitchCounts
<1>4. CASE Uninstall
  <2>1. H' = H /\ U' = U
    BY <1>4, <1>b DEF Uninstall
  <2>2. QED
    BY <2>1, <1>4, <1>n DEF Uninstall, Unstoppable, ReplyCounts, SwitchCounts
<1>5. CASE ToggleAutomation
  <2>1. H' = H /\ U' = U
    BY <1>5, <1>b DEF ToggleAutomation
  <2>2. QED
    <3>1. ReplyCounts(q)'
      BY <2>1, <1>5 DEF ToggleAutomation, ReplyCounts
    <3>2. CASE active
      BY <2>1, <3>1, <3>2, <1>5, <1>n DEF ToggleAutomation, Unstoppable, SwitchCounts
    <3>3. CASE ~active
      BY <3>1, <3>3, <1>5 DEF ToggleAutomation, SwitchCounts
    <3>4. QED
      BY <3>2, <3>3
<1>6. ASSUME NEW r \in Reminders, NEW s \in Slots, Fetch(r, s) PROVE Kept
  <2>1. H' = H /\ U' = U
    BY <1>6, <1>c DEF Fetch, Goto
  <2>2. QED
    BY <2>1, <1>6, <1>a, <1>n DEF Fetch, rows, history
<1>7. ASSUME NEW r \in Reminders, NEW s \in Slots, CheckReply(r, s) PROVE Kept
  <2>0. pc[r][s] = "replied" /\ UNCHANGED <<replied, active, copies, pastSwitch>>
    BY <1>7 DEF CheckReply, rows
  <2>1. CASE pc' = [pc EXCEPT ![r][s] = "skipped"] /\ pastReply' = pastReply
    <3>1. H' = H /\ U' = U
      BY <2>0, <2>1, <1>c
    <3>2. QED
      BY <3>1, <2>0, <2>1, <1>a, <1>n
  <2>2. CASE /\ pc' = [pc EXCEPT ![r][s] = "active"]
             /\ \/ r \notin replied /\ pastReply' = pastReply
                \/ pastReply' = IF r \in replied THEN [pastReply EXCEPT ![r] = @ + 1]
                                ELSE pastReply
    <3>1. CASE r # q
      <4>1. H' = H /\ U' = U /\ pastReply'[q] = pastReply[q]
        BY <2>2, <3>1, <1>c DEF TypeOK
      <4>2. QED
        BY <4>1, <2>0 DEF ReplyCounts, SwitchCounts
    <3>2. CASE r = q
      <4>1. Heedless(q)' = Heedless(q) \cup {s} /\ Unmuted(q)' = Unmuted(q) /\ s \notin Heedless(q)
        BY <2>0, <2>2, <3>2 DEF Heedless, Unmuted, TypeOK
      <4>2. H' = H + 1 /\ U' = U
        BY <4>1, <1>d, SlotCounts
      <4>3. q \in replied => pastReply'[q] = pastReply[q] + 1
        BY <2>2, <3>2 DEF TypeOK
      <4>4. QED
        BY <4>2, <4>3, <2>0, <1>n DEF ReplyCounts, SwitchCounts
    <3>3. QED
      BY <3>1, <3>2
  <2>3. QED
    BY <2>1, <2>2, <1>7 DEF CheckReply, Goto, HasRepliedSince
<1>8. ASSUME NEW r \in Reminders, NEW s \in Slots, CheckActive(r, s) PROVE Kept
  <2>0. pc[r][s] = "active" /\ UNCHANGED <<replied, active, copies, pastReply, pastSwitch>>
    BY <1>8 DEF CheckActive, rows, history
  <2>1. CASE r # q
    <3>1. H' = H /\ U' = U
      BY <2>1, <1>8, <1>c DEF CheckActive, Goto
    <3>2. QED
      BY <3>1, <2>0, <1>a, <1>n
  <2>2. CASE r = q /\ pc' = [pc EXCEPT ![r][s] = "skipped"]
    <3>1. Heedless(q)' = Heedless(q) \ {s} /\ Unmuted(q)' = Unmuted(q) /\ s \in Heedless(q)
      BY <2>0, <2>2 DEF Heedless, Unmuted, TypeOK
    <3>2. H' = H - 1 /\ U' = U
      BY <3>1, <1>d, SlotCounts
    <3>3. QED
      BY <3>2, <2>0, <1>a, <1>n
  <2>3. CASE r = q /\ active /\ pc' = [pc EXCEPT ![r][s] = "send"]
    <3>1. Heedless(q)' = Heedless(q)
      BY <2>0, <2>3 DEF Heedless, TypeOK
    <3>2. H' = H
      BY <3>1
    <3>3. QED
      BY <3>2, <2>0, <2>3 DEF ReplyCounts, SwitchCounts
  <2>4. QED
    BY <2>1, <2>2, <2>3, <1>8 DEF CheckActive, Goto, IsAutomationActiveByName
<1>9. ASSUME NEW r \in Reminders, NEW s \in Slots, Send(r, s) PROVE Kept
  <2>0. pc[r][s] = "send" /\ UNCHANGED <<replied, active, pastReply, pastSwitch>>
    BY <1>9 DEF Send, rows
  <2>1. PICK p \in {"sent", "skipped"} : pc' = [pc EXCEPT ![r][s] = p]
    BY <1>9 DEF Send, Goto, Failed
  <2>2. CASE r # q
    <3>1. H' = H /\ U' = U /\ copies'[q] = copies[q]
      BY <2>1, <2>2, <1>9, <1>c DEF Send, TypeOK
    <3>2. QED
      BY <3>1, <2>0, <1>a, <1>n
  <2>3. CASE r = q
    <3>1. /\ Heedless(q)' = Heedless(q) \ {s} /\ s \in Heedless(q)
          /\ Unmuted(q)' = Unmuted(q) \ {s} /\ s \in Unmuted(q)
      BY <2>0, <2>1, <2>3 DEF Heedless, Unmuted, TypeOK
    <3>2. H' = H - 1 /\ U' = U - 1
      BY <3>1, <1>d, SlotCounts
    <3>3. copies'[q] = copies[q] \/ copies'[q] = copies[q] + 1
      BY <2>3, <1>9 DEF Send, TypeOK
    <3>4. QED
      BY <3>2, <3>3, <2>0, <1>a, <1>n
  <2>4. QED
    BY <2>2, <2>3
<1>10. ASSUME NEW r \in Reminders, NEW s \in Slots, CompleteReminder(r, s) PROVE Kept
  <2>1. H' = H /\ U' = U
    BY <1>10, <1>c DEF CompleteReminder, Goto
  <2>2. QED
    BY <2>1, <1>10, <1>a, <1>n DEF CompleteReminder, history
<1>11. CASE Restart
  <2>1. Heedless(q)' = {} /\ Unmuted(q)' = {}
    BY <1>11 DEF Restart, NoGoroutine, Heedless, Unmuted
  <2>2. H' = 0 /\ U' = 0
    BY <2>1, <1>d, SlotCounts
  <2>3. QED
    BY <2>2, <1>11, <1>a, <1>n DEF Restart, rows, history
<1>12. CASE UNCHANGED vars
  BY <1>12, <1>a, <1>b, <1>n DEF vars, rows, history
<1>13. QED
  BY <1>1, <1>2, <1>3, <1>4, <1>5, <1>6, <1>7, <1>8, <1>9, <1>10, <1>11, <1>12
     DEF Next, Goroutine

(* A step keeps the three facts of every row.                             *)
LEMMA NextIInv == IInv /\ [Next]_vars => IInv'
<1> SUFFICES ASSUME IInv, [Next]_vars PROVE IInv'
  OBVIOUS
<1>1. TypeOK /\ TypeOK'
  BY NextTypeOK DEF IInv
<1>2. ASSUME NEW q \in Reminders PROVE (NotStarted(q) /\ ReplyCounts(q) /\ SwitchCounts(q))'
  <2>1. NotStarted(q) /\ ReplyCounts(q) /\ SwitchCounts(q)
    BY DEF IInv
  <2>2. QED
    BY <2>1, <1>1, NextNotStarted, NextStops
<1>3. QED
  BY <1>1, <1>2 DEF IInv

(* The invariant that carries both results.                               *)
THEOREM Invariance == Spec => []IInv
BY InitIInv, NextIInv, PTL DEF Spec

(* Every variable of the rows and of tickReminders keeps its type.        *)
THEOREM ReminderTypeCorrect == Spec => []TypeOK
<1>1. IInv => TypeOK
  BY DEF IInv
<1>2. QED
  BY <1>1, Invariance, PTL

(* Once a text of the customer is logged, no more copies of the reminder  *)
(* go out than had, plus one for each goroutine that had looked by then   *)
(* or whose later look failed (shopify.go:466).                           *)
THEOREM ReplyWins == Spec => []ReplyStopsTheRest
<1>1. IInv => ReplyStopsTheRest
  <2> SUFFICES ASSUME IInv, NEW r \in replied PROVE copies[r] <= pastReply[r]
    BY DEF ReplyStopsTheRest
  <2>1. r \in Reminders /\ Heedless(r) \in SUBSET Slots
    BY DEF IInv, TypeOK, Heedless
  <2>2. Cardinality(Heedless(r)) \in Nat /\ copies[r] \in Nat /\ pastReply[r] \in Nat
    BY <2>1, SlotCounts DEF IInv, TypeOK
  <2>3. QED
    BY <2>1, <2>2 DEF IInv, ReplyCounts
<1>2. QED
  BY <1>1, Invariance, PTL

(* While the automation is off, no more copies go out than had when it    *)
(* was put off, plus one for each goroutine that had read the switch      *)
(* (worker.go:174).                                                       *)
THEOREM SwitchWins == Spec => []SwitchStopsTheRest
<1>1. IInv => SwitchStopsTheRest
  <2> SUFFICES ASSUME IInv, ~active, NEW r \in Reminders PROVE copies[r] <= pastSwitch[r]
    BY DEF SwitchStopsTheRest
  <2>1. Unmuted(r) \in SUBSET Slots
    BY DEF Unmuted
  <2>2. Cardinality(Unmuted(r)) \in Nat /\ copies[r] \in Nat /\ pastSwitch[r] \in Nat
    BY <2>1, SlotCounts DEF IInv, TypeOK
  <2>3. QED
    BY <2>2 DEF IInv, SwitchCounts
<1>2. QED
  BY <1>1, Invariance, PTL

-----------------------------------------------------------------------------
(* The bound on the copies.                                               *)

(* Goroutines that may still send, and those that are past it.            *)
Sending(r) == {s \in Slots : pc[r][s] \in {"replied", "active", "send"}}
Closing(r) == {s \in Slots : pc[r][s] \in {"sent", "skipped"}}

Base == Cardinality(Slots) * restarts + lost

CountDue(r)  == status[r] = "due" => copies[r] <= Base + Cardinality(Closing(r))
CountOpen(r) == copies[r] + Cardinality(Sending(r)) <= Base + Cardinality(Slots)

Counts == \A r \in Reminders : CountDue(r) /\ CountOpen(r)

(* Two disjoint sets of goroutines have no more than all of them.         *)
LEMMA DisjointSlots ==
  ASSUME NEW A \in SUBSET Slots, NEW B \in SUBSET Slots, A \cap B = {}
  PROVE  /\ IsFiniteSet(A) /\ Cardinality(A) \in Nat
         /\ IsFiniteSet(B) /\ Cardinality(B) \in Nat
         /\ Cardinality(Slots) \in Nat
         /\ Cardinality(A) + Cardinality(B) <= Cardinality(Slots)
<1>1. IsFiniteSet(Slots)
  BY ReminderAssumption
<1>2. IsFiniteSet(A) /\ IsFiniteSet(B)
  BY <1>1, FS_Subset
<1>3. Cardinality(A \cup B) <= Cardinality(Slots)
  BY <1>1, FS_Subset, A \cup B \in SUBSET Slots
<1>4. Cardinality(A \cup B) = Cardinality(A) + Cardinality(B) - Cardinality(A \cap B)
  BY <1>2, FS_Union
<1>5. Cardinality(A \cap B) = 0
  BY FS_EmptySet
<1>6. Cardinality(A) \in Nat /\ Cardinality(B) \in Nat /\ Cardinality(Slots) \in Nat
  BY <1>1, <1>2, FS_CardinalityType
<1>7. QED
  BY <1>2, <1>3, <1>4, <1>5, <1>6

LEMMA InitCounts == Init => Counts
<1> SUFFICES ASSUME Init, NEW r \in Reminders PROVE CountDue(r) /\ CountOpen(r)
  BY DEF Counts
<1>1. Sending(r) = {} /\ Closing(r) = {}
  BY DEF Init, NoGoroutine, Sending, Closing
<1>2. Cardinality(Sending(r)) = 0
  BY <1>1, FS_EmptySet
<1>3. Cardinality(Slots) \in Nat
  BY ReminderAssumption, FS_CardinalityType
<1>4. Base = 0
  BY <1>3 DEF Init, Base
<1>5. status[r] = "none" /\ copies[r] = 0
  BY DEF Init, None
<1>6. QED
  BY <1>2, <1>3, <1>4, <1>5 DEF CountDue, CountOpen

(* What a step does to one row: nothing to its counts, or a goroutine     *)
(* starts, sends, leaves without, or writes, or the process ends.         *)
LEMMA NextCounts == IInv /\ Counts /\ [Next]_vars => Counts'
<1> SUFFICES ASSUME IInv, Counts, [Next]_vars, NEW q \in Reminders
             PROVE  (CountDue(q) /\ CountOpen(q))'
  BY DEF Counts
<1>t. TypeOK /\ TypeOK'
  BY NextTypeOK DEF IInv
<1>n. NotStarted(q)
  BY DEF IInv
<1>c. CountDue(q) /\ CountOpen(q)
  BY DEF Counts
<1> DEFINE S == Cardinality(Sending(q))
           C == Cardinality(Closing(q))
           K == Cardinality(Slots)
           Kept == (CountDue(q) /\ CountOpen(q))'
<1>d. /\ IsFiniteSet(Sending(q)) /\ IsFiniteSet(Closing(q))
      /\ S \in Nat /\ C \in Nat /\ K \in Nat /\ S + C <= K
  <2>1. Sending(q) \cap Closing(q) = {} /\ Sending(q) \subseteq Slots /\ Closing(q) \subseteq Slots
    BY DEF Sending, Closing
  <2>2. QED
    BY <2>1, DisjointSlots
<1>e. S' \in Nat /\ C' \in Nat /\ S' + C' <= K
  <2>1. Sending(q)' \cap Closing(q)' = {} /\ Sending(q)' \subseteq Slots /\ Closing(q)' \subseteq Slots
    BY DEF Sending, Closing
  <2>2. QED
    BY <2>1, DisjointSlots
<1>b. Base \in Nat /\ Base' \in Nat
  <2>1. restarts \in Nat /\ lost \in Nat /\ restarts' \in Nat /\ lost' \in Nat
    BY <1>t, ReminderAssumption DEF TypeOK
  <2>2. K * restarts \in Nat /\ K * restarts' \in Nat
    BY <2>1, <1>d
  <2>3. QED
    BY <2>1, <2>2 DEF Base
<1>k. copies[q] \in Nat /\ copies'[q] \in Nat
  BY <1>t DEF TypeOK
<1>same. ASSUME UNCHANGED <<pc, restarts, lost, copies>>, status'[q] = "due" => status[q] = "due" \/ copies[q] = 0
         PROVE  Kept
  <2>1. Sending(q)' = Sending(q) /\ Closing(q)' = Closing(q) /\ Base' = Base
    BY <1>same DEF Sending, Closing, Base
  <2>2. S' = S /\ C' = C
    BY <2>1
  <2>3. QED
    BY <2>1, <2>2, <1>same, <1>c, <1>d, <1>b, <1>k DEF CountDue, CountOpen
<1>other. ASSUME NEW r \in Reminders, NEW s \in Slots, NEW p, r # q, pc' = [pc EXCEPT ![r][s] = p],
                 Base' >= Base, status'[q] = status[q], copies'[q] = copies[q]
          PROVE  Kept
  <2>1. pc'[q] = pc[q]
    BY <1>other, <1>t DEF TypeOK
  <2>2. Sending(q)' = Sending(q) /\ Closing(q)' = Closing(q)
    BY <2>1 DEF Sending, Closing
  <2>3. S' = S /\ C' = C
    BY <2>2
  <2>4. QED
    BY <2>3, <1>other, <1>c, <1>d, <1>b, <1>k DEF CountDue, CountOpen
<1>1. ASSUME NEW r \in Reminders, CreateReplyReminder(r) PROVE Kept
  <2>1. status'[q] = "due" => status[q] = "due"
    BY <1>1, <1>t DEF CreateReplyReminder, TypeOK
  <2>2. QED
    BY <2>1, <1>1, <1>same DEF CreateReplyReminder, faults, history
<1>2. ASSUME NEW r \in Reminders, ComesDue(r) PROVE Kept
  <2>1. status'[q] = "due" => status[q] = "due" \/ copies[q] = 0
    BY <1>2, <1>t, <1>n DEF ComesDue, TypeOK, NotStarted
  <2>2. QED
    BY <2>1, <1>2, <1>same DEF ComesDue, faults, history
<1>3. CASE CreateIncomingMessageLog
  BY <1>3, <1>same DEF CreateIncomingMessageLog, faults
<1>4. CASE PurgeCustomer
  BY <1>4, <1>same DEF PurgeCustomer, faults
<1>5. CASE Uninstall
  BY <1>5, <1>same DEF Uninstall, faults
<1>6. CASE ToggleAutomation
  BY <1>6, <1>same DEF ToggleAutomation, faults
<1>7. ASSUME NEW r \in Reminders, NEW s \in Slots, Fetch(r, s) PROVE Kept
  <2>1. UNCHANGED <<status, restarts, lost, copies>> /\ Base' = Base
    BY <1>7 DEF Fetch, rows, faults, history, Base
  <2>2. CASE r # q
    <3>1. pc' = [pc EXCEPT ![r][s] = "replied"]
      BY <1>7 DEF Fetch, Goto
    <3>2. Base' >= Base /\ status'[q] = status[q] /\ copies'[q] = copies[q]
      BY <2>1, <1>b
    <3>3. QED
      BY <3>1, <3>2, <2>2, <1>other
  <2>3. CASE r = q
    <3>1. Closing(q)' = Closing(q)
      BY <2>3, <1>7, <1>t DEF Fetch, Goto, Closing, TypeOK
    <3>2. C' = C /\ status[q] = "due"
      BY <3>1, <2>3, <1>7 DEF Fetch
    <3>3. copies[q] <= Base + C
      BY <3>2, <1>c DEF CountDue
    <3>4. QED
      BY <3>2, <3>3, <2>1, <1>d, <1>e, <1>b, <1>k DEF CountDue, CountOpen
  <2>4. QED
    BY <2>2, <2>3
<1>grows. ASSUME UNCHANGED restarts, lost' \in {lost, lost + 1} PROVE Base' >= Base
  <2>1. lost \in Nat /\ restarts \in Nat
    BY <1>t, ReminderAssumption DEF TypeOK
  <2>2. K * restarts \in Nat
    BY <2>1, <1>d
  <2>3. QED
    BY <2>1, <2>2, <1>grows DEF Base
\* The goroutine goes on, or leaves without a send: S - 1 and C + 1 at most.
<1>leave. ASSUME NEW s \in Slots, NEW p \in {"active", "send", "sent", "skipped"},
                 pc[q][s] \in {"replied", "active", "send"}, pc' = [pc EXCEPT ![q][s] = p],
                 UNCHANGED <<status, restarts>>, lost' \in {lost, lost + 1},
                 \/ copies'[q] = copies[q]
                 \/ p \in {"sent", "skipped"} /\ copies'[q] = copies[q] + 1
          PROVE  Kept
  <2>0. Base' >= Base
    BY <1>leave, <1>grows
  <2>1. CASE p \in {"active", "send"}
    <3>1. Sending(q)' = Sending(q) /\ Closing(q)' = Closing(q)
      BY <2>1, <1>leave, <1>t DEF Sending, Closing, TypeOK
    <3>2. S' = S /\ C' = C
      BY <3>1
    <3>3. copies'[q] = copies[q]
      BY <2>1, <1>leave
    <3>4. QED
      BY <3>2, <3>3, <2>0, <1>leave, <1>c, <1>d, <1>b, <1>k DEF CountDue, CountOpen
  <2>2. CASE p \in {"sent", "skipped"}
    <3>1. Sending(q)' = Sending(q) \ {s} /\ Closing(q)' = Closing(q) \cup {s}
      BY <2>2, <1>leave, <1>t DEF Sending, Closing, TypeOK
    <3>2. s \in Sending(q) /\ s \notin Closing(q)
      BY <1>leave DEF Sending, Closing
    <3>3. S' = S - 1
      BY <3>1, <3>2, <1>d, FS_RemoveElement
    <3>4. C' = C + 1
      BY <3>1, <3>2, <1>d, FS_AddElement
    <3>5. QED
      BY <3>3, <3>4, <2>0, <1>leave, <1>c, <1>d, <1>b, <1>k DEF CountDue, CountOpen
  <2>3. QED
    BY <2>1, <2>2
<1>8. ASSUME NEW r \in Reminders, NEW s \in Slots, CheckReply(r, s) PROVE Kept
  <2>1. UNCHANGED <<status, restarts, copies>> /\ lost' \in {lost, lost + 1}
    BY <1>8 DEF CheckReply, rows, history, DropError
  <2>2. PICK p \in {"active", "skipped"} : pc' = [pc EXCEPT ![r][s] = p]
    BY <1>8 DEF CheckReply, Goto
  <2>3. CASE r # q
    <3>1. Base' >= Base /\ status'[q] = status[q] /\ copies'[q] = copies[q]
      BY <2>1, <1>grows
    <3>2. QED
      BY <3>1, <2>2, <2>3, <1>other
  <2>4. CASE r = q
    BY <2>1, <2>2, <2>4, <1>8, <1>leave DEF CheckReply
  <2>5. QED
    BY <2>3, <2>4
<1>9. ASSUME NEW r \in Reminders, NEW s \in Slots, CheckActive(r, s) PROVE Kept
  <2>1. UNCHANGED <<status, restarts, copies>> /\ lost' \in {lost, lost + 1}
    BY <1>9 DEF CheckActive, rows, history, DropError
  <2>2. PICK p \in {"send", "skipped"} : pc' = [pc EXCEPT ![r][s] = p]
    BY <1>9 DEF CheckActive, Goto
  <2>3. CASE r # q
    <3>1. Base' >= Base /\ status'[q] = status[q] /\ copies'[q] = copies[q]
      BY <2>1, <1>grows
    <3>2. QED
      BY <3>1, <2>2, <2>3, <1>other
  <2>4. CASE r = q
    BY <2>1, <2>2, <2>4, <1>9, <1>leave DEF CheckActive
  <2>5. QED
    BY <2>3, <2>4
<1>10. ASSUME NEW r \in Reminders, NEW s \in Slots, Send(r, s) PROVE Kept
  <2>1. UNCHANGED <<status, restarts, lost>> /\ Base' = Base
    BY <1>10 DEF Send, rows, faults, Base
  <2>2. PICK p \in {"sent", "skipped"} : pc' = [pc EXCEPT ![r][s] = p]
    BY <1>10 DEF Send, Goto, Failed
  <2>3. CASE r # q
    <3>1. copies'[q] = copies[q]
      BY <2>3, <1>10, <1>t DEF Send, TypeOK
    <3>2. Base' >= Base /\ status'[q] = status[q]
      BY <2>1, <1>b
    <3>3. QED
      BY <3>1, <3>2, <2>2, <2>3, <1>other
  <2>4. CASE r = q
    <3>1. copies'[q] = copies[q] \/ copies'[q] = copies[q] + 1
      BY <2>4, <1>10, <1>t DEF Send, TypeOK
    <3>2. QED
      BY <3>1, <2>1, <2>2, <2>4, <1>10, <1>leave DEF Send
  <2>5. QED
    BY <2>3, <2>4
<1>11. ASSUME NEW r \in Reminders, NEW s \in Slots, CompleteReminder(r, s) PROVE Kept
  <2>1. /\ pc' = [pc EXCEPT ![r][s] = "idle"]
        /\ UNCHANGED <<restarts, copies>>
        /\ \/ status' = [status EXCEPT ![r] = pc[r][s]] /\ lost' = lost
           \/ status' = status /\ lost' = lost + 1
    BY <1>11 DEF CompleteReminder, Goto, Written, history, DropError
  <2>2. Base' >= Base /\ (lost' = lost + 1 => Base' = Base + 1)
    <3>1. lost \in Nat /\ restarts' = restarts
      BY <2>1, <1>t, ReminderAssumption DEF TypeOK
    <3>2. K * restarts \in Nat
      <4>1. restarts \in Nat
        BY <1>t, ReminderAssumption DEF TypeOK
      <4>2. QED
        BY <4>1, <1>d
    <3>3. QED
      BY <2>1, <3>1, <3>2 DEF Base
  <2>3. CASE r # q
    <3>1. status'[q] = status[q]
      BY <2>1, <2>3, <1>t DEF TypeOK
    <3>2. QED
      BY <3>1, <2>1, <2>2, <2>3, <1>other
  <2>4. CASE r = q
    <3>1. Sending(q)' = Sending(q) /\ Closing(q)' = Closing(q) \ {s} /\ s \in Closing(q)
      BY <2>1, <2>4, <1>11, <1>t DEF Sending, Closing, TypeOK, CompleteReminder
    <3>2. S' = S /\ C' = C - 1
      BY <3>1, <1>d, FS_RemoveElement
    <3>3. CASE status' = [status EXCEPT ![r] = pc[r][s]]
      <4>1. status'[q] # "due"
        BY <3>3, <2>4, <1>11, <1>t DEF TypeOK, CompleteReminder
      <4>2. QED
        BY <4>1, <3>2, <2>1, <2>2, <1>c, <1>d, <1>b, <1>k DEF CountDue, CountOpen
    <3>4. CASE status' = status /\ lost' = lost + 1
      BY <3>4, <3>2, <2>1, <2>2, <1>c, <1>d, <1>b, <1>k DEF CountDue, CountOpen
    <3>5. QED
      BY <3>3, <3>4, <2>1
  <2>5. QED
    BY <2>3, <2>4
<1>12. CASE Restart
  <2>1. Sending(q)' = {}
    BY <1>12 DEF Restart, NoGoroutine, Sending
  <2>2. S' = 0
    BY <2>1, FS_EmptySet
  <2>3. Base' = Base + K
    BY <1>12, <1>d, <1>t DEF Restart, Base, TypeOK
  <2>4. status' = status /\ copies' = copies
    BY <1>12 DEF Restart, rows, history
  <2>5. QED
    BY <2>2, <2>3, <2>4, <1>c, <1>d, <1>e, <1>b, <1>k DEF CountDue, CountOpen
<1>13. CASE UNCHANGED vars
  BY <1>13, <1>same DEF vars, rows, faults, history
<1>14. QED
  BY <1>1, <1>2, <1>3, <1>4, <1>5, <1>6, <1>7, <1>8, <1>9, <1>10, <1>11, <1>12, <1>13
     DEF Next, Goroutine

(* A customer gets at most one copy for each goroutine of the row alive   *)
(* at once, anew after each restart, and one for each statement that fails. *)
THEOREM CopiesBounded == Spec => []CopiesWithinOverlap
<1>1. Init => IInv /\ Counts
  BY InitIInv, InitCounts
<1>2. (IInv /\ Counts) /\ [Next]_vars => (IInv /\ Counts)'
  BY NextIInv, NextCounts
<1>3. IInv /\ Counts => CopiesWithinOverlap
  <2> SUFFICES ASSUME IInv, Counts, NEW r \in Reminders
               PROVE  copies[r] <= Cardinality(Slots) * (1 + restarts) + lost
    BY DEF CopiesWithinOverlap
  <2>1. Cardinality(Slots) \in Nat /\ Cardinality(Sending(r)) \in Nat
    BY DisjointSlots, {} \in SUBSET Slots, Sending(r) \in SUBSET Slots, Sending(r) \cap {} = {} DEF Sending
  <2>2. copies[r] \in Nat /\ restarts \in Nat /\ lost \in Nat
    BY ReminderAssumption DEF IInv, TypeOK
  <2>3. copies[r] + Cardinality(Sending(r)) <= Cardinality(Slots) * restarts + lost + Cardinality(Slots)
    BY DEF Counts, CountOpen, Base
  <2>4. QED
    BY <2>1, <2>2, <2>3
<1>4. QED
  BY <1>1, <1>2, <1>3, PTL DEF Spec
=============================================================================
