----------------------------- MODULE Reminders -----------------------------
(***************************************************************************)
(* The 24-hour no-reply reminders of one customer (reply_reminders):      *)
(* scheduled by enqueueAutomations of handlers/shopify.go, sent by        *)
(* tickReminders of worker/worker.go.                                     *)
(*                                                                         *)
(* A tick starts a goroutine for every pending row that is due.  Nothing  *)
(* claims the row: it stays pending until the goroutine's last statement, *)
(* so that a later tick may start another one for it.  Each goroutine is  *)
(* the statements and the send below, one step each.                      *)
(***************************************************************************)
EXTENDS Naturals, FiniteSets

CONSTANTS
    Reminders,      \* rows, one for each order of the customer
    Slots,          \* goroutines that one reminder may have at once (bound)
    MaxRestarts,    \* bound on restarts of the process
    MaxDropped      \* bound on statements that fail and whose error the code drops

ASSUME ReminderAssumption ==
    /\ IsFiniteSet(Slots)
    /\ MaxRestarts \in Nat /\ MaxDropped \in Nat

VARIABLES
    status,     \* of each row: "none" before it exists; "waiting" and "due" are pending
    replied,    \* rows since whose creation a text of the customer is in message_logs
    active,     \* the automation "Order Confirmation Reminder" is on
    pc,         \* per reminder and slot, where the goroutine is
    restarts, lost,
    copies,     \* history: messages that reached the customer, per reminder
    pastReply,  \* history: per reminder, what the logged reply could not stop
    pastSwitch  \* history: per reminder, what the automation going off could not stop

rows    == <<status, replied, active>>
faults  == <<restarts, lost>>
history == <<copies, pastReply, pastSwitch>>
vars    == <<rows, pc, faults, history>>

Statuses == {"none", "waiting", "due", "sent", "skipped"}
Steps == {"idle", "replied", "active", "send", "sent", "skipped"}

TypeOK ==
    /\ status \in [Reminders -> Statuses]
    /\ replied \subseteq Reminders
    /\ active \in BOOLEAN
    /\ pc \in [Reminders -> [Slots -> Steps]]
    /\ restarts \in 0..MaxRestarts /\ lost \in 0..MaxDropped
    /\ copies \in [Reminders -> Nat]
    /\ pastReply \in [Reminders -> Nat] /\ pastSwitch \in [Reminders -> Nat]

None == [r \in Reminders |-> 0]
NoGoroutine == [r \in Reminders |-> [s \in Slots |-> "idle"]]

Init ==
    /\ status = [r \in Reminders |-> "none"]
    /\ replied = {}
    /\ active \in BOOLEAN
    /\ pc = NoGoroutine
    /\ restarts = 0 /\ lost = 0
    /\ copies = None /\ pastReply = None /\ pastSwitch = None

DropError == lost < MaxDropped /\ lost' = lost + 1

\* The goroutines that have looked for a reply, and at the switch, and may yet send.
Heedless(r) == {s \in Slots : pc[r][s] \in {"active", "send"}}
Unmuted(r) == {s \in Slots : pc[r][s] = "send"}

-----------------------------------------------------------------------------
(* The order's webhook, the customer, the merchant, Shopify, the clock.   *)

(* Only with the automation on.                                           *)
CreateReplyReminder(r) ==
    /\ status[r] = "none" /\ active
    /\ status' = [status EXCEPT ![r] = "waiting"]
    /\ UNCHANGED <<replied, active, pc, faults, history>>

ComesDue(r) ==
    /\ status[r] = "waiting"
    /\ status' = [status EXCEPT ![r] = "due"]
    /\ UNCHANGED <<replied, active, pc, faults, history>>

(* A text.  A vote is not a received message: handleEvent returns before  *)
(* it logs one, so it changes nothing here and a voter is reminded.       *)
CreateIncomingMessageLog ==
    /\ replied' = {r \in Reminders : status[r] # "none"}
    /\ pastReply' = [r \in Reminders |->
          IF status[r] = "none" \/ r \in replied THEN pastReply[r]
          ELSE copies[r] + Cardinality(Heedless(r))]
    /\ UNCHANGED <<status, active, pc, faults, copies, pastSwitch>>

(* The logs go, the reminders stay.                                       *)
PurgeCustomer ==
    /\ replied' = {} /\ pastReply' = None
    /\ UNCHANGED <<status, active, pc, faults, copies, pastSwitch>>

\* What switching the automation off comes too late for.
Unstoppable == [r \in Reminders |-> copies[r] + Cardinality(Unmuted(r))]

(* PurgeShop also deletes the automations, which a reinstall seeds anew.  *)
Uninstall ==
    /\ replied' = {} /\ pastReply' = None
    /\ active' = FALSE
    /\ pastSwitch' = IF active THEN Unstoppable ELSE pastSwitch
    /\ UNCHANGED <<status, pc, faults, copies>>

ToggleAutomation ==
    /\ active' = ~active
    /\ pastSwitch' = IF active THEN Unstoppable ELSE None
    /\ UNCHANGED <<status, replied, pc, faults, copies, pastReply>>

-----------------------------------------------------------------------------
(* One goroutine of tickReminders.                                        *)

Goto(r, s, p) == pc' = [pc EXCEPT ![r][s] = p]

(* GetPendingReminders, the row's part of a tick; those beyond the 50 of  *)
(* one query are in a later tick's.                                       *)
Fetch(r, s) ==
    /\ status[r] = "due"
    /\ pc[r][s] = "idle"
    /\ Goto(r, s, "replied")
    /\ UNCHANGED <<rows, faults, history>>

NeverReplied(r) == FALSE     \* mutant: the reply is not looked for
HasRepliedSince(r) == r \in replied

(* A count that fails is 0, which no reply is: the goroutine goes on.     *)
CheckReply(r, s) ==
    /\ pc[r][s] = "replied"
    /\ \/ /\ Goto(r, s, IF HasRepliedSince(r) THEN "skipped" ELSE "active")
          /\ UNCHANGED <<lost, pastReply>>
       \/ /\ DropError
          /\ Goto(r, s, "active")
          /\ pastReply' = IF r \in replied THEN [pastReply EXCEPT ![r] = @ + 1] ELSE pastReply
    /\ UNCHANGED <<rows, restarts, copies, pastSwitch>>

AlwaysActive == TRUE         \* mutant: the second look at the automation is left out
IsAutomationActiveByName == active

(* A switch that cannot be read counts as off.                            *)
CheckActive(r, s) ==
    /\ pc[r][s] = "active"
    /\ \/ /\ Goto(r, s, IF IsAutomationActiveByName THEN "send" ELSE "skipped")
          /\ UNCHANGED lost
       \/ /\ DropError
          /\ Goto(r, s, "skipped")
    /\ UNCHANGED <<rows, restarts, history>>

(* registry.For and SendMessageWithTyping; either may fail, the latter    *)
(* also when the message is out.                                          *)
FailedRetries == {"idle"}    \* mutant: a failed send waits for the next tick
Failed == {"skipped"}

Send(r, s) ==
    /\ pc[r][s] = "send"
    /\ \E out \in BOOLEAN, next \in {"sent"} \cup Failed :
         /\ next = "sent" => out
         /\ Goto(r, s, next)
         /\ copies' = IF out THEN [copies EXCEPT ![r] = @ + 1] ELSE copies
    /\ UNCHANGED <<rows, faults, pastReply, pastSwitch>>

(* The UPDATE is by id alone, so the last goroutine to write wins.        *)
WrittenLate(st, p) == st     \* mutant: the row stays pending
WrittenAsTold(st, p) == "completed"     \* mutant: a status no reader knows
Written(st, p) == p

CompleteReminder(r, s) ==
    /\ pc[r][s] \in {"sent", "skipped"}
    /\ \/ /\ status' = [status EXCEPT ![r] = Written(@, pc[r][s])]
          /\ UNCHANGED lost
       \/ /\ DropError
          /\ UNCHANGED status
    /\ Goto(r, s, "idle")
    /\ UNCHANGED <<replied, active, restarts, history>>

(* The process ends, also between a send and its UPDATE.                  *)
Restart ==
    /\ restarts < MaxRestarts
    /\ restarts' = restarts + 1
    /\ pc' = NoGoroutine
    /\ UNCHANGED <<rows, lost, history>>

Goroutine(r, s) ==
    CheckReply(r, s) \/ CheckActive(r, s) \/ Send(r, s) \/ CompleteReminder(r, s)

Next ==
    \/ \E r \in Reminders : CreateReplyReminder(r) \/ ComesDue(r)
    \/ CreateIncomingMessageLog \/ PurgeCustomer \/ Uninstall \/ ToggleAutomation
    \/ \E r \in Reminders, s \in Slots : Fetch(r, s) \/ Goroutine(r, s)
    \/ Restart

(* The ticker runs every minute, the scheduler runs the goroutines.       *)
Fairness ==
    /\ \A r \in Reminders : WF_vars(\E s \in Slots : Fetch(r, s))
    /\ \A r \in Reminders, s \in Slots : WF_vars(Goroutine(r, s))

Spec == Init /\ [][Next]_vars /\ Fairness

-----------------------------------------------------------------------------
(* "The worker will skip it if the customer replies before the 24h        *)
(* window" (shopify.go:466), of texts and while the log is kept: once a   *)
(* reply is logged no more copies reach the customer than had, plus one   *)
(* for each goroutine that had looked before, plus one for each later     *)
(* look that failed.  A reply before the reminder is due stops it.        *)
ReplyStopsTheRest == \A r \in replied : copies[r] <= pastReply[r]

(* "don't send a reminder that was queued while the automation was on if  *)
(* the merchant has since disabled it" (worker.go:174): while it is off   *)
(* no more copies go out than had when it was put off, plus one for each  *)
(* goroutine that had read the switch by then.                            *)
SwitchStopsTheRest == ~active => \A r \in Reminders : copies[r] <= pastSwitch[r]

(* Without a claim, overlapping ticks send copies, as do restarts and     *)
(* lost updates: no more than the goroutines the row may have at once,    *)
(* anew after each restart, plus one for each statement that failed.      *)
CopiesWithinOverlap ==
    \A r \in Reminders : copies[r] <= Cardinality(Slots) * (1 + restarts) + lost

(* No status stands between pending and done: a reminder that is due is   *)
(* sent or skipped in the end, through restarts and lost updates.         *)
ReminderSettles == \A r \in Reminders : status[r] = "due" ~> status[r] \in {"sent", "skipped"}
=============================================================================
