------------------------------ MODULE JobQueue ------------------------------
(***************************************************************************)
(* The persistent job queue (table pending_jobs, store/db.go) and the     *)
(* worker that drains it (worker/worker.go).                              *)
(*                                                                         *)
(* Every tick reads the ready rows and starts one goroutine per row; the  *)
(* goroutines of one tick outlive it and run beside those of the next,    *)
(* so several of them may hold a snapshot of the same row.  SQLite runs   *)
(* on one connection: a statement is atomic, a handler is not.  An action *)
(* below is one statement, or one network call, together with the purely  *)
(* local code up to the next one.                                         *)
(*                                                                         *)
(* A job's plan check (CanSendWhatsAppMessage), the sending window (wall  *)
(* clock and the merchant's settings, both free to change at any time)    *)
(* and the outcome of the network are choices of the environment.         *)
(***************************************************************************)
EXTENDS Naturals, FiniteSets

CONSTANTS
    Jobs,          \* identifiers (uuid) of the rows ever inserted
    Contacts,      \* the customers of one shop, by phone as written in the row
    ContactOf,     \* the customer each job is addressed to
    TagJobs,       \* jobs with an order id and a tag_on_send
    Goroutines,    \* goroutines of process() alive at once: bounds the runtime's unbounded number
    NoJob,         \* what an idle goroutine works on
    MaxAttempts,   \* pending_jobs.max_attempts, 3 by default
    CapPerDay,     \* settings.frequency_cap_per_day; 0 means no cap
    MaxDropped,    \* bound on database statements that fail and whose error the code drops
    MaxOthers,     \* bound on a day's messages to a customer that no job stands for
    MaxRestarts    \* bound on deaths of the process

ASSUME JobQueueAssumption ==
    /\ NoJob \notin Jobs
    /\ ContactOf \in [Jobs -> Contacts]
    /\ TagJobs \subseteq Jobs
    /\ IsFiniteSet(Goroutines) /\ Goroutines # {}
    /\ MaxAttempts \in Nat \ {0}
    /\ CapPerDay \in Nat
    /\ MaxDropped \in Nat
    /\ MaxOthers \in Nat
    /\ MaxRestarts \in Nat

VARIABLES
    status,        \* pending_jobs.status; "absent" before the INSERT, "purged" after the DELETE
    attempts,      \* pending_jobs.attempts
    due,           \* scheduled_at <= now
    pc,            \* where each goroutine is in process()
    job,           \* the row snapshot it works on
    log,           \* its message_logs row: none, created today, created on an earlier day
    sentToday,     \* the worker's rows of message_logs with status 'sent' created today
    otherToday,    \* the others of today's: reminders, replies and manual sends
    delivered,     \* history: copies that reached the customer's phone
    acked,         \* history: sends that returned without an error
    lost,          \* statements that failed so far
    restarts       \* deaths of the process so far

rowVars == <<status, attempts, due>>
goVars  == <<pc, job, log>>
countVars == <<sentToday, otherToday>>
netVars == <<delivered, acked>>
faultVars == <<lost, restarts>>
vars    == <<status, attempts, due, pc, job, log, sentToday, otherToday, delivered, acked,
          lost, restarts>>

Statuses == {"absent", "pending", "processing", "sent", "failed", "purged"}
PCs == {"idle", "fetched", "claimed", "planned", "unread", "capped", "logged",
        "failing", "acked", "completed", "tagging"}

Init ==
    /\ status = [j \in Jobs |-> "absent"]
    /\ attempts = [j \in Jobs |-> 0]
    /\ due = [j \in Jobs |-> FALSE]
    /\ pc = [g \in Goroutines |-> "idle"]
    /\ job = [g \in Goroutines |-> NoJob]
    /\ log = [g \in Goroutines |-> "none"]
    /\ sentToday = [c \in Contacts |-> 0]
    /\ otherToday = [c \in Contacts |-> 0]
    /\ delivered = [j \in Jobs |-> 0]
    /\ acked = [j \in Jobs |-> 0]
    /\ lost = 0
    /\ restarts = 0

-----------------------------------------------------------------------------
(* Statements on pending_jobs.                                             *)

\* UPDATE pending_jobs SET status=s WHERE id=j: no effect on a deleted row.
RowSet(j, s) == IF status[j] = "purged" THEN status ELSE [status EXCEPT ![j] = s]

\* A statement fails, and the code drops its error.
DropError == lost < MaxDropped /\ lost' = lost + 1

\* CompleteJob, FailJob and RescheduleJob drop the error of their Exec: one that
\* fails leaves the row as it is and the caller goes on.
StatusWrite(j, s) ==
    \/ /\ status' = RowSet(j, s)
       /\ UNCHANGED lost
    \/ /\ DropError
       /\ UNCHANGED status

\* The queries and updates, each after a mutated form of it (the run's mutants).
ReadyAnyAttempts(j) == status[j] = "pending" /\ due[j]
Ready(j) == status[j] = "pending" /\ due[j] /\ attempts[j] < MaxAttempts

ClaimableAny(j) == status[j] \notin {"absent", "purged"}
Claimable(j) == status[j] = "pending"

ClaimFree(j) == attempts
ClaimCost(j) == [attempts EXCEPT ![j] = @ + 1]

FailRetries(j) == IF attempts[j] >= MaxAttempts THEN "failed" ELSE "retry"
FailKeepsClaim(j) == IF attempts[j] >= MaxAttempts THEN "failed" ELSE "processing"
FailStatus(j) == IF attempts[j] >= MaxAttempts THEN "failed" ELSE "pending"

-----------------------------------------------------------------------------
(* The webhook side and the clock.                                         *)

\* EnqueueJob, for a run time that has come or is still to come.
EnqueueJob(j) ==
    /\ status[j] = "absent"
    /\ status' = [status EXCEPT ![j] = "pending"]
    /\ \E now \in BOOLEAN : due' = [due EXCEPT ![j] = now]
    /\ UNCHANGED <<attempts, goVars, countVars, netVars, faultVars>>

\* scheduled_at passes.
ComesDue(j) ==
    /\ status[j] = "pending"
    /\ ~due[j]
    /\ due' = [due EXCEPT ![j] = TRUE]
    /\ UNCHANGED <<status, attempts, goVars, countVars, netVars, faultVars>>

\* DATE('now') moves on: rows created so far no longer count as today's.
NewDay ==
    /\ sentToday' = [c \in Contacts |-> 0]
    /\ otherToday' = [c \in Contacts |-> 0]
    /\ log' = [g \in Goroutines |-> IF log[g] = "today" THEN "old" ELSE log[g]]
    /\ UNCHANGED <<rowVars, pc, job, netVars, faultVars>>

\* A reminder, a reply of the bot or a manual send was delivered and logged as 'sent':
\* it counts for the cap, which only process() looks at.
OtherSend(c) ==
    /\ otherToday[c] < MaxOthers
    /\ otherToday' = [otherToday EXCEPT ![c] = @ + 1]
    /\ UNCHANGED <<rowVars, goVars, sentToday, netVars, faultVars>>

\* PurgeCustomer (one customer) and PurgeShop (all of them): one transaction that
\* deletes the rows of pending_jobs and of message_logs under running goroutines.
Purge(C) ==
    /\ status' = [j \in Jobs |->
          IF ContactOf[j] \in C /\ status[j] # "absent" THEN "purged" ELSE status[j]]
    /\ sentToday' = [c \in Contacts |-> IF c \in C THEN 0 ELSE sentToday[c]]
    /\ otherToday' = [c \in Contacts |-> IF c \in C THEN 0 ELSE otherToday[c]]
    /\ log' = [g \in Goroutines |->
          IF job[g] \in Jobs /\ ContactOf[job[g]] \in C THEN "none" ELSE log[g]]
    /\ UNCHANGED <<attempts, due, pc, job, netVars, faultVars>>

-----------------------------------------------------------------------------
(* process(): one goroutine.                                               *)

Goto(g, l) == pc' = [pc EXCEPT ![g] = l]

Return(g) ==
    /\ Goto(g, "idle")
    /\ job' = [job EXCEPT ![g] = NoJob]
    /\ log' = [log EXCEPT ![g] = "none"]

\* GetReadyJobs returns row j and tick starts a goroutine for it.
Fetch(g, j) ==
    /\ pc[g] = "idle"
    /\ Ready(j)
    /\ Goto(g, "fetched")
    /\ job' = [job EXCEPT ![g] = j]
    /\ UNCHANGED <<rowVars, log, countVars, netVars, faultVars>>

\* ClaimJob: a conditional UPDATE, whose row count says who won.  An UPDATE that
\* fails counts as lost.
ClaimJob(g) ==
    LET j == job[g] IN
    /\ pc[g] = "fetched"
    /\ \/ /\ Claimable(j)
          /\ status' = [status EXCEPT ![j] = "processing"]
          /\ attempts' = ClaimCost(j)
          /\ Goto(g, "claimed")
          /\ UNCHANGED <<due, job, log, countVars, netVars, faultVars>>
       \/ /\ (~Claimable(j) /\ UNCHANGED lost) \/ DropError
          /\ Return(g)
          /\ UNCHANGED <<rowVars, countVars, netVars, restarts>>

\* GetSettings, whose error is dropped, and CanSendWhatsAppMessage: allowed, or an error
\* (logged, and the send goes on); or the plan's limit is reached, and the job is closed
\* without a send.  Settings that were not read are all zero: no cap, and a sending
\* window from 0 to 0 that no hour is in.
CheckPlan(g) ==
    /\ pc[g] = "claimed"
    /\ \/ /\ \/ Goto(g, "planned") /\ UNCHANGED lost
             \/ Goto(g, "unread") /\ DropError
          /\ UNCHANGED <<rowVars, job, log>>
       \/ /\ StatusWrite(job[g], "sent")
          /\ Return(g)
          /\ UNCHANGED <<attempts, due>>
    /\ UNCHANGED <<countVars, netVars, restarts>>

UnderCap(c) == CapPerDay = 0 \/ sentToday[c] + otherToday[c] < CapPerDay

\* MessageCountToday against the cap; a count that cannot be read is 0.  Closing the job
\* is a second statement, on a row that only this goroutine writes: the two are taken
\* together.
CheckCap(g) ==
    /\ pc[g] = "planned"
    /\ \/ /\ (UnderCap(ContactOf[job[g]]) /\ UNCHANGED lost) \/ DropError
          /\ Goto(g, "capped")
          /\ UNCHANGED <<rowVars, job, log>>
       \/ /\ ~UnderCap(ContactOf[job[g]])
          /\ StatusWrite(job[g], "sent")
          /\ Return(g)
          /\ UNCHANGED <<attempts, due>>
    /\ UNCHANGED <<countVars, netVars, restarts>>

\* Outside the sending window, as always with settings not read: RescheduleJob puts the
\* row back, due later.
Defer(g) ==
    LET j == job[g] IN
    /\ pc[g] \in {"capped", "unread"}
    /\ \/ /\ status' = RowSet(j, "pending")
          /\ due' = [due EXCEPT ![j] = FALSE]
          /\ UNCHANGED lost
       \/ /\ DropError
          /\ UNCHANGED <<status, due>>
    /\ Return(g)
    /\ UNCHANGED <<attempts, countVars, netVars, restarts>>

\* Inside the window: the shop's WhatsApp manager is looked up (an error fails the
\* job), then the log row is inserted (an error is ignored: the row is just missing).
OpenLog(g) ==
    /\ pc[g] = "capped"
    /\ \/ /\ Goto(g, "logged")
          /\ \/ log' = [log EXCEPT ![g] = "today"] /\ UNCHANGED lost
             \/ /\ DropError
                /\ UNCHANGED log
          /\ UNCHANGED rowVars
       \/ /\ Goto(g, "failing")
          /\ UNCHANGED <<rowVars, log, lost>>
    /\ UNCHANGED <<job, countVars, netVars, restarts>>

\* SendInteractiveMessage: it returns nil once the server took the message; an error
\* may come before or after the message left.
Send(g) ==
    LET j == job[g] IN
    /\ pc[g] = "logged"
    /\ \/ /\ delivered' = [delivered EXCEPT ![j] = @ + 1]
          /\ acked' = [acked EXCEPT ![j] = @ + 1]
          /\ Goto(g, "acked")
       \/ /\ \/ delivered' = [delivered EXCEPT ![j] = @ + 1]
             \/ UNCHANGED delivered
          /\ Goto(g, "failing")
          /\ UNCHANGED acked
    /\ UNCHANGED <<rowVars, job, log, countVars, faultVars>>

\* FailJob, then the log row is marked failed (which no count reads).
FailJob(g) ==
    /\ pc[g] = "failing"
    /\ StatusWrite(job[g], FailStatus(job[g]))
    /\ Return(g)
    /\ UNCHANGED <<attempts, due, countVars, netVars, restarts>>

CompleteJob(g) ==
    /\ pc[g] = "acked"
    /\ StatusWrite(job[g], "sent")
    /\ Goto(g, "completed")
    /\ UNCHANGED <<attempts, due, job, log, countVars, netVars, restarts>>

\* One more row of today's with status 'sent'; the mutated form is a job logged by the
\* worker and by LogOutboundMessage as well.
CountSentTwice(c) == [sentToday EXCEPT ![c] = @ + 2]
CountSent(c) == [sentToday EXCEPT ![c] = @ + 1]

\* UpdateMessageLogStatus(sent), on a row that may be missing, purged or yesterday's;
\* its error is dropped too.
MarkLogSent(g) ==
    LET c == ContactOf[job[g]] IN
    /\ pc[g] = "completed"
    /\ \/ /\ sentToday' = IF log[g] = "today" THEN CountSent(c) ELSE sentToday
          /\ UNCHANGED lost
       \/ /\ DropError
          /\ UNCHANGED sentToday
    /\ UNCHANGED otherToday
    /\ IF job[g] \in TagJobs
       THEN Goto(g, "tagging") /\ UNCHANGED <<job, log>>
       ELSE Return(g)
    /\ UNCHANGED <<rowVars, netVars, restarts>>

\* tagOrder, the call into handlers/order_tags.go: OrderTags models what it does to the
\* order; here it only keeps the goroutine busy.
TagOrder(g) ==
    /\ pc[g] = "tagging"
    /\ Return(g)
    /\ UNCHANGED <<rowVars, countVars, netVars, faultVars>>

-----------------------------------------------------------------------------
(* The process dies (crash, deploy, restart: nothing waits for the running *)
(* goroutines) and comes back; opening the database changes no row.        *)

StatusOnRestartRequeued == [j \in Jobs |-> IF status[j] = "processing" THEN "pending" ELSE status[j]]
StatusOnRestart == status

Restart ==
    /\ restarts < MaxRestarts
    /\ restarts' = restarts + 1
    /\ status' = StatusOnRestart
    /\ pc' = [g \in Goroutines |-> "idle"]
    /\ job' = [g \in Goroutines |-> NoJob]
    /\ log' = [g \in Goroutines |-> "none"]
    /\ UNCHANGED <<attempts, due, countVars, netVars, lost>>

-----------------------------------------------------------------------------
Process(g) ==
    \/ ClaimJob(g) \/ CheckPlan(g) \/ CheckCap(g) \/ Defer(g) \/ OpenLog(g)
    \/ Send(g) \/ FailJob(g) \/ CompleteJob(g) \/ MarkLogSent(g) \/ TagOrder(g)

Next ==
    \/ \E j \in Jobs : EnqueueJob(j) \/ ComesDue(j)
    \/ \E g \in Goroutines, j \in Jobs : Fetch(g, j)
    \/ \E g \in Goroutines : Process(g)
    \/ \E C \in {Contacts} \cup {{c} : c \in Contacts} : Purge(C)
    \/ NewDay
    \/ \E c \in Contacts : OtherSend(c)
    \/ Restart

Spec == Init /\ [][Next]_vars

(***************************************************************************)
(* Fairness: the Go scheduler runs every goroutine, the ten-second ticker *)
(* keeps firing and reading the ready rows, and the clock reaches every   *)
(* scheduled_at.  Nothing else (webhooks, purges, faults) has to happen.  *)
(***************************************************************************)
Fairness ==
    /\ \A g \in Goroutines : WF_vars(Process(g))
    /\ \A j \in Jobs : WF_vars(\E g \in Goroutines : Fetch(g, j))
    /\ \A j \in Jobs : WF_vars(ComesDue(j))

FairSpec == Spec /\ Fairness

-----------------------------------------------------------------------------
(* Properties.                                                             *)

\* Every variable has its type, and a goroutine works on a row exactly when it runs.
TypeOK ==
    /\ status \in [Jobs -> Statuses]
    /\ attempts \in [Jobs -> Nat]
    /\ due \in [Jobs -> BOOLEAN]
    /\ pc \in [Goroutines -> PCs]
    /\ job \in [Goroutines -> Jobs \cup {NoJob}]
    /\ log \in [Goroutines -> {"none", "today", "old"}]
    /\ sentToday \in [Contacts -> Nat]
    /\ otherToday \in [Contacts -> 0..MaxOthers]
    /\ delivered \in [Jobs -> Nat]
    /\ acked \in [Jobs -> Nat]
    /\ lost \in 0..MaxDropped
    /\ restarts \in 0..MaxRestarts
    /\ \A g \in Goroutines : pc[g] = "idle" <=> job[g] = NoJob

\* Between its claim and the write that ends it, a goroutine owns its row.
Owning == {"claimed", "planned", "unread", "capped", "logged", "failing", "acked"}
Owns(g, j) == job[g] = j /\ pc[g] \in Owning

\* No two goroutines, of one tick or of several, own the same row, and the row of an
\* owner reads "processing" until a purge deletes it (ClaimJob's promise).
ClaimExclusive ==
    \A j \in Jobs, g \in Goroutines : Owns(g, j) =>
        /\ status[j] \in {"processing", "purged"}
        /\ \A h \in Goroutines : Owns(h, j) => h = g

\* Once a send has returned without an error the job is never sent with success
\* again: through restarts, lost writes and stale snapshots alike, and a job that
\* ends "failed" has had no such send.
AckedAtMostOnce ==
    \A j \in Jobs : acked[j] <= 1 /\ (status[j] = "failed" => acked[j] = 0)

\* Send errors that hide a delivery make the customer see a message again, but never
\* more often than the row counts attempts.
CopiesWithinAttempts == \A j \in Jobs : delivered[j] <= attempts[j]

\* ClaimJob rechecks neither attempts nor scheduled_at: stale snapshots of a deferred
\* row can push attempts past max_attempts, but by less than the goroutines alive.
AttemptsOvershoot ==
    \A j \in Jobs : attempts[j] < MaxAttempts + Cardinality(Goroutines)

\* The cap holds the worker back, and nothing else: whatever reminders, replies and
\* manual sends add to a customer's day, the worker's own messages stay below the cap
\* plus the goroutines alive (it is checked before the send and counted after it) plus
\* the reads that failed (a count not read is taken for none).
CapOvershoot ==
    CapPerDay > 0 =>
        \A c \in Contacts : sentToday[c] < CapPerDay + Cardinality(Goroutines) + lost

\* FailJob, CompleteJob and RescheduleJob write by id whatever the status is; even so,
\* a row that is sent or failed stays so until a purge.
SettledIsFinal ==
    [][\A j \in Jobs : status[j] \in {"sent", "failed", "purged"} =>
          status'[j] \in {status[j], "purged"}]_vars

\* The queue as its clients see it: goroutines and snapshots hidden.
PhaseOf == [absent |-> "none", pending |-> "queued", processing |-> "taken",
            sent |-> "done", failed |-> "dead", purged |-> "erased"]

Promise == INSTANCE DeliveryPromise WITH
              Messages <- Jobs, MaxTries <- MaxAttempts,
              phase <- [j \in Jobs |-> PhaseOf[status[j]]],
              tries <- attempts, copies <- delivered

\* The worker's claims, retries, deferrals and purges are moves of DeliveryPromise: one
\* try per claim, at most one copy per try, nothing taken again once done or dead.
KeepsPromise == Promise!Spec

\* An accepted job comes to an end: it is sent or skipped, failed, purged, or left
\* pending with no attempt to spend.  worker.go:1-2 says that the package "delivers
\* WhatsApp messages reliably" and goes on with "surviving server restarts".
Out(j) == status[j] \in {"sent", "failed", "purged"}
Exhausted(j) == status[j] = "pending" /\ attempts[j] >= MaxAttempts

EventuallySettles ==
    \A j \in Jobs : status[j] \in {"pending", "processing"} ~> (Out(j) \/ Exhausted(j))

-----------------------------------------------------------------------------
(***************************************************************************)
(* The inductive strengthening.  The unconditional UPDATEs by id are      *)
(* harmless only because their writer owns the row, and the row cannot be *)
(* taken back from an owner; the history counters are tied to where the   *)
(* owner is in process().                                                  *)
(***************************************************************************)

AbsentIsUntouched ==
    \A j \in Jobs : status[j] = "absent" =>
        /\ attempts[j] = 0 /\ delivered[j] = 0 /\ acked[j] = 0
        /\ \A g \in Goroutines : job[g] # j

\* After a successful send only the sender owns the row, and the row is not requeued.
AckEndsTheJob ==
    \A j \in Jobs : acked[j] <= 1 /\ (acked[j] = 1 =>
        /\ status[j] \in {"processing", "sent", "purged"}
        /\ \A g \in Goroutines : Owns(g, j) => pc[g] = "acked")

AckBeforeBookkeeping ==
    \A g \in Goroutines : pc[g] \in {"acked", "completed", "tagging"} => acked[job[g]] = 1

\* A goroutine that has not sent yet has an attempt without a copy.
BeforeSend == {"claimed", "planned", "unread", "capped", "logged"}
AttemptInHand ==
    \A g \in Goroutines : pc[g] \in BeforeSend => delivered[job[g]] < attempts[job[g]]

IInv ==
    /\ TypeOK
    /\ ClaimExclusive
    /\ AbsentIsUntouched
    /\ AckEndsTheJob
    /\ AckBeforeBookkeeping
    /\ CopiesWithinAttempts
    /\ AttemptInHand

\* The two counting invariants: what has been counted plus what may still be counted
\* by the goroutines that already passed the check.
Fetched(j) == {g \in Goroutines : pc[g] = "fetched" /\ job[g] = j}
AttemptsAndFetched ==
    \A j \in Jobs :
        attempts[j] + Cardinality(Fetched(j)) < MaxAttempts + Cardinality(Goroutines)

PastCap(c) == {g \in Goroutines : /\ pc[g] \in {"capped", "logged", "acked", "completed"}
                                  /\ ContactOf[job[g]] = c}
CapAndPastCap ==
    CapPerDay > 0 =>
        \A c \in Contacts :
            sentToday[c] + Cardinality(PastCap(c))
                < CapPerDay + Cardinality(Goroutines) + lost
=============================================================================
