------------------------------- MODULE Audience -------------------------------
(***************************************************************************)
(* One customer of one shop as the server writes to him: the contact and  *)
(* its opt-out, and the messages that webhooks, broadcasts, win-back runs *)
(* and the merchant send (store/db.go, handlers/shopify.go,               *)
(* handlers/broadcast.go, handlers/contact.go, handlers/gdpr.go, the      *)
(* message handlers of main.go).                                          *)
(*                                                                         *)
(* A phone number has two forms: "digits", as WhatsApp and the functions  *)
(* that normalise write it, and "plus", as Shopify or the merchant may.   *)
(* They are the same customer and different values of a column.           *)
(*                                                                         *)
(* A caller is a request, a message from WhatsApp or a background run.    *)
(* Each statement is a step, and may fail without anybody looking at the  *)
(* error.  What becomes of a queued job is in JobQueue.                   *)
(***************************************************************************)
EXTENDS Naturals, FiniteSets

CONSTANTS
    Callers,    \* requests and goroutines in progress at once
    MaxCalls,   \* bound on the calls that are made
    MaxDropped  \* bound on the statements on the contact that fail

ASSUME AudienceAssumption == IsFiniteSet(Callers) /\ MaxCalls \in Nat /\ MaxDropped \in Nat

VARIABLES
    contact,    \* contacts: per form, whether there is a row and its opted_out
    lastOrder,  \* last_order_at of the row in digits
    jobs,       \* pending_jobs, sent ones included
    sent,       \* forms with a message sent in the last 24 hours (message_logs)
    wonBack,    \* forms with a win-back job of today
    call,       \* each caller's: pc; kind; phone, the form it was given; new, what
                \* UpsertContactNew found; to, the contacts still to be queued
    calls,      \* calls made so far
    owed,       \* per form, the welcome goroutines that are to start
    welcomes,   \* history: welcome goroutines since the row in digits was last deleted
    lost        \* history: statements on the contact that failed

table == <<contact, lastOrder>>
vars  == <<table, jobs, sent, wonBack, call, calls, owed, welcomes, lost>>

Forms == {"plus", "digits"}

NormalizePhone(f) == "digits"

Kinds == {"order", "extra", "broadcast", "winback", "send", "text", "stop"}
Steps == {"idle", "count", "upsert", "attribute", "stamp", "check", "enqueue",
          "read", "receive", "optout", "reply", "dispatch"}

(* after: the call that queued the job began when the contact had opted   *)
(* out, and its look at the contact did not fail.                         *)
Jobs == [phone : Forms, after : BOOLEAN, sent : BOOLEAN]

TypeOK ==
    /\ contact \in [Forms -> {"none", "in", "out"}]
    /\ lastOrder \in {"never", "recent", "old"}
    /\ jobs \subseteq Jobs
    /\ sent \subseteq Forms /\ wonBack \subseteq Forms
    /\ call \in [Callers -> [pc : Steps, kind : Kinds, phone : Forms, new : BOOLEAN,
                             to : SUBSET Forms, after : BOOLEAN]]
    /\ calls \in 0..MaxCalls
    /\ owed \in [Forms -> Nat]
    /\ welcomes \in Nat /\ lost \in 0..MaxDropped
    /\ contact["digits"] = "none" => lastOrder = "never"

Idle == [pc |-> "idle", kind |-> "text", phone |-> "digits", new |-> FALSE, to |-> {}, after |-> FALSE]

(* The customer has ordered before, or has not.                           *)
Init ==
    /\ contact \in {[f \in Forms |-> "none"], [digits |-> "in", plus |-> "none"]}
    /\ lastOrder = "never"
    /\ jobs = {} /\ sent = {} /\ wonBack = {}
    /\ call = [c \in Callers |-> Idle]
    /\ calls = 0
    /\ owed = [f \in Forms |-> 0] /\ welcomes = 0 /\ lost = 0

-----------------------------------------------------------------------------
pc(c)    == call[c].pc
phone(c) == call[c].phone

(* A statement fails.                                                     *)
DropError == lost < MaxDropped /\ lost' = lost + 1

Become(c, r) == call' = [call EXCEPT ![c] = IF r.pc = "idle" THEN Idle ELSE r]
Goto(c, p)   == Become(c, [call[c] EXCEPT !.pc = p])

Start(c, k, f, p) ==
    /\ pc(c) = "idle"
    /\ Become(c, [Idle EXCEPT !.pc = p, !.kind = k, !.phone = f,
                              !.after = (contact["digits"] = "out")])
    /\ UNCHANGED <<table, jobs, sent, wonBack, welcomes, lost>>

Begin(c, k, f, p) ==
    /\ calls < MaxCalls
    /\ calls' = calls + 1
    /\ Start(c, k, f, p)
    /\ UNCHANGED owed

(* The webhooks, with a phone and an active automation for them; without  *)
(* either they write nothing.  The other triggers of an order, refunds    *)
(* and abandoned carts differ from an order in what follows the upsert.   *)
ProcessOrder(c, f)  == Begin(c, "order", f, "count")
ExtraTrigger(c, f)  == Begin(c, "extra", f, "count")
RefundCreated(c, f) == ExtraTrigger(c, f)
AbandonedCart(c, f) == ExtraTrigger(c, f)

Welcome(c, f) ==
    /\ owed[f] > 0
    /\ owed' = [owed EXCEPT ![f] = @ - 1]
    /\ Start(c, "extra", f, "count")
    /\ UNCHANGED calls

Broadcast(c)      == Begin(c, "broadcast", "digits", "read")
WinBack(c)        == Begin(c, "winback", "digits", "read")
SendMessage(c, f) == Begin(c, "send", f, "check")

(* A message from the customer; the library gives his number in digits.   *)
Incoming(c, k) == k \in {"text", "stop"} /\ Begin(c, k, "digits", "receive")

-----------------------------------------------------------------------------
(* The order of a webhook: the contact.                                   *)

AlwaysNew(f) == TRUE      \* mutant: every order is a new contact's
NewContact(f) == contact[NormalizePhone(f)] = "none"

(* After a failed read the count is still 0.                              *)
CountContacts(c) ==
    /\ pc(c) = "count"
    /\ \E new \in BOOLEAN :
         /\ Become(c, [call[c] EXCEPT !.pc = "upsert", !.new = new])
         /\ \/ new = NewContact(phone(c)) /\ UNCHANGED lost
            \/ new /\ DropError
    /\ UNCHANGED <<table, jobs, sent, wonBack, calls, owed, welcomes>>

(* An existing row keeps its opted_out.                                   *)
UpsertedIn(s) == "in"     \* mutant: an order opts the customer in again
Upserted(s) == IF s = "none" THEN "in" ELSE s

UpsertContact(c) ==
    /\ pc(c) = "upsert"
    /\ \/ contact' = [contact EXCEPT ![NormalizePhone(phone(c))] = Upserted(@)] /\ UNCHANGED lost
       \/ UNCHANGED contact /\ DropError
    /\ IF call[c].kind = "order" /\ call[c].new
         THEN owed' = [owed EXCEPT ![phone(c)] = @ + 1] /\ welcomes' = welcomes + 1
         ELSE UNCHANGED <<owed, welcomes>>
    /\ Goto(c, IF call[c].kind = "order" THEN "attribute" ELSE "check")
    /\ UNCHANGED <<lastOrder, jobs, sent, wonBack, calls>>

(* WASentRecently; the label it leads to is in OrderTags.                 *)
Attribute(c) ==
    /\ pc(c) = "attribute"
    /\ Goto(c, "stamp")
    /\ UNCHANGED <<table, jobs, sent, wonBack, calls, owed, welcomes, lost>>

StampedAlways(f) == "recent"      \* mutant: the row need not be there
Stamped(f) == IF contact[NormalizePhone(f)] = "none" THEN lastOrder ELSE "recent"

UpdateLastOrderAt(c) ==
    /\ pc(c) = "stamp"
    /\ \/ lastOrder' = Stamped(phone(c)) /\ UNCHANGED lost
       \/ UNCHANGED lastOrder /\ DropError
    /\ Goto(c, "check")
    /\ UNCHANGED <<contact, jobs, sent, wonBack, calls, owed, welcomes>>

-----------------------------------------------------------------------------
(* Opt-out and queueing.                                                  *)

NeverOptedOut(f) == FALSE       \* mutant: the check is left out
IsOptedOut(f) == contact[f] = "out"

(* Of an order, of each contact of a win-back run, and of a manual send.  *)
(* A failed read is taken for a contact that has not opted out.           *)
Check(c) ==
    /\ pc(c) = "check"
    /\ \/ /\ Goto(c, IF ~IsOptedOut(phone(c)) THEN "enqueue"
                      ELSE IF call[c].to # {} THEN "dispatch" ELSE "idle")
          /\ UNCHANGED lost
       \/ Become(c, [call[c] EXCEPT !.pc = "enqueue", !.after = FALSE]) /\ DropError
    /\ UNCHANGED <<table, jobs, sent, wonBack, calls, owed, welcomes>>

(* A manual send goes out here; it, or the INSERT of a job, may fail.     *)
Enqueue(c) ==
    /\ pc(c) = "enqueue"
    /\ LET k == call[c].kind
           j == [phone |-> phone(c), after |-> call[c].after, sent |-> FALSE]
       IN  \E ok \in BOOLEAN :
             /\ jobs' = IF ok /\ k # "send" THEN jobs \cup {j} ELSE jobs
             /\ sent' = IF ok /\ k = "send" THEN sent \cup {phone(c)} ELSE sent
             /\ wonBack' = IF ok /\ k = "winback" THEN wonBack \cup {phone(c)} ELSE wonBack
    /\ Goto(c, IF call[c].to # {} THEN "dispatch" ELSE "idle")
    /\ UNCHANGED <<table, calls, owed, welcomes, lost>>

AllActiveContacts == {f \in Forms : contact[f] = "in"}

WinBackCandidates ==
    {f \in AllActiveContacts \ wonBack : f = "digits" /\ lastOrder = "old"}

(* A broadcast or a win-back run reads the contacts once; the first does  *)
(* not look at them again, the second checks each.                        *)
ReadContacts(c) ==
    /\ pc(c) = "read"
    /\ LET found == IF call[c].kind = "broadcast" THEN AllActiveContacts ELSE WinBackCandidates
       IN  Become(c, [call[c] EXCEPT !.pc = IF found = {} THEN "idle" ELSE "dispatch",
                                     !.to = found])
    /\ UNCHANGED <<table, jobs, sent, wonBack, calls, owed, welcomes, lost>>

NextContact(c) ==
    /\ pc(c) = "dispatch"
    /\ \E f \in call[c].to :
         Become(c, [call[c] EXCEPT !.phone = f, !.to = @ \ {f},
                      !.pc = IF call[c].kind = "broadcast" THEN "enqueue" ELSE "check"])
    /\ UNCHANGED <<table, jobs, sent, wonBack, calls, owed, welcomes, lost>>

(* The worker sends a job without another look at the contact.            *)
Deliver(j) ==
    /\ j \in jobs /\ ~j.sent
    /\ jobs' = (jobs \ {j}) \cup {[j EXCEPT !.sent = TRUE]}
    /\ sent' = sent \cup {j.phone}
    /\ UNCHANGED <<table, wonBack, call, calls, owed, welcomes, lost>>

-----------------------------------------------------------------------------
(* Messages from the customer: logged first; then STOP, or else a keyword *)
(* reply or a stored confirmation may answer.                             *)

Receive(c) ==
    /\ pc(c) = "receive"
    /\ \E p \in IF call[c].kind = "stop" THEN {"optout"} ELSE {"reply", "idle"} : Goto(c, p)
    /\ UNCHANGED <<table, jobs, sent, wonBack, calls, owed, welcomes, lost>>

(* An UPDATE: without a row STOP has no effect.                           *)
SetContactOptOut(c) ==
    /\ pc(c) = "optout"
    /\ \/ /\ contact' = [contact EXCEPT ![phone(c)] = IF @ = "none" THEN "none" ELSE "out"]
          /\ UNCHANGED lost
       \/ UNCHANGED contact /\ DropError
    /\ Goto(c, "idle")
    /\ UNCHANGED <<lastOrder, jobs, sent, wonBack, calls, owed, welcomes>>

Reply(c) ==
    /\ pc(c) = "reply"
    /\ sent' = sent \cup {phone(c)}
    /\ Goto(c, "idle")
    /\ UNCHANGED <<table, jobs, wonBack, calls, owed, welcomes, lost>>

-----------------------------------------------------------------------------
(* Single statements and transactions, by the merchant and by Shopify.    *)

Counted == calls < MaxCalls /\ calls' = calls + 1

(* The contacts page stores a number as it was typed.                     *)
CreateContact(f) ==
    /\ Counted
    /\ contact' = [contact EXCEPT ![f] = Upserted(@)]
    /\ UNCHANGED <<lastOrder, jobs, sent, wonBack, call, owed, welcomes, lost>>

(* Calls in progress are no longer after an opt-out that has been erased. *)
Erase(forms) ==
    /\ contact' = [f \in Forms |-> IF f \in forms THEN "none" ELSE contact[f]]
    /\ IF "digits" \in forms
         THEN /\ lastOrder' = "never" /\ welcomes' = 0
              /\ call' = [c \in Callers |-> [call[c] EXCEPT !.after = FALSE]]
         ELSE UNCHANGED <<lastOrder, welcomes, call>>

DeleteContact(f) ==
    /\ Counted
    /\ Erase({f})
    /\ UNCHANGED <<jobs, sent, wonBack, owed, lost>>

PurgeRows(forms) ==
    /\ Counted
    /\ Erase(forms)
    /\ jobs' = {j \in jobs : j.phone \notin forms}
    /\ sent' = sent \ forms
    /\ wonBack' = wonBack \ forms
    /\ UNCHANGED <<owed, lost>>

PurgeCustomer(f) == PurgeRows({f})
PurgeShop        == PurgeRows(Forms)

(* A day passes; then the days that make a contact inactive.              *)
NewDay ==
    /\ sent' = {} /\ wonBack' = {}
    /\ lastOrder' \in IF lastOrder = "recent" THEN {"recent", "old"} ELSE {lastOrder}
    /\ UNCHANGED <<contact, jobs, call, calls, owed, welcomes, lost>>

-----------------------------------------------------------------------------
Request(c) ==
    \/ \E f \in Forms :
         \/ ProcessOrder(c, f) \/ ExtraTrigger(c, f) \/ RefundCreated(c, f)
         \/ AbandonedCart(c, f) \/ Welcome(c, f) \/ SendMessage(c, f)
    \/ Broadcast(c) \/ WinBack(c)
    \/ \E k \in {"text", "stop"} : Incoming(c, k)

Handle(c) ==
    \/ CountContacts(c) \/ UpsertContact(c) \/ Attribute(c) \/ UpdateLastOrderAt(c)
    \/ Check(c) \/ Enqueue(c) \/ ReadContacts(c) \/ NextContact(c)
    \/ Receive(c) \/ SetContactOptOut(c) \/ Reply(c)

Next ==
    \/ \E c \in Callers : Request(c) \/ Handle(c)
    \/ \E j \in jobs : Deliver(j)
    \/ \E f \in Forms : CreateContact(f) \/ DeleteContact(f) \/ PurgeCustomer(f)
    \/ PurgeShop
    \/ NewDay

Spec == Init /\ [][Next]_vars

-----------------------------------------------------------------------------
(* "skipping opted-out contact" (shopify.go:302), as far as it goes: what *)
(* a webhook, a broadcast or a win-back run that began after STOP queues  *)
(* goes to the number in its other form, as long as the contact is kept   *)
(* and can be read.  Orders do not opt the customer in again.             *)
StopIsHeeded == \A j \in jobs : j.after => j.phone = "plus"

(* "fire TriggerWelcome automations only for brand-new contacts"          *)
(* (shopify.go:231): a contact is welcomed once by each of the handlers   *)
(* that met it missing at the same time, and by later ones only when a    *)
(* count or an INSERT failed (db.go:1708-1709).                           *)
WelcomesWithinOverlap == welcomes <= Cardinality(Callers) + lost
=============================================================================
