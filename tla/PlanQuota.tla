------------------------------ MODULE PlanQuota ------------------------------
(***************************************************************************)
(* The monthly message allowance of one shop (store/db.go): the check     *)
(* before a send, the automatic upgrade it may trigger, the count after   *)
(* the send, and the monthly reset that each of them performs first.      *)
(*                                                                         *)
(* Callers are the worker's goroutines, the manual-send endpoint, the     *)
(* replies that are logged with LogOutboundMessage (counted but never     *)
(* checked) and pages that only read the settings.  A statement is atomic *)
(* and a function is not: every pc below is a point between two           *)
(* statements, or between a statement and the call to Shopify's billing.  *)
(*                                                                         *)
(* Tiers are numbered 0 (free) to Top (professional).  Two clocks run     *)
(* independently: limit_reset_at, an anniversary, and the calendar month, *)
(* which is part of the idempotency key of a charge.                      *)
(*                                                                         *)
(* Every write but the choice of a plan drops its error, and so does the  *)
(* read before a reset: any statement of a caller may fail unnoticed.     *)
(***************************************************************************)
EXTENDS Integers, FiniteSets, FiniteSetsExt

CONSTANTS
    Callers,      \* goroutines and requests at once (bounds the runtime's unbounded number)
    Kinds,        \* the kinds of caller considered
    Top,          \* the highest tier
    LimitOf,      \* admin_plans.message_limit of each tier, -1 for no limit
    PriceOf,      \* admin_plans.price of each tier
    MaxSent,      \* bound on the count at which a new send still starts
    MaxMonth,     \* bound on calendar months
    MaxExpiries,  \* bound on the times an allowance period runs out
    MaxMerchant   \* bound on plan choices and purges

Tiers == 0..Top
AllKinds == {"worker", "api", "reply", "view"}

ASSUME PlanQuotaAssumption ==
    /\ IsFiniteSet(Callers) /\ Callers # {}
    /\ Kinds \subseteq AllKinds
    /\ Top \in Nat
    /\ LimitOf \in [Tiers -> Nat \cup {-1}]
    /\ PriceOf \in [Tiers -> Nat]
    /\ {MaxSent, MaxMonth, MaxExpiries, MaxMerchant} \subseteq Nat

VARIABLES
    row,         \* the shop has a settings row
    plan,        \* settings.plan_key; message_limit is always written with it
    lineItem,    \* settings.subscription_line_item_id is not empty
    sent,        \* settings.messages_sent_this_month
    resetAt,     \* settings.limit_reset_at: NULL, in the future or in the past
    charges,     \* usage records Shopify accepted: tier, month of the key, amount
    upgrades,    \* the rows of auto_upgrade_logs with a charge
    choice,      \* a plan being written: the tier, the line item, the branch taken
    pc, kind,    \* where each caller is, and on whose behalf
    seen,        \* the tier a caller read, and whether it read a line item
    via,         \* how a caller's message was let through
    month,       \* the calendar month
    expiries,    \* times the allowance period ran out
    merchant,    \* plan choices and purges so far
    period,      \* history: allowance periods begun
    peak,        \* history: the highest tier of this period
    excess       \* history: messages counted in this period that no check allowed

settings == <<row, plan, lineItem, sent, resetAt>>
billing  == <<charges, upgrades>>
caller   == <<pc, kind, seen, via>>
world    == <<month, expiries, merchant>>
history  == <<period, peak, excess>>
vars     == <<settings, billing, choice, caller, world, history>>

PCs == {"idle", "check", "reset", "query", "charge", "upgrade", "log", "send",
        "countCheck", "countReset", "count"}
Vias == {"none", "allowed", "upgraded", "error", "unchecked"}
Unread == [tier |-> 0, item |-> FALSE]
NoChoice == [branch |-> "none", tier |-> 0, item |-> FALSE]

\* A shop without a row, one saved from the settings page, or one on the free plan.
Init ==
    /\ row \in BOOLEAN
    /\ plan = 0
    /\ lineItem = FALSE
    /\ sent = 0
    /\ resetAt \in IF row THEN {"null", "future"} ELSE {"null"}
    /\ charges = {}
    /\ upgrades = {}
    /\ choice = NoChoice
    /\ pc = [c \in Callers |-> "idle"]
    /\ kind = [c \in Callers |-> "view"]
    /\ seen = [c \in Callers |-> Unread]
    /\ via = [c \in Callers |-> "none"]
    /\ month = 0
    /\ expiries = 0
    /\ merchant = 0
    /\ period = 0
    /\ peak = 0
    /\ excess = 0

-----------------------------------------------------------------------------
(* The merchant and the clocks.                                            *)

NewPeriod(tier) ==
    /\ sent' = 0
    /\ period' = period + 1
    /\ peak' = tier
    /\ excess' = 0

KeepPeriod(tier) ==
    /\ peak' = Max({tier, peak})
    /\ UNCHANGED <<sent, period, excess>>

\* SyncShopPlanWithLineItem, the SELECT (from select-plan, register-shop and the billing
\* pages): a shop without a row gets one, another tier starts a new period, the same
\* tier keeps the count.
ChoosePlan(tier, item) ==
    /\ choice = NoChoice
    /\ merchant < MaxMerchant
    /\ merchant' = merchant + 1
    /\ choice' = [tier |-> tier, item |-> item,
                  branch |-> IF ~row THEN "insert"
                             ELSE IF plan # tier \/ resetAt = "null" THEN "restart" ELSE "keep"]
    /\ UNCHANGED <<settings, billing, caller, month, expiries, history>>

\* ... and the write.  The line item is overwritten, also with nothing.  An INSERT that
\* finds a row by now fails, an UPDATE that finds none changes nothing, and either may
\* fail for some other reason.
WritePlan ==
    /\ choice # NoChoice
    /\ choice' = NoChoice
    /\ \/ UNCHANGED <<settings, history>>
       \/ /\ row # (choice.branch = "insert")
          /\ row' = TRUE
          /\ plan' = choice.tier
          /\ lineItem' = choice.item
          /\ IF choice.branch = "keep"
             THEN KeepPeriod(choice.tier) /\ UNCHANGED resetAt
             ELSE NewPeriod(choice.tier) /\ resetAt' = "future"
    /\ UNCHANGED <<billing, caller, world>>

FreshRow(present) ==
    /\ row' = present
    /\ plan' = 0
    /\ lineItem' = FALSE
    /\ sent' = 0
    /\ resetAt' = "null"
    /\ peak' = 0
    /\ excess' = 0
    /\ UNCHANGED period

\* SaveSettings on a shop without a row: the plan columns take their defaults.
SaveSettings ==
    /\ ~row
    /\ FreshRow(TRUE)
    /\ UNCHANGED <<billing, choice, caller, world>>

\* PurgeShop deletes the row.
PurgeShop ==
    /\ row
    /\ merchant < MaxMerchant
    /\ merchant' = merchant + 1
    /\ FreshRow(FALSE)
    /\ UNCHANGED <<billing, choice, caller, month, expiries>>

LimitExpires ==
    /\ resetAt = "future"
    /\ expiries < MaxExpiries
    /\ expiries' = expiries + 1
    /\ resetAt' = "past"
    /\ UNCHANGED <<row, plan, lineItem, sent, billing, choice, caller, month, merchant, history>>

NextMonth ==
    /\ month < MaxMonth
    /\ month' = month + 1
    /\ UNCHANGED <<settings, billing, choice, caller, expiries, merchant, history>>

-----------------------------------------------------------------------------
(* One caller.                                                             *)

Goto(c, l) == pc' = [pc EXCEPT ![c] = l] /\ UNCHANGED <<kind, seen, via>>

Return(c) ==
    /\ pc' = [pc EXCEPT ![c] = "idle"]
    /\ kind' = [kind EXCEPT ![c] = "view"]
    /\ seen' = [seen EXCEPT ![c] = Unread]
    /\ via' = [via EXCEPT ![c] = "none"]

\* The message will be sent, let through by v.
GoSend(c, v) ==
    /\ pc' = [pc EXCEPT ![c] = "send"]
    /\ via' = [via EXCEPT ![c] = v]
    /\ seen' = [seen EXCEPT ![c] = Unread]
    /\ UNCHANGED kind

\* GetSettings and CanSendWhatsAppMessage begin with CheckAndResetPlanLimits; a reply
\* goes straight to its send.
Start(c, k) ==
    /\ pc[c] = "idle"
    /\ k # "view" => sent < MaxSent
    /\ kind' = [kind EXCEPT ![c] = k]
    /\ pc' = [pc EXCEPT ![c] = IF k = "reply" THEN "send" ELSE "check"]
    /\ via' = [via EXCEPT ![c] = IF k = "reply" THEN "unchecked" ELSE "none"]
    /\ UNCHANGED <<settings, billing, choice, seen, world, history>>

AfterReset(c) ==
    IF pc[c] \in {"countCheck", "countReset"} THEN Goto(c, "count")
    ELSE IF kind[c] = "view" THEN Return(c) ELSE Goto(c, "query")

\* CheckAndResetPlanLimits, the SELECT: is limit_reset_at past?  Nothing is reset when it
\* is not, or when the read fails.
CheckReset(c) ==
    /\ pc[c] \in {"check", "countCheck"}
    /\ \/ row /\ resetAt = "past" /\ Goto(c, IF pc[c] = "check" THEN "reset" ELSE "countReset")
       \/ AfterReset(c)
    /\ UNCHANGED <<settings, billing, choice, world, history>>

\* limit_reset_at moves on by months until it is ahead of the clock.
NextResetOnce == "past"
NextReset == "future"

\* CheckAndResetPlanLimits, the UPDATE: unconditional, whatever happened since the SELECT.
ResetLimits(c) ==
    /\ pc[c] \in {"reset", "countReset"}
    /\ AfterReset(c)
    /\ \/ row /\ NewPeriod(plan) /\ resetAt' = NextReset
       \/ UNCHANGED <<sent, resetAt, history>>
    /\ UNCHANGED <<row, plan, lineItem, billing, choice, world>>

UnderLimitLax == ~row \/ LimitOf[plan] = -1 \/ sent <= LimitOf[plan]
UnderLimit == ~row \/ LimitOf[plan] = -1 \/ sent < LimitOf[plan]

\* NextPlanKey is not empty.
HasNextAlways == TRUE
HasNext == plan < Top

\* A failed read or charge leaves the error to the caller: the endpoint stops, the worker
\* logs it and sends.
AfterErrorUpgrade(c) == Goto(c, "upgrade")
AfterError(c) == IF kind[c] = "worker" THEN GoSend(c, "error") ELSE Return(c)

\* CanSendWhatsAppMessage, the SELECT and its answers: an error; send; pause, on the top
\* tier; or upgrade, through a charge if the row has a line item.
QueryLimit(c) ==
    /\ pc[c] = "query"
    /\ \/ AfterError(c)
       \/ UnderLimit /\ GoSend(c, "allowed")
       \/ ~UnderLimit /\ ~HasNext /\ Return(c)
       \/ /\ ~UnderLimit /\ HasNext
          /\ pc' = [pc EXCEPT ![c] = IF lineItem THEN "charge" ELSE "upgrade"]
          /\ seen' = [seen EXCEPT ![c] = [tier |-> plan, item |-> lineItem]]
          /\ UNCHANGED <<kind, via>>
    /\ UNCHANGED <<settings, billing, choice, world, history>>

FullPrice(tier) == PriceOf[tier]
Amount(tier) == Max({0, PriceOf[tier] - PriceOf[tier - 1]})

\* createUsageCharge: Shopify records a key (tier and calendar month) once.
Record(tier) ==
    charges' = IF \E r \in charges : r.tier = tier /\ r.month = month
               THEN charges
               ELSE charges \cup {[tier |-> tier, month |-> month, amount |-> Amount(tier)]}

\* A price that does not rise is not charged; an answer that is lost may hide a record.
Charge(c) ==
    LET next == seen[c].tier + 1 IN
    /\ pc[c] = "charge"
    /\ \/ /\ IF Amount(next) > 0 THEN Record(next) ELSE UNCHANGED charges
          /\ Goto(c, "upgrade")
       \/ /\ Amount(next) > 0
          /\ Record(next) \/ UNCHANGED charges
          /\ AfterError(c)
    /\ UNCHANGED <<settings, upgrades, choice, world, history>>

\* autoUpgradeOnLimit, the UPDATE: it writes the tier after the one the caller read,
\* whatever the row holds by now.
Upgrade(c) ==
    LET next == seen[c].tier + 1 IN
    /\ pc[c] = "upgrade"
    /\ \/ row /\ plan' = next /\ KeepPeriod(next)
       \/ UNCHANGED <<plan, sent, history>>
    /\ Goto(c, "log")
    /\ UNCHANGED <<row, lineItem, resetAt, billing, choice, world>>

\* ... and the log row.  The message is sent whether or not either was written.
LogUpgrade(c) ==
    LET next == seen[c].tier + 1
        entry == [from |-> seen[c].tier, to |-> next, charged |-> Amount(next)]
    IN  /\ pc[c] = "log"
        /\ \/ upgrades' = upgrades \cup {entry} /\ seen[c].item /\ Amount(next) > 0
           \/ UNCHANGED upgrades
        /\ GoSend(c, "upgraded")
        /\ UNCHANGED <<settings, charges, choice, world, history>>

\* The message goes out, or fails and is not counted.
Send(c) ==
    /\ pc[c] = "send"
    /\ Goto(c, "countCheck") \/ Return(c)
    /\ UNCHANGED <<settings, billing, choice, world, history>>

\* IncrementSentMessages, after its own CheckAndResetPlanLimits.
Count(c) ==
    /\ pc[c] = "count"
    /\ \/ row /\ sent' = sent + 1 /\ excess' = IF via[c] = "allowed" THEN excess ELSE excess + 1
       \/ UNCHANGED <<sent, excess>>
    /\ Return(c)
    /\ UNCHANGED <<row, plan, lineItem, resetAt, billing, choice, world, period, peak>>

-----------------------------------------------------------------------------
Step(c) ==
    \/ \E k \in Kinds : Start(c, k)
    \/ CheckReset(c) \/ ResetLimits(c) \/ QueryLimit(c) \/ Charge(c)
    \/ Upgrade(c) \/ LogUpgrade(c) \/ Send(c) \/ Count(c)

Next ==
    \/ \E c \in Callers : Step(c)
    \/ \E tier \in Tiers, item \in BOOLEAN : ChoosePlan(tier, item)
    \/ WritePlan \/ SaveSettings \/ PurgeShop \/ LimitExpires \/ NextMonth

Spec == Init /\ [][Next]_vars

-----------------------------------------------------------------------------
(* Properties.                                                             *)

\* Every variable has its type, and a caller that upgrades read a tier below the top.
TypeOK ==
    /\ row \in BOOLEAN /\ plan \in Tiers /\ lineItem \in BOOLEAN /\ sent \in Nat
    /\ resetAt \in {"null", "future", "past"}
    /\ charges \subseteq [tier : Tiers, month : 0..MaxMonth, amount : Nat]
    /\ upgrades \subseteq [from : Tiers, to : Tiers, charged : Nat]
    /\ choice \in [branch : {"none", "insert", "restart", "keep"}, tier : Tiers, item : BOOLEAN]
    /\ pc \in [Callers -> PCs] /\ kind \in [Callers -> AllKinds] /\ via \in [Callers -> Vias]
    /\ seen \in [Callers -> [tier : Tiers, item : BOOLEAN]]
    /\ month \in 0..MaxMonth /\ expiries \in 0..MaxExpiries /\ merchant \in 0..MaxMerchant
    /\ period \in Nat /\ peak \in Tiers /\ excess \in Nat
    /\ \A c \in Callers : pc[c] \in {"charge", "upgrade", "log"} => seen[c].tier < Top

\* CanSendWhatsAppMessage checks, IncrementSentMessages counts, and nothing holds the row
\* in between.  Still the count passes the allowance of the highest tier of the period
\* only by messages that no check allowed (replies, upgrades, failed charges) and by
\* checks that overlapped, fewer than the callers at once.  On a tier that allows nothing
\* a new period may still count what was checked in the one before: one for each caller.
OvershootExplained ==
    \E t \in 0..peak :
        LimitOf[t] = -1 \/ sent < Max({1, LimitOf[t]}) + Cardinality(Callers) + excess

\* CheckAndResetPlanLimits decides on a read and resets later, so one expiry can reset
\* the count more than once, losing what was counted in between; but at most once for
\* each caller that was between the two.
ResetsPerExpiry == period <= merchant + expiries * Cardinality(Callers)

\* billing.go:29-31: the charges of a month never exceed the climb from the free tier to
\* the top, for which the merchant's approved cap leaves room, although failed charges
\* are retried, plans are chosen anew and callers charge at the same time.
UsageWithinClimb ==
    \A m \in 0..MaxMonth :
        MapThenSumSet(LAMBDA r : r.amount, {r \in charges : r.month = m}) <= PriceOf[Top]

\* An upgrade logged as paid has its charge on record, though the charge, the plan and
\* the log are written one after another and callers upgrade at the same time.
PaidUpgradeIsCharged ==
    \A u \in upgrades : u.charged > 0 => \E r \in charges : r.tier = u.to
=============================================================================
