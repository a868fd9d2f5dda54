---------------------------- MODULE Confirmation ----------------------------
(***************************************************************************)
(* The conversation that confirms or cancels an order: one shop, one      *)
(* customer, and the single row that pending_confirmations holds for them *)
(* (UNIQUE(shop_domain, phone)).                                          *)
(*                                                                         *)
(* An order webhook queues the confirmation poll and stores the row; a    *)
(* poll vote pops it (a SELECT and, later, a DELETE by phone), may store  *)
(* the row of a second question ("really cancel?"), answers the customer  *)
(* and asks for an order tag.  Webhooks run beside the vote handlers.     *)
(*                                                                         *)
(* The options of a question are texts of a template, the same for every  *)
(* order: a vote carries the question (1 or 2) and the option, and not    *)
(* the order.  A plain text, and a vote withdrawn, carry nothing (nil).   *)
(***************************************************************************)
EXTENDS Naturals, FiniteSets, FiniteSetsExt

CONSTANTS
    Orders,        \* the customer's orders
    Handlers,      \* message events handled at once
    NoOrder,
    MaxStores,     \* bound on the times one order's row is stored (COD, redelivered webhooks)
    MaxVotes,      \* bound on votes
    MaxLostWrites  \* bound on database writes whose error the code drops

ASSUME ConfirmationAssumption ==
    /\ NoOrder \notin Orders
    /\ IsFiniteSet(Orders) /\ IsFiniteSet(Handlers)
    /\ {MaxStores, MaxVotes, MaxLostWrites} \subseteq Nat

VARIABLES
    entry,      \* the row: its order, question, whether question 2 is set up, expiry
    webhook,    \* order-created triggers between the queued poll and the stored row
    asked,      \* questions the customer has ever received as a poll
    stores,     \* rows stored by order triggers so far, per order
    cancelled,  \* orders whose cancellation webhook has been handled
    pc,         \* where each vote handler is
    got,        \* the row it read
    branch,     \* "yes", "no" or "help": pc.VotedBranch
    tags,       \* history: tags asked for, per order
    confirms,   \* history: times the tag was FlowTagConfirmed
    cancels,    \* history: times it was FlowTagCancelled
    cast,       \* history: votes cast, per question and option
    lost        \* lost writes so far

table   == <<entry, webhook, stores, cancelled>>
handler == <<pc, got, branch>>
history == <<tags, confirms, cancels>>
vars    == <<table, asked, handler, history, cast, lost>>

Branches == {"yes", "no", "help"}
Votes == (1..2) \X Branches
PCs == {"idle", "popped", "step2", "reply", "tag"}

NoEntry == [order |-> NoOrder, question |-> 1, flow |-> FALSE, live |-> FALSE]
Entries == [order : Orders, question : 1..2, flow : BOOLEAN, live : BOOLEAN] \cup {NoEntry}

Init ==
    /\ entry = NoEntry
    /\ webhook = [o \in Orders |-> FALSE]
    /\ asked = {}
    /\ stores = [o \in Orders |-> 0]
    /\ cancelled = {}
    /\ pc = [h \in Handlers |-> "idle"]
    /\ got = [h \in Handlers |-> NoEntry]
    /\ branch = [h \in Handlers |-> "yes"]
    /\ tags = [o \in Orders |-> 0]
    /\ confirms = 0
    /\ cancels = 0
    /\ cast = [v \in Votes |-> 0]
    /\ lost = 0

LoseWrite == lost < MaxLostWrites /\ lost' = lost + 1

-----------------------------------------------------------------------------
(* Webhooks, the worker and the clock.                                     *)

\* OrderCreated, or one of the extra triggers of the same order (cash on delivery), up
\* to its EnqueueJob.
Trigger(o) ==
    /\ ~webhook[o]
    /\ stores[o] < MaxStores
    /\ webhook' = [webhook EXCEPT ![o] = TRUE]
    /\ UNCHANGED <<entry, stores, cancelled, asked, handler, history, cast, lost>>

\* ... and its StorePendingConfirmationExtended, an upsert: whatever the row held is
\* replaced.  The cancellation question is set up if the merchant enabled it.
StoreEntry(o) ==
    /\ webhook[o]
    /\ webhook' = [webhook EXCEPT ![o] = FALSE]
    /\ \/ /\ \E flow \in BOOLEAN :
                entry' = [order |-> o, question |-> 1, flow |-> flow, live |-> TRUE]
          /\ stores' = [stores EXCEPT ![o] = @ + 1]
          /\ UNCHANGED lost
       \/ /\ LoseWrite
          /\ UNCHANGED <<entry, stores>>
    /\ UNCHANGED <<cancelled, asked, handler, history, cast>>

\* The worker delivers a queued confirmation poll.
PollDelivered ==
    /\ \E o \in Orders : webhook[o] \/ stores[o] > 0
    /\ asked' = asked \cup {1}
    /\ UNCHANGED <<table, handler, history, cast, lost>>

\* OrderCancelled: the row is voided, by phone, but only on the way to an automation:
\* processOrder returns before that when no order_cancelled automation is active (they
\* are inactive until the merchant enables one).  It may arrive before the order's own
\* webhook.
CancelVoids(active) == active
OrderCancelled(o, active) ==
    /\ o \notin cancelled
    /\ cancelled' = cancelled \cup {o}
    /\ \/ /\ entry' = IF CancelVoids(active) THEN NoEntry ELSE entry
          /\ UNCHANGED lost
       \/ /\ active
          /\ LoseWrite
          /\ UNCHANGED entry
    /\ UNCHANGED <<webhook, stores, asked, handler, history, cast>>

\* expires_at passes; the row stays where it is.
Expire ==
    /\ entry.live
    /\ entry' = [entry EXCEPT !.live = FALSE]
    /\ UNCHANGED <<webhook, stores, cancelled, asked, handler, history, cast, lost>>

-----------------------------------------------------------------------------
(* One message event.                                                      *)

Goto(h, l) == pc' = [pc EXCEPT ![h] = l] /\ UNCHANGED <<got, branch>>

Return(h) ==
    /\ pc' = [pc EXCEPT ![h] = "idle"]
    /\ got' = [got EXCEPT ![h] = NoEntry]
    /\ branch' = [branch EXCEPT ![h] = "yes"]

\* The row answers a vote on its own question.  It answers a text (question 0) only if
\* it has no trigger option, and every row this code stores has one.
AnswersTextToo(q) == entry.live /\ q \in {0, entry.question}
Answers(q) == entry.live /\ q = entry.question

\* handleEvent, then PopPendingConfirmation up to its DELETE: a vote for option b of
\* question q, or a text.  A row that does not match is left alone.
Event(h, q, b) ==
    /\ pc[h] = "idle"
    /\ IF q = 0 THEN UNCHANGED cast
       ELSE /\ q \in asked
            /\ SumFunction(cast) < MaxVotes
            /\ cast' = [cast EXCEPT ![<<q, b>>] = @ + 1]
    /\ IF Answers(q)
       THEN /\ pc' = [pc EXCEPT ![h] = "popped"]
            /\ got' = [got EXCEPT ![h] = entry]
            /\ branch' = [branch EXCEPT ![h] = b]
       ELSE UNCHANGED handler
    /\ UNCHANGED <<table, asked, history, lost>>

RowKept == entry
RowDeleted == NoEntry

\* The DELETE of PopPendingConfirmation: by phone, whatever the row holds by now; an
\* error is dropped.
DeleteRow(h) ==
    /\ pc[h] = "popped"
    /\ \/ /\ entry' = RowDeleted
          /\ UNCHANGED lost
       \/ /\ LoseWrite
          /\ UNCHANGED entry
    /\ Goto(h, IF branch[h] = "no" /\ got[h].flow THEN "step2" ELSE "reply")
    /\ UNCHANGED <<webhook, stores, cancelled, asked, history, cast>>

Step2Anonymous(o) == [order |-> NoOrder, question |-> 2, flow |-> FALSE, live |-> TRUE]
Step2(o) == [order |-> o, question |-> 2, flow |-> FALSE, live |-> TRUE]

\* "No" to the first question: the row of the second one is stored, an upsert again.
StoreStep2(h) ==
    /\ pc[h] = "step2"
    /\ \/ /\ entry' = Step2(got[h].order)
          /\ UNCHANGED lost
       \/ /\ LoseWrite
          /\ UNCHANGED entry
    /\ Goto(h, "reply")
    /\ UNCHANGED <<webhook, stores, cancelled, asked, history, cast>>

\* dispatchPendingReply: with the cancellation flow on, the answer to "no" is the poll
\* of the second question.  A failed send is only logged.
Reply(h) ==
    /\ pc[h] = "reply"
    /\ asked' \in {asked, IF branch[h] = "no" /\ got[h].flow THEN asked \cup {2} ELSE asked}
    /\ Goto(h, "tag")
    /\ UNCHANGED <<table, history, cast, lost>>

Confirms(h) == <<got[h].question, branch[h]>> \in {<<1, "yes">>, <<2, "no">>}
Cancels(h) == <<got[h].question, branch[h]>> = <<2, "yes">>

\* The tag of the branch voted is handed to a goroutine of SetOrderLifecycleTag.
AskForTag(h) ==
    /\ pc[h] = "tag"
    /\ tags' = IF Confirms(h) \/ Cancels(h) THEN [tags EXCEPT ![got[h].order] = @ + 1] ELSE tags
    /\ confirms' = IF Confirms(h) THEN confirms + 1 ELSE confirms
    /\ cancels' = IF Cancels(h) THEN cancels + 1 ELSE cancels
    /\ Return(h)
    /\ UNCHANGED <<table, asked, cast, lost>>

-----------------------------------------------------------------------------
\* The process dies: handlers and webhooks under way are gone, the row stays.
Restart ==
    /\ webhook' = [o \in Orders |-> FALSE]
    /\ pc' = [h \in Handlers |-> "idle"]
    /\ got' = [h \in Handlers |-> NoEntry]
    /\ branch' = [h \in Handlers |-> "yes"]
    /\ UNCHANGED <<entry, stores, cancelled, asked, history, cast, lost>>

Handle(h) ==
    \/ \E v \in Votes : Event(h, v[1], v[2])
    \/ Event(h, 0, "yes")
    \/ DeleteRow(h) \/ StoreStep2(h) \/ Reply(h) \/ AskForTag(h)

Next ==
    \/ \E o \in Orders : Trigger(o) \/ StoreEntry(o)
    \/ \E o \in Orders, active \in BOOLEAN : OrderCancelled(o, active)
    \/ \E h \in Handlers : Handle(h)
    \/ PollDelivered
    \/ Expire
    \/ Restart

Spec == Init /\ [][Next]_vars

-----------------------------------------------------------------------------
(* Properties.                                                             *)

\* Every variable has its type.
TypeOK ==
    /\ entry \in Entries
    /\ webhook \in [Orders -> BOOLEAN]
    /\ asked \subseteq 1..2
    /\ stores \in [Orders -> 0..MaxStores]
    /\ cancelled \subseteq Orders
    /\ pc \in [Handlers -> PCs]
    /\ got \in [Handlers -> Entries]
    /\ branch \in [Handlers -> Branches]
    /\ tags \in [Orders -> Nat]
    /\ confirms \in Nat /\ cancels \in Nat
    /\ cast \in [Votes -> Nat]
    /\ lost \in 0..MaxLostWrites

\* Nobody's order is confirmed or cancelled for him: each tag the conversation asks for
\* has a vote of its own, and a cancellation has two, the "yes" to the second question
\* and (unless a DELETE was lost) a "no" to the first, however votes, texts, webhooks and
\* restarts are ordered.
DecisionsAreVoted ==
    /\ confirms <= cast[<<1, "yes">>] + cast[<<2, "no">>]
    /\ cancels <= cast[<<1, "no">>] + lost
    /\ cancels <= cast[<<2, "yes">>]

\* One stored question leads to at most one tag, through both steps of the conversation:
\* more than that takes a DELETE that was lost.
AnsweredOnce ==
    \A o \in Orders : tags[o] <= stores[o] + lost
=============================================================================
