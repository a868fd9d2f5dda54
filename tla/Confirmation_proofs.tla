-------------------------- MODULE Confirmation_proofs --------------------------
(***************************************************************************)
(* For any orders, votes and webhooks: the row and its handlers keep      *)
(* their types, and, when the library hands out the customer's messages   *)
(* one at a time, a stored question leads to one tag at most and no tag   *)
(* is without its votes.                                                  *)
(*                                                                         *)
(* The second counts, for each order, the tags asked for together with    *)
(* the answer that is still open (Open): in the row, or in the hand of    *)
(* the handler.  While the handler has read the row and has not deleted   *)
(* it the two are one answer, which is why a second handler at that point *)
(* would break it.  The third counts, with the cancellations, the second  *)
(* question as long as it can be answered (Doubted) and the refusal that  *)
(* will store it (Refused).                                               *)
(***************************************************************************)
EXTENDS Confirmation, TLAPS

Rows == [order : Orders, question : 1..2, flow : BOOLEAN, live : BOOLEAN]

(* A webhook on its way may store its row, a handler at work has an       *)
(* order, and only a first question has a second one set up.              *)
IInv ==
    /\ TypeOK
    /\ \A o \in Orders : webhook[o] => stores[o] < MaxStores
    /\ entry.flow => entry.question = 1
    /\ \A h \in Handlers :
         /\ pc[h] # "idle" => got[h] \in Rows
         /\ got[h].flow => got[h].question = 1
         /\ pc[h] = "step2" => branch[h] = "no" /\ got[h].flow

LEMMA EntryParts ==
  /\ NoEntry \in Entries /\ NoEntry \notin Rows /\ NoEntry.order = NoOrder
  /\ ~NoEntry.live /\ ~NoEntry.flow
  /\ \A e \in Entries : e \in Rows <=> e.order \in Orders
  /\ \A e \in Entries : e.live => e \in Rows
  /\ Rows \subseteq Entries
BY ConfirmationAssumption DEF NoEntry, Entries, Rows

LEMMA InitIInv == Init => IInv
<1>1. "idle" \in PCs /\ "yes" \in Branches
  BY DEF PCs, Branches
<1>2. 0 \in 0..MaxStores /\ 0 \in 0..MaxLostWrites
  BY ConfirmationAssumption
<1> SUFFICES ASSUME Init PROVE IInv
  OBVIOUS
<1>3. TypeOK
  BY <1>1, <1>2, EntryParts DEF Init, TypeOK
<1>4. QED
  BY <1>3, EntryParts DEF Init, IInv

LEMMA TriggerIInv ==
  ASSUME IInv, NEW o \in Orders, Trigger(o) PROVE IInv'
BY DEF IInv, TypeOK, Trigger, handler, history

LEMMA StoreEntryIInv ==
  ASSUME IInv, NEW o \in Orders, StoreEntry(o) PROVE IInv'
<1> USE DEF handler, history
<1>1. /\ webhook' = [webhook EXCEPT ![o] = FALSE] /\ webhook[o]
      /\ UNCHANGED <<cancelled, asked, pc, got, branch, tags, confirms, cancels, cast>>
  BY DEF StoreEntry
<1>2. /\ entry' \in Entries /\ (entry'.flow => entry'.question = 1)
      /\ stores' \in [Orders -> 0..MaxStores]
      /\ \A q \in Orders \ {o} : stores'[q] = stores[q]
      /\ lost' \in 0..MaxLostWrites
  <2>1. CASE LoseWrite /\ UNCHANGED <<entry, stores>>
    BY <2>1, ConfirmationAssumption DEF LoseWrite, IInv, TypeOK
  <2>2. ASSUME NEW flow \in BOOLEAN,
               entry' = [order |-> o, question |-> 1, flow |-> flow, live |-> TRUE],
               stores' = [stores EXCEPT ![o] = @ + 1], lost' = lost
        PROVE  <1>2!1 /\ <1>2!2 /\ <1>2!3 /\ <1>2!4
    <3>1. entry' \in Rows /\ entry'.question = 1
      BY <2>2 DEF Rows
    <3>2. stores[o] < MaxStores
      BY <1>1 DEF IInv
    <3>3. QED
      BY <2>2, <3>1, <3>2, EntryParts, ConfirmationAssumption DEF IInv, TypeOK
  <2>3. QED
    BY <2>1, <2>2 DEF StoreEntry
<1>3. QED
  BY <1>1, <1>2 DEF IInv, TypeOK

(* A step that changes the row, the questions asked or the counts only.   *)
LEMMA RowIInv ==
  ASSUME IInv, entry' \in Entries, entry'.flow => entry'.question = 1,
         cancelled' \subseteq Orders, asked' \subseteq 1..2, lost' \in 0..MaxLostWrites,
         UNCHANGED <<webhook, stores, handler, history, cast>>
  PROVE  IInv'
BY DEF IInv, TypeOK, handler, history

LEMMA RestartIInv ==
  ASSUME IInv, Restart PROVE IInv'
BY EntryParts DEF Restart, IInv, TypeOK, history, PCs, Branches

(* A step of one handler.                                                 *)
LEMMA HandlerIInv ==
  ASSUME IInv, NEW h \in Handlers, NEW l \in PCs, NEW r \in Entries, NEW b \in Branches,
         pc' = [pc EXCEPT ![h] = l], got' = [got EXCEPT ![h] = r],
         branch' = [branch EXCEPT ![h] = b],
         l # "idle" => r \in Rows,
         r.flow => r.question = 1,
         l = "step2" => b = "no" /\ r.flow,
         entry' \in Entries, entry'.flow => entry'.question = 1,
         asked' \subseteq 1..2, lost' \in 0..MaxLostWrites,
         tags' \in [Orders -> Nat], confirms' \in Nat, cancels' \in Nat, cast' \in [Votes -> Nat],
         UNCHANGED <<webhook, stores, cancelled>>
  PROVE  IInv'
BY DEF IInv, TypeOK

LEMMA GotoIInv ==
  ASSUME IInv, NEW h \in Handlers, NEW l \in PCs, Goto(h, l), pc[h] # "idle",
         l = "step2" => branch[h] = "no" /\ got[h].flow,
         entry' \in Entries, entry'.flow => entry'.question = 1,
         asked' \subseteq 1..2, lost' \in 0..MaxLostWrites,
         UNCHANGED <<webhook, stores, cancelled, history, cast>>
  PROVE  IInv'
BY DEF IInv, TypeOK, Goto, history

LEMMA EventIInv ==
  ASSUME IInv, NEW h \in Handlers, NEW q \in 0..2, NEW b \in Branches, Event(h, q, b)
  PROVE  IInv'
<1>1. cast' \in [Votes -> Nat]
  <2>1. CASE q = 0
    BY <2>1 DEF Event, IInv, TypeOK
  <2>2. CASE q # 0
    <3>1. <<q, b>> \in Votes /\ cast' = [cast EXCEPT ![<<q, b>>] = @ + 1]
      BY <2>2 DEF Event, Votes
    <3>2. QED
      BY <3>1 DEF IInv, TypeOK
  <2>3. QED
    BY <2>1, <2>2
<1>2. UNCHANGED <<table, asked, history, lost>>
  BY DEF Event
<1>3. CASE Answers(q)
  <2>1. /\ pc' = [pc EXCEPT ![h] = "popped"] /\ got' = [got EXCEPT ![h] = entry]
        /\ branch' = [branch EXCEPT ![h] = b]
    BY <1>3 DEF Event
  <2>2. entry \in Rows
    BY <1>3, EntryParts DEF Answers, IInv, TypeOK
  <2>3. QED
    BY <1>1, <1>2, <2>1, <2>2 DEF IInv, TypeOK, PCs, table, history
<1>4. CASE ~Answers(q)
  BY <1>1, <1>2, <1>4 DEF Event, IInv, TypeOK, table, handler, history
<1>5. QED
  BY <1>3, <1>4

LEMMA HandleIInv ==
  ASSUME IInv, NEW h \in Handlers, Handle(h)
  PROVE  IInv'
<1> USE DEF table, history
<1>1. /\ entry \in Entries /\ (entry.flow => entry.question = 1)
      /\ asked \subseteq 1..2 /\ lost \in 0..MaxLostWrites
      /\ tags \in [Orders -> Nat] /\ confirms \in Nat /\ cancels \in Nat /\ cast \in [Votes -> Nat]
  BY DEF IInv, TypeOK
<1>2. LoseWrite => lost' \in 0..MaxLostWrites
  BY <1>1, ConfirmationAssumption DEF LoseWrite
<1>3. ASSUME NEW v \in Votes, Event(h, v[1], v[2]) PROVE IInv'
  <2>1. v[1] \in 0..2 /\ v[2] \in Branches
    BY DEF Votes
  <2>2. QED
    BY <1>3, <2>1, EventIInv
<1>4. CASE Event(h, 0, "yes")
  BY <1>4, EventIInv DEF Branches
<1>5. CASE DeleteRow(h)
  <2>1. /\ entry' \in Entries /\ (entry'.flow => entry'.question = 1) /\ lost' \in 0..MaxLostWrites
    BY <1>1, <1>2, <1>5, EntryParts DEF DeleteRow, RowDeleted
  <2>2. PICK l \in {"step2", "reply"} : Goto(h, l) /\ (l = "step2" => branch[h] = "no" /\ got[h].flow)
    BY <1>5 DEF DeleteRow
  <2>3. QED
    BY <1>1, <1>5, <2>1, <2>2, GotoIInv DEF DeleteRow, PCs
<1>6. CASE StoreStep2(h)
  <2>1. got[h].order \in Orders
    BY <1>6, EntryParts DEF StoreStep2, IInv, TypeOK, Rows
  <2>2. Step2(got[h].order) \in Rows /\ ~Step2(got[h].order).flow
    BY <2>1 DEF Step2, Rows
  <2>3. /\ entry' \in Entries /\ (entry'.flow => entry'.question = 1) /\ lost' \in 0..MaxLostWrites
    BY <1>1, <1>2, <1>6, <2>2, EntryParts DEF StoreStep2
  <2>4. QED
    BY <1>1, <1>6, <2>3, GotoIInv DEF StoreStep2, PCs
<1>7. CASE Reply(h)
  <2>1. asked' \subseteq 1..2
    BY <1>1, <1>7 DEF Reply
  <2>2. QED
    BY <1>1, <1>7, <2>1, GotoIInv DEF Reply, PCs
<1>8. CASE AskForTag(h)
  <2>1. tags' \in [Orders -> Nat] /\ confirms' \in Nat /\ cancels' \in Nat
    <3>1. got[h].order \in Orders
      BY <1>8 DEF AskForTag, IInv, Rows
    <3>2. QED
      BY <1>1, <1>8, <3>1 DEF AskForTag
  <2>2. /\ pc' = [pc EXCEPT ![h] = "idle"] /\ got' = [got EXCEPT ![h] = NoEntry]
        /\ branch' = [branch EXCEPT ![h] = "yes"] /\ UNCHANGED <<table, asked, cast, lost>>
    BY <1>8 DEF AskForTag, Return
  <2>3. QED
    BY <1>1, <2>1, <2>2, EntryParts, HandlerIInv DEF PCs, Branches
<1>9. QED
  BY <1>3, <1>4, <1>5, <1>6, <1>7, <1>8 DEF Handle

LEMMA NextIInv == IInv /\ [Next]_vars => IInv'
<1> SUFFICES ASSUME IInv, [Next]_vars PROVE IInv'
  OBVIOUS
<1> USE DEF table
<1>1. ASSUME NEW o \in Orders, NEW active \in BOOLEAN, OrderCancelled(o, active) PROVE IInv'
  <2>1. /\ entry' \in Entries /\ (entry'.flow => entry'.question = 1) /\ lost' \in 0..MaxLostWrites
    BY <1>1, EntryParts, ConfirmationAssumption DEF OrderCancelled, LoseWrite, CancelVoids, IInv, TypeOK
  <2>2. QED
    BY <1>1, <2>1, RowIInv DEF OrderCancelled, IInv, TypeOK
<1>2. CASE PollDelivered
  BY <1>2, RowIInv DEF PollDelivered, IInv, TypeOK
<1>3. CASE Expire
  <2>1. entry \in Rows /\ entry' = [entry EXCEPT !.live = FALSE]
    BY <1>3, EntryParts DEF Expire, IInv, TypeOK
  <2>2. entry' \in Rows /\ entry'.flow = entry.flow /\ entry'.question = entry.question
    BY <2>1 DEF Rows
  <2>3. QED
    BY <1>3, <2>2, EntryParts, RowIInv DEF Expire, IInv, TypeOK
<1>4. CASE UNCHANGED vars
  BY <1>4 DEF vars, IInv, TypeOK, handler, history
<1>5. QED
  BY <1>1, <1>2, <1>3, <1>4, TriggerIInv, StoreEntryIInv, HandleIInv, RestartIInv DEF Next

LEMMA Invariance == Spec => []IInv
BY InitIInv, NextIInv, PTL DEF Spec

(* The row, the webhooks and the handlers keep their types: a second      *)
(* question is always one of an order.                                    *)
THEOREM ConversationTypeCorrect == Spec => []TypeOK
<1>1. IInv => TypeOK
  BY DEF IInv
<1>2. QED
  BY <1>1, Invariance, PTL
-----------------------------------------------------------------------------
(* The answers to an order's question that are still open.                *)

OneAtATime == \A g, h \in Handlers : g = h

Decides(h) == Confirms(h) \/ Cancels(h)

Rowed(o) == entry.order = o \/ \E h \in Handlers : pc[h] = "popped" /\ got[h].order = o

Held(o) == \E h \in Handlers :
    /\ got[h].order = o
    /\ pc[h] = "step2" \/ (pc[h] \in {"reply", "tag"} /\ Decides(h))

Open(o) == (IF Rowed(o) THEN 1 ELSE 0) + (IF Held(o) THEN 1 ELSE 0)

Counted == \A o \in Orders : tags[o] + Open(o) <= stores[o] + lost

(* What is counted grows no faster than what it is counted against.       *)
LEMMA CountGrows ==
  ASSUME IInv, IInv', Counted,
         \A o \in Orders :
           tags'[o] + Open(o)' - (tags[o] + Open(o))
             <= stores'[o] + lost' - (stores[o] + lost)
  PROVE  Counted'
<1>1. ASSUME NEW o \in Orders
      PROVE  (tags[o] + Open(o) <= stores[o] + lost)'
  <2>1. /\ {tags[o], stores[o], lost} \subseteq Int
        /\ {tags'[o], stores'[o], lost'} \subseteq Int
    BY ConfirmationAssumption DEF IInv, TypeOK
  <2>2. Open(o) \in Int /\ Open(o)' \in Int
    BY DEF Open
  <2>3. tags[o] + Open(o) <= stores[o] + lost
    BY DEF Counted
  <2>4. QED
    BY <2>1, <2>2, <2>3
<1>2. QED
  BY <1>1 DEF Counted

(* A step that leaves tags and stored rows alone, and opens no answer     *)
(* without losing a write for it.                                         *)
LEMMA NoTag ==
  ASSUME IInv, IInv', Counted, UNCHANGED <<stores, tags>>,
         \A o \in Orders : Open(o)' <= Open(o) + (lost' - lost)
  PROVE  Counted'
<1>1. ASSUME NEW o \in Orders
      PROVE  (tags[o] + Open(o) <= stores[o] + lost)'
  <2>1. {tags[o], stores[o], lost, lost'} \subseteq Int
    BY ConfirmationAssumption DEF IInv, TypeOK
  <2>2. Open(o) \in Int /\ Open(o)' \in Int
    BY DEF Open
  <2>3. tags[o] + Open(o) <= stores[o] + lost
    BY DEF Counted
  <2>4. QED
    BY <2>1, <2>2, <2>3
<1>2. QED
  BY <1>1 DEF Counted

(* With one handler, what is open is in the row or in its hand.           *)
LEMMA OpenOfOne ==
  ASSUME OneAtATime, NEW h \in Handlers
  PROVE  \A o \in Orders :
           /\ Rowed(o) <=> (entry.order = o \/ (pc[h] = "popped" /\ got[h].order = o))
           /\ Held(o) <=> (got[h].order = o
                            /\ (pc[h] = "step2" \/ (pc[h] \in {"reply", "tag"} /\ Decides(h))))
           /\ Rowed(o)' <=> (entry'.order = o \/ (pc'[h] = "popped" /\ got'[h].order = o))
           /\ Held(o)' <=> (got'[h].order = o
                             /\ (pc'[h] = "step2" \/ (pc'[h] \in {"reply", "tag"} /\ Decides(h)')))
BY DEF OneAtATime, Rowed, Held

(* Webhooks, the clock and the worker.                                    *)
LEMMA OutsideCounted ==
  ASSUME IInv, IInv', Counted,
         \/ \E o \in Orders : Trigger(o) \/ StoreEntry(o) \/ \E a \in BOOLEAN : OrderCancelled(o, a)
         \/ PollDelivered \/ Expire \/ Restart \/ UNCHANGED vars
  PROVE  Counted'
<1> USE DEF handler, table, history
<1>1. /\ lost \in Nat /\ lost' \in Nat
      /\ entry \in Entries
      /\ \A o \in Orders : Open(o) \in 0..2
      /\ \A o \in Orders : o # NoOrder
  BY ConfirmationAssumption DEF IInv, TypeOK, Open
<1>2. ASSUME UNCHANGED <<pc, got, branch, stores, tags>>,
             lost' \in {lost, lost + 1},
             entry'.order \in {entry.order, NoOrder}
      PROVE  Counted'
  <2>1. ASSUME NEW o \in Orders PROVE Open(o)' <= Open(o)
    <3>1. (Rowed(o)' => Rowed(o)) /\ (Held(o)' <=> Held(o))
      BY <1>1, <1>2 DEF Rowed, Held, Decides, Confirms, Cancels
    <3>2. QED
      BY <3>1 DEF Open
  <2>2. \A o \in Orders : Open(o)' \in Int
    BY DEF Open
  <2>3. QED
    BY <1>1, <1>2, <2>1, <2>2, NoTag
<1>3. ASSUME NEW o \in Orders, StoreEntry(o) PROVE Counted'
  <2>1. CASE lost' = lost + 1 /\ UNCHANGED <<entry, stores>>
    BY <1>2, <1>3, <2>1 DEF StoreEntry
  <2>2. CASE lost' = lost /\ entry'.order = o /\ stores' = [stores EXCEPT ![o] = @ + 1]
    <3>1. UNCHANGED <<pc, got, branch, tags>>
      BY <1>3 DEF StoreEntry
    <3>2. ASSUME NEW q \in Orders
          PROVE  tags'[q] + Open(q)' - (tags[q] + Open(q))
                   <= stores'[q] + lost' - (stores[q] + lost)
      <4>1. (Held(q)' <=> Held(q)) /\ (q # o => (Rowed(q)' => Rowed(q)))
        BY <2>2, <3>1 DEF Rowed, Held, Decides, Confirms, Cancels
      <4>2. Open(q)' <= Open(q) + (IF q = o THEN 1 ELSE 0) /\ Open(q)' \in Int /\ Open(q) \in Int
        BY <4>1 DEF Open
      <4>3. {tags[q], stores[q]} \subseteq Int /\ stores'[q] = stores[q] + (IF q = o THEN 1 ELSE 0)
        BY <2>2, ConfirmationAssumption DEF IInv, TypeOK
      <4>4. QED
        BY <1>1, <2>2, <3>1, <4>2, <4>3
    <3>3. QED
      BY <3>2, CountGrows
  <2>3. QED
    BY <1>3, <2>1, <2>2 DEF StoreEntry, LoseWrite
<1>4. ASSUME NEW o \in Orders, NEW a \in BOOLEAN, OrderCancelled(o, a) PROVE Counted'
  <2>1. entry'.order \in {entry.order, NoOrder}
    BY <1>4 DEF OrderCancelled, NoEntry
  <2>2. QED
    BY <1>2, <1>4, <2>1 DEF OrderCancelled, LoseWrite
<1>5. CASE Expire
  <2>1. entry'.order = entry.order
    BY <1>1, <1>5, EntryParts DEF Expire, Rows
  <2>2. QED
    BY <1>2, <1>5, <2>1 DEF Expire
<1>6. CASE Restart
  <2>1. entry' = entry /\ \A h \in Handlers : pc'[h] = "idle"
    BY <1>6 DEF Restart
  <2>2. ASSUME NEW o \in Orders PROVE Open(o)' <= Open(o) /\ Open(o)' \in Int
    <3>1. (Rowed(o)' => Rowed(o)) /\ ~Held(o)'
      BY <2>1 DEF Rowed, Held
    <3>2. QED
      BY <3>1 DEF Open
  <2>3. QED
    BY <1>1, <1>6, <2>2, NoTag DEF Restart
<1>7. CASE PollDelivered \/ UNCHANGED vars
  BY <1>2, <1>7 DEF PollDelivered, vars
<1>8. ASSUME NEW o \in Orders, Trigger(o) PROVE Counted'
  BY <1>2, <1>8 DEF Trigger
<1>9. QED
  BY <1>3, <1>4, <1>5, <1>6, <1>7, <1>8

(* The handler: an answer goes from the row to its hand, back to the row  *)
(* for the second question, and out as a tag.                             *)
LEMMA HandleCounted ==
  ASSUME OneAtATime, IInv, IInv', Counted, NEW h \in Handlers, Handle(h)
  PROVE  Counted'
<1> USE DEF table, history
<1>1. /\ lost \in Nat /\ lost' \in Nat /\ entry \in Entries
      /\ pc \in [Handlers -> PCs] /\ got \in [Handlers -> Entries] /\ branch \in [Handlers -> Branches]
  BY ConfirmationAssumption DEF IInv, TypeOK
<1>2. \A o \in Orders : o # NoOrder /\ Open(o) \in Int /\ Open(o)' \in Int
  BY ConfirmationAssumption DEF Open
<1>3. ASSUME NEW q \in 0..2, NEW b \in Branches, Event(h, q, b) PROVE Counted'
  <2>1. entry' = entry /\ lost' = lost /\ UNCHANGED <<stores, history>> /\ pc[h] = "idle"
    BY <1>3 DEF Event
  <2>2. ASSUME NEW o \in Orders PROVE (Rowed(o)' => Rowed(o)) /\ (Held(o)' => Held(o))
    <3>1. CASE Answers(q)
      <4>1. pc'[h] = "popped" /\ got'[h] = entry
        BY <1>1, <1>3, <3>1 DEF Event
      <4>2. QED
        BY <2>1, <4>1, OpenOfOne
    <3>2. CASE ~Answers(q)
      BY <1>3, <2>1, <3>2 DEF Event, handler, Rowed, Held, Decides, Confirms, Cancels
    <3>3. QED
      BY <3>1, <3>2
  <2>3. \A o \in Orders : Open(o)' <= Open(o)
    BY <2>2 DEF Open
  <2>4. QED
    BY <1>1, <1>2, <2>1, <2>3, NoTag
<1>4. CASE DeleteRow(h)
  <2>1. pc[h] = "popped" /\ got' = got /\ branch' = branch /\ UNCHANGED <<stores, history>>
    BY <1>4 DEF DeleteRow, Goto
  <2>2. pc'[h] \in {"step2", "reply"}
    BY <1>1, <1>4 DEF DeleteRow, Goto
  <2>3. \/ entry'.order = NoOrder /\ lost' = lost
        \/ entry' = entry /\ lost' = lost + 1
    BY <1>4 DEF DeleteRow, LoseWrite, RowDeleted, NoEntry
  <2>4. ASSUME NEW o \in Orders PROVE Open(o)' <= Open(o) + (lost' - lost)
    <3>1. ~Held(o) /\ (Rowed(o) <=> entry.order = o \/ got[h].order = o)
      BY <2>1, OpenOfOne
    <3>2. (Held(o)' => got[h].order = o) /\ (Rowed(o)' <=> entry'.order = o)
      BY <2>1, <2>2, OpenOfOne
    <3>3. QED
      BY <1>1, <1>2, <2>3, <3>1, <3>2 DEF Open
  <2>5. QED
    BY <2>1, <2>4, NoTag
<1>5. CASE StoreStep2(h)
  <2>1. /\ pc[h] = "step2" /\ got' = got /\ branch' = branch /\ UNCHANGED <<stores, history>>
        /\ pc'[h] = "reply"
    BY <1>1, <1>5 DEF StoreStep2, Goto
  <2>2. branch[h] = "no" /\ got[h].question = 1
    BY <2>1 DEF IInv
  <2>3. ~Decides(h)'
    BY <2>1, <2>2 DEF Decides, Confirms, Cancels
  <2>4. \/ entry'.order = got[h].order /\ lost' = lost
        \/ entry' = entry /\ lost' = lost + 1
    BY <1>5 DEF StoreStep2, LoseWrite, Step2
  <2>5. ASSUME NEW o \in Orders PROVE Open(o)' <= Open(o) + (lost' - lost)
    <3>1. (Held(o) <=> got[h].order = o) /\ (Rowed(o) <=> entry.order = o)
      BY <2>1, OpenOfOne
    <3>2. ~Held(o)' /\ (Rowed(o)' <=> entry'.order = o)
      BY <2>1, <2>3, OpenOfOne
    <3>3. Open(o)' = IF entry'.order = o THEN 1 ELSE 0
      BY <3>2 DEF Open
    <3>4. Open(o) = (IF entry.order = o THEN 1 ELSE 0) + (IF got[h].order = o THEN 1 ELSE 0)
      BY <3>1 DEF Open
    <3>5. CASE entry'.order = got[h].order /\ lost' = lost
      <4>1. Open(o)' <= Open(o)
        BY <3>3, <3>4, <3>5
      <4>2. QED
        BY <1>1, <1>2, <3>5, <4>1
    <3>6. CASE entry' = entry /\ lost' = lost + 1
      <4>1. Open(o)' <= Open(o)
        BY <3>3, <3>4, <3>6
      <4>2. QED
        BY <1>1, <1>2, <3>6, <4>1
    <3>7. QED
      BY <2>4, <3>5, <3>6
  <2>6. QED
    BY <2>1, <2>5, NoTag
<1>6. CASE Reply(h)
  <2>1. /\ pc[h] = "reply" /\ got' = got /\ branch' = branch /\ UNCHANGED <<stores, history>>
        /\ pc'[h] = "tag" /\ entry' = entry /\ lost' = lost
    BY <1>1, <1>6 DEF Reply, Goto
  <2>2. Decides(h)' <=> Decides(h)
    BY <2>1 DEF Decides, Confirms, Cancels
  <2>3. ASSUME NEW o \in Orders PROVE Open(o)' = Open(o)
    <3>1. (Held(o)' <=> Held(o)) /\ (Rowed(o)' <=> Rowed(o))
      BY <2>1, <2>2, OpenOfOne
    <3>2. QED
      BY <3>1 DEF Open
  <2>4. QED
    BY <1>1, <1>2, <2>1, <2>3, NoTag
<1>7. CASE AskForTag(h)
  <2>1. /\ pc[h] = "tag" /\ pc'[h] = "idle" /\ entry' = entry /\ lost' = lost /\ stores' = stores
    BY <1>1, <1>7 DEF AskForTag, Return
  <2>3. ASSUME NEW o \in Orders
        PROVE  tags'[o] + Open(o)' - (tags[o] + Open(o))
                 <= stores'[o] + lost' - (stores[o] + lost)
    <3>1. ~Held(o)' /\ (Rowed(o)' <=> Rowed(o))
      BY <2>1, OpenOfOne
    <3>2. Held(o) <=> got[h].order = o /\ Decides(h)
      BY <2>1, OpenOfOne
    <3>3. tags[o] \in Nat /\ stores[o] \in Int /\ tags \in [Orders -> Nat]
      BY ConfirmationAssumption DEF IInv, TypeOK
    <3>4. tags'[o] = tags[o] + (IF got[h].order = o /\ Decides(h) THEN 1 ELSE 0)
      BY <1>7, <3>3 DEF AskForTag, Decides
    <3>5. Open(o)' = Open(o) - (IF got[h].order = o /\ Decides(h) THEN 1 ELSE 0)
      BY <3>1, <3>2 DEF Open
    <3>6. QED
      BY <1>1, <1>2, <2>1, <3>3, <3>4, <3>5
  <2>4. QED
    BY <2>3, CountGrows
<1>8. ASSUME NEW v \in Votes, Event(h, v[1], v[2]) PROVE Counted'
  <2>1. v[1] \in 0..2 /\ v[2] \in Branches
    BY DEF Votes
  <2>2. QED
    BY <1>3, <1>8, <2>1
<1>9. CASE Event(h, 0, "yes")
  BY <1>3, <1>9 DEF Branches
<1>10. QED
  BY <1>4, <1>5, <1>6, <1>7, <1>8, <1>9 DEF Handle

(* When the customer's messages are handled one at a time, each stored    *)
(* question, with the second one that it may lead to, ends in at most one *)
(* tag; a lost write may add one (PopPendingConfirmation, db.go:1974).    *)
THEOREM QuestionAnsweredOnce ==
  ASSUME OneAtATime
  PROVE  Spec => []AnsweredOnce
<1>1. Init => Counted
  <2> SUFFICES ASSUME Init, NEW o \in Orders
               PROVE  tags[o] + Open(o) <= stores[o] + lost
    BY DEF Counted
  <2>1. ~Rowed(o) /\ ~Held(o)
    BY ConfirmationAssumption DEF Init, Rowed, Held, NoEntry
  <2>2. QED
    BY <2>1 DEF Init, Open
<1>2. IInv /\ IInv' /\ Counted /\ [Next]_vars => Counted'
  BY OutsideCounted, HandleCounted DEF Next
<1>3. IInv /\ Counted => AnsweredOnce
  <2> SUFFICES ASSUME IInv, Counted, NEW o \in Orders
               PROVE  tags[o] <= stores[o] + lost
    BY DEF AnsweredOnce
  <2>1. {tags[o], stores[o], lost} \subseteq Int /\ Open(o) \in 0..2
    BY ConfirmationAssumption DEF IInv, TypeOK, Open
  <2>2. tags[o] + Open(o) <= stores[o] + lost
    BY DEF Counted
  <2>3. QED
    BY <2>1, <2>2
<1>4. QED
  BY <1>1, <1>2, <1>3, Invariance, PTL DEF Spec
-----------------------------------------------------------------------------
(* The decision a handler at work will ask the tag of.                    *)
Confirming(h) == IF pc[h] # "idle" /\ Confirms(h) THEN 1 ELSE 0
Cancelling(h) == IF pc[h] # "idle" /\ Cancels(h) THEN 1 ELSE 0

(* A second question that can still be answered, and a "no" to the first  *)
(* question, or what became of it, in the hand of the handler.            *)
Doubted(h) == IF entry.question = 2 \/ (pc[h] = "popped" /\ got[h].question = 2) THEN 1 ELSE 0
Refused(h) ==
    IF \/ pc[h] \in {"popped", "step2"} /\ got[h].question = 1 /\ branch[h] = "no"
       \/ pc[h] \in {"reply", "tag"} /\ Cancels(h)
    THEN 1 ELSE 0

Voted(h) ==
    /\ confirms + Confirming(h) <= cast[<<1, "yes">>] + cast[<<2, "no">>]
    /\ cancels + Doubted(h) + Refused(h) <= cast[<<1, "no">>] + lost
    /\ cancels + Cancelling(h) <= cast[<<2, "yes">>]

Decided == DecisionsAreVoted /\ \A h \in Handlers : Voted(h)

LEMMA DecisionTypes ==
  ASSUME IInv, IInv'
  PROVE  /\ {confirms, cancels, lost, confirms', cancels', lost'} \subseteq Nat
         /\ {cast[v] : v \in Votes} \cup {cast'[v] : v \in Votes} \subseteq Nat
         /\ {<<1, "yes">>, <<1, "no">>, <<2, "yes">>, <<2, "no">>} \subseteq Votes
         /\ \A h \in Handlers : /\ {Confirming(h), Cancelling(h), Doubted(h), Refused(h)} \subseteq 0..1
                                /\ {Confirming(h)', Cancelling(h)', Doubted(h)', Refused(h)'} \subseteq 0..1
<1>1. {confirms, cancels, lost, confirms', cancels', lost'} \subseteq Nat
  BY ConfirmationAssumption DEF IInv, TypeOK
<1>2. {cast[v] : v \in Votes} \cup {cast'[v] : v \in Votes} \subseteq Nat
  BY DEF IInv, TypeOK
<1>3. {<<1, "yes">>, <<1, "no">>, <<2, "yes">>, <<2, "no">>} \subseteq Votes
  BY DEF Votes, Branches
<1>4. ASSUME NEW h \in Handlers
      PROVE  /\ {Confirming(h), Cancelling(h), Doubted(h), Refused(h)} \subseteq 0..1
             /\ {Confirming(h)', Cancelling(h)', Doubted(h)', Refused(h)'} \subseteq 0..1
  BY DEF Confirming, Cancelling, Doubted, Refused
<1>5. QED
  BY <1>1, <1>2, <1>3, <1>4

(* A step that casts no vote and asks for no tag.                         *)
LEMMA NoVote ==
  ASSUME IInv, IInv', NEW h \in Handlers, Voted(h), UNCHANGED <<confirms, cancels, cast>>,
         lost' \in {lost, lost + 1},
         Confirming(h)' <= Confirming(h), Cancelling(h)' <= Cancelling(h),
         Doubted(h)' + Refused(h)' <= Doubted(h) + Refused(h) + (lost' - lost)
  PROVE  Voted(h)'
<1> DEFINE Y1 == cast[<<1, "yes">>]
           N1 == cast[<<1, "no">>]
           Y2 == cast[<<2, "yes">>]
           N2 == cast[<<2, "no">>]
<1>1. /\ {confirms, cancels, lost, lost', Y1, N1, Y2, N2} \subseteq Int
      /\ {Confirming(h), Cancelling(h), Doubted(h), Refused(h)} \subseteq Int
      /\ {Confirming(h)', Cancelling(h)', Doubted(h)', Refused(h)'} \subseteq Int
  BY DecisionTypes
<1>2. /\ confirms + Confirming(h) <= Y1 + N2
      /\ cancels + Doubted(h) + Refused(h) <= N1 + lost
      /\ cancels + Cancelling(h) <= Y2
  BY DEF Voted
<1> HIDE DEF Y1, N1, Y2, N2
<1>3. /\ confirms + Confirming(h)' <= Y1 + N2
      /\ cancels + Doubted(h)' + Refused(h)' <= N1 + lost'
      /\ cancels + Cancelling(h)' <= Y2
  BY <1>1, <1>2
<1>4. QED
  BY <1>3 DEF Voted, Y1, N1, Y2, N2

LEMMA OutsideDecided ==
  ASSUME IInv, IInv', Decided, UNCHANGED <<confirms, cancels, cast>>, lost' \in {lost, lost + 1},
         entry'.question \in {entry.question, 1},
         UNCHANGED handler \/ \A h \in Handlers : pc'[h] = "idle"
  PROVE  Decided'
<1>1. ASSUME NEW h \in Handlers PROVE Voted(h)'
  <2>1. /\ Confirming(h)' <= Confirming(h) /\ Cancelling(h)' <= Cancelling(h)
        /\ Doubted(h)' <= Doubted(h) /\ Refused(h)' <= Refused(h)
    BY DEF handler, Confirming, Cancelling, Doubted, Refused, Confirms, Cancels
  <2>2. {Doubted(h), Refused(h), Doubted(h)', Refused(h)', lost, lost'} \subseteq Int
    BY DecisionTypes
  <2>3. Doubted(h)' + Refused(h)' <= Doubted(h) + Refused(h) + (lost' - lost)
    BY <2>1, <2>2
  <2>4. QED
    BY <2>1, <2>3, NoVote DEF Decided
<1>2. DecisionsAreVoted'
  BY DecisionTypes DEF Decided, DecisionsAreVoted
<1>3. QED
  BY <1>1, <1>2 DEF Decided

(* With one handler, its own part says it all.                            *)
LEMMA OneDecides ==
  ASSUME OneAtATime, IInv, IInv', NEW h \in Handlers, Voted(h)'
  PROVE  Decided'
<1>1. \A g \in Handlers : Voted(g)'
  BY DEF OneAtATime
<1>2. /\ {confirms', cancels', lost'} \subseteq Int
      /\ {cast'[<<1, "yes">>], cast'[<<1, "no">>], cast'[<<2, "yes">>], cast'[<<2, "no">>]} \subseteq Int
      /\ {Confirming(h)', Cancelling(h)', Doubted(h)', Refused(h)'} \subseteq 0..1
  BY DecisionTypes
<1>3. DecisionsAreVoted'
  BY <1>2 DEF Voted, DecisionsAreVoted
<1>4. QED
  BY <1>1, <1>3 DEF Decided

LEMMA EventDecided ==
  ASSUME OneAtATime, IInv, IInv', Decided, NEW h \in Handlers, NEW q \in 0..2, NEW b \in Branches,
         Event(h, q, b)
  PROVE  Decided'
<1> DEFINE Y1 == cast[<<1, "yes">>]
           N1 == cast[<<1, "no">>]
           Y2 == cast[<<2, "yes">>]
           N2 == cast[<<2, "no">>]
<1>1. /\ UNCHANGED <<entry, confirms, cancels, lost>> /\ pc[h] = "idle"
      /\ Confirming(h) = 0 /\ Cancelling(h) = 0 /\ Refused(h) = 0
  BY DEF Event, table, history, Confirming, Cancelling, Refused
<1>2. /\ {confirms, cancels, lost, Y1, N1, Y2, N2, Y1', N1', Y2', N2'} \subseteq Nat
      /\ {Doubted(h), Refused(h), Confirming(h)', Cancelling(h)', Doubted(h)', Refused(h)'} \subseteq 0..1
  BY DecisionTypes
<1>3. /\ confirms <= Y1 + N2
      /\ cancels + Doubted(h) <= N1 + lost
      /\ cancels <= Y2
  BY <1>1, <1>2 DEF Voted, Decided
<1>4. /\ Y1' = Y1 + (IF q = 1 /\ b = "yes" THEN 1 ELSE 0)
      /\ N1' = N1 + (IF q = 1 /\ b = "no" THEN 1 ELSE 0)
      /\ Y2' = Y2 + (IF q = 2 /\ b = "yes" THEN 1 ELSE 0)
      /\ N2' = N2 + (IF q = 2 /\ b = "no" THEN 1 ELSE 0)
  <2>1. CASE q = 0
    <3>1. cast' = cast
      BY <2>1 DEF Event
    <3>2. QED
      BY <1>2, <2>1, <3>1
  <2>2. CASE q # 0
    <3>1. cast' = [cast EXCEPT ![<<q, b>>] = @ + 1] /\ cast \in [Votes -> Nat]
      BY <2>2 DEF Event, IInv, TypeOK
    <3>2. QED
      BY <1>2, <2>2, <3>1, DecisionTypes
  <2>3. QED
    BY <2>1, <2>2
<1>5. /\ Confirming(h)' <= (IF (q = 1 /\ b = "yes") \/ (q = 2 /\ b = "no") THEN 1 ELSE 0)
      /\ Cancelling(h)' <= (IF q = 2 /\ b = "yes" THEN 1 ELSE 0)
      /\ Refused(h)' <= (IF q = 1 /\ b = "no" THEN 1 ELSE 0)
      /\ Doubted(h)' = Doubted(h)
  <2>1. CASE Answers(q)
    <3>1. pc'[h] = "popped" /\ got'[h] = entry /\ branch'[h] = b /\ q = entry.question
      BY <2>1 DEF Event, Answers, IInv, TypeOK
    <3>2. Confirming(h)' <= (IF (q = 1 /\ b = "yes") \/ (q = 2 /\ b = "no") THEN 1 ELSE 0)
      <4>1. Confirms(h)' => <<q, b>> = <<1, "yes">> \/ <<q, b>> = <<2, "no">>
        BY <3>1, Zenon DEF Confirms
      <4>2. Confirms(h)' => (q = 1 /\ b = "yes") \/ (q = 2 /\ b = "no")
        BY <4>1
      <4>3. QED
        BY <4>2 DEF Confirming
    <3>3. Cancelling(h)' <= (IF q = 2 /\ b = "yes" THEN 1 ELSE 0)
      BY <3>1 DEF Cancelling, Cancels
    <3>4. Refused(h)' <= (IF q = 1 /\ b = "no" THEN 1 ELSE 0)
      BY <3>1 DEF Refused
    <3>5. Doubted(h)' = Doubted(h)
      BY <1>1, <3>1 DEF Doubted
    <3>6. QED
      BY <3>2, <3>3, <3>4, <3>5
  <2>2. CASE ~Answers(q)
    BY <1>1, <2>2 DEF Event, handler, Confirming, Cancelling, Refused, Doubted, Confirms, Cancels
  <2>3. QED
    BY <2>1, <2>2
<1> HIDE DEF Y1, N1, Y2, N2
<1>6. /\ confirms + Confirming(h)' <= Y1' + N2'
      /\ cancels + Doubted(h)' + Refused(h)' <= N1' + lost
      /\ cancels + Cancelling(h)' <= Y2'
  BY <1>2, <1>3, <1>4, <1>5
<1>7. Voted(h)'
  BY <1>1, <1>6 DEF Voted, Y1, N1, Y2, N2
<1>8. QED
  BY <1>7, OneDecides

LEMMA HandleDecided ==
  ASSUME OneAtATime, IInv, IInv', Decided, NEW h \in Handlers, Handle(h)
  PROVE  Decided'
<1> USE DEF table, history
<1>1. /\ pc \in [Handlers -> PCs] /\ got \in [Handlers -> Entries] /\ branch \in [Handlers -> Branches]
      /\ lost \in Nat /\ lost' \in Nat
      /\ {Doubted(h), Refused(h), Doubted(h)', Refused(h)'} \subseteq 0..1
  BY DecisionTypes DEF IInv, TypeOK
<1>2. ASSUME UNCHANGED <<got, branch, confirms, cancels, cast>>, lost' \in {lost, lost + 1},
             pc[h] # "idle", Doubted(h)' + Refused(h)' <= Doubted(h) + Refused(h) + (lost' - lost)
      PROVE  Decided'
  <2>1. Confirming(h)' <= Confirming(h) /\ Cancelling(h)' <= Cancelling(h)
    BY <1>2 DEF Confirming, Cancelling, Confirms, Cancels
  <2>2. Voted(h)'
    BY <1>2, <2>1, NoVote DEF Decided
  <2>3. QED
    BY <2>2, OneDecides
<1>3. CASE DeleteRow(h)
  <2>1. /\ pc[h] = "popped" /\ UNCHANGED <<got, branch, confirms, cancels, cast>>
        /\ pc'[h] \in {"step2", "reply"}
        /\ (entry'.question = 1 /\ lost' = lost) \/ (entry' = entry /\ lost' = lost + 1)
        /\ pc'[h] = "step2" => branch[h] = "no"
    BY <1>1, <1>3 DEF DeleteRow, Goto, LoseWrite, RowDeleted, NoEntry
  <2>2. Refused(h)' <= Refused(h) + (IF got[h].question = 2 THEN 1 ELSE 0)
    <3>1. CASE got[h].question = 2
      BY <1>1, <3>1
    <3>2. CASE got[h].question # 2
      <4>1. got[h] \in Rows
        BY <2>1 DEF IInv
      <4>2. got[h].question \in 1..2
        BY <4>1 DEF Rows
      <4>3. got[h].question = 1
        BY <3>2, <4>2
      <4>4. QED
        BY <1>1, <2>1, <4>3 DEF Refused, Cancels
    <3>3. QED
      BY <3>1, <3>2
  <2>3. got[h].question = 2 => Doubted(h) = 1
    BY <2>1 DEF Doubted
  <2>4. (lost' = lost => Doubted(h)' = 0) /\ Doubted(h)' <= Doubted(h)
    BY <1>1, <2>1 DEF Doubted
  <2>5. Doubted(h)' + Refused(h)' <= Doubted(h) + Refused(h) + (lost' - lost)
    BY <1>1, <2>1, <2>2, <2>3, <2>4
  <2>6. QED
    BY <1>2, <2>1, <2>5
<1>4. CASE StoreStep2(h)
  <2>1. /\ pc[h] = "step2" /\ pc'[h] = "reply" /\ UNCHANGED <<got, branch, confirms, cancels, cast>>
        /\ lost' \in {lost, lost + 1}
    BY <1>1, <1>4 DEF StoreStep2, Goto, LoseWrite
  <2>2. branch[h] = "no" /\ got[h].question = 1
    BY <2>1 DEF IInv
  <2>3. Refused(h) = 1 /\ Refused(h)' = 0
    BY <2>1, <2>2 DEF Refused, Cancels
  <2>4. Doubted(h)' + Refused(h)' <= Doubted(h) + Refused(h) + (lost' - lost)
    BY <1>1, <2>1, <2>3
  <2>5. QED
    BY <1>2, <2>1, <2>4
<1>5. CASE Reply(h)
  <2>1. /\ pc[h] = "reply" /\ pc'[h] = "tag" /\ UNCHANGED <<entry, got, branch, confirms, cancels, cast, lost>>
    BY <1>1, <1>5 DEF Reply, Goto
  <2>2. Doubted(h)' = Doubted(h) /\ Refused(h)' = Refused(h)
    BY <2>1 DEF Doubted, Refused, Cancels
  <2>3. QED
    BY <1>1, <1>2, <2>1, <2>2
<1>6. CASE AskForTag(h)
  <2>1. pc[h] = "tag" /\ pc'[h] = "idle" /\ UNCHANGED <<entry, cast, lost>>
    BY <1>1, <1>6 DEF AskForTag, Return
  <2>2. /\ confirms' = confirms + Confirming(h) /\ cancels' = cancels + Cancelling(h)
        /\ Refused(h) = Cancelling(h)
    BY <1>6, <2>1, DecisionTypes DEF AskForTag, Confirming, Cancelling, Refused
  <2>3. /\ Confirming(h)' = 0 /\ Cancelling(h)' = 0 /\ Refused(h)' = 0 /\ Doubted(h)' = Doubted(h)
    BY <2>1 DEF Confirming, Cancelling, Refused, Doubted
  <2>4. {confirms, cancels, Cancelling(h), Confirming(h), Doubted(h)} \subseteq Int
    BY DecisionTypes
  <2>5. Voted(h)'
    <3>1. Voted(h)
      BY DEF Decided
    <3>2. confirms' + Confirming(h)' = confirms + Confirming(h)
      BY <2>2, <2>3, <2>4
    <3>3. cancels' + Doubted(h)' + Refused(h)' = cancels + Doubted(h) + Refused(h)
      BY <2>2, <2>3, <2>4
    <3>4. cancels' + Cancelling(h)' = cancels + Cancelling(h)
      BY <2>2, <2>3, <2>4
    <3>5. QED
      BY <2>1, <3>1, <3>2, <3>3, <3>4 DEF Voted
  <2>6. QED
    BY <2>5, OneDecides
<1>7. ASSUME NEW v \in Votes, Event(h, v[1], v[2]) PROVE Decided'
  <2>1. v[1] \in 0..2 /\ v[2] \in Branches
    BY DEF Votes
  <2>2. QED
    BY <1>7, <2>1, EventDecided
<1>8. CASE Event(h, 0, "yes")
  BY <1>8, EventDecided DEF Branches
<1>9. QED
  BY <1>3, <1>4, <1>5, <1>6, <1>7, <1>8 DEF Handle

(* When messages are handled one at a time, no order is confirmed or      *)
(* cancelled without its votes, for any orders, webhooks, restarts and    *)
(* lost writes (the poll vote handler, main.go:127-192).                  *)
THEOREM NoDecisionUnvoted ==
  ASSUME OneAtATime
  PROVE  Spec => []DecisionsAreVoted
<1>1. Init => Decided
  <2> SUFFICES ASSUME Init PROVE Decided
    OBVIOUS
  <2>1. /\ confirms = 0 /\ cancels = 0 /\ lost = 0 /\ \A v \in Votes : cast[v] = 0
        /\ \A h \in Handlers : pc[h] = "idle"
    BY DEF Init
  <2>2. \A v \in {<<1, "yes">>, <<1, "no">>, <<2, "yes">>, <<2, "no">>} : cast[v] = 0
    BY <2>1 DEF Votes, Branches
  <2>3. entry.question = 1
    BY DEF Init, NoEntry
  <2>4. \A h \in Handlers : Confirming(h) = 0 /\ Cancelling(h) = 0 /\ Doubted(h) = 0 /\ Refused(h) = 0
    BY <2>1, <2>3 DEF Confirming, Cancelling, Doubted, Refused
  <2>5. QED
    BY <2>1, <2>2, <2>4 DEF Decided, Voted, DecisionsAreVoted
<1>2. ASSUME IInv, IInv', Decided, [Next]_vars PROVE Decided'
  <2> USE DEF table, history
  <2>1. lost \in Nat /\ entry \in Entries
    BY <1>2, ConfirmationAssumption DEF IInv, TypeOK
  <2>2. ASSUME NEW o \in Orders, Trigger(o) PROVE Decided'
    BY <1>2, <2>2, OutsideDecided DEF Trigger
  <2>3. ASSUME NEW o \in Orders, StoreEntry(o) PROVE Decided'
    <3>1. UNCHANGED <<confirms, cancels, cast, handler>> /\ lost' \in {lost, lost + 1}
          /\ entry'.question \in {entry.question, 1}
      BY <2>3 DEF StoreEntry, LoseWrite
    <3>2. QED
      BY <1>2, <3>1, OutsideDecided
  <2>4. ASSUME NEW o \in Orders, NEW a \in BOOLEAN, OrderCancelled(o, a) PROVE Decided'
    <3>1. UNCHANGED <<confirms, cancels, cast, handler>> /\ lost' \in {lost, lost + 1}
          /\ entry'.question \in {entry.question, 1}
      BY <2>4 DEF OrderCancelled, LoseWrite, NoEntry
    <3>2. QED
      BY <1>2, <3>1, OutsideDecided
  <2>5. CASE Expire
    <3>1. entry'.question = entry.question
      BY <2>1, <2>5, EntryParts DEF Expire, Rows
    <3>2. QED
      BY <1>2, <2>5, <3>1, OutsideDecided DEF Expire
  <2>6. CASE Restart
    <3>1. \A h \in Handlers : pc'[h] = "idle"
      BY <2>6 DEF Restart
    <3>2. QED
      BY <1>2, <2>6, <3>1, OutsideDecided DEF Restart
  <2>7. CASE PollDelivered \/ UNCHANGED vars
    BY <1>2, <2>7, OutsideDecided DEF PollDelivered, vars
  <2>8. QED
    BY <1>2, <2>2, <2>3, <2>4, <2>5, <2>6, <2>7, HandleDecided DEF Next
<1>3. Decided => DecisionsAreVoted
  BY DEF Decided
<1>4. QED
  BY <1>1, <1>2, <1>3, Invariance, PTL DEF Spec
=============================================================================
