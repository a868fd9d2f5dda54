--------------------------- MODULE Audience_proofs ---------------------------
(***************************************************************************)
(* For any number of callers, calls and failing statements: after STOP    *)
(* nothing is queued to the customer's number in digits by a call that    *)
(* could read the contact, and a contact is welcomed at most once by each *)
(* caller and each failing statement.                                     *)
(*                                                                         *)
(* A call that began after STOP finds the contact opted out as long as it *)
(* lasts (Heeds), since orders keep the flag, and erasing the contact or  *)
(* failing to read it takes the call's mark as well.  Welcomes are        *)
(* counted together with the callers that found nobody and are still to   *)
(* insert (WelcomesDue).                                                  *)
(***************************************************************************)
EXTENDS Audience, FiniteSetTheorems, TLAPS

CallRecords == [pc : Steps, kind : Kinds, phone : Forms, new : BOOLEAN,
                to : SUBSET Forms, after : BOOLEAN]

(* The type of everything but the callers.                                *)
Rest ==
    /\ contact \in [Forms -> {"none", "in", "out"}]
    /\ lastOrder \in {"never", "recent", "old"}
    /\ jobs \subseteq Jobs
    /\ sent \subseteq Forms /\ wonBack \subseteq Forms
    /\ calls \in 0..MaxCalls
    /\ owed \in [Forms -> Nat]
    /\ welcomes \in Nat /\ lost \in 0..MaxDropped
    /\ contact["digits"] = "none" => lastOrder = "never"

Heeds(r) ==
    r.after =>
        /\ contact["digits"] = "out"
        /\ r.pc = "enqueue" /\ r.kind # "send" => r.phone = "plus"
        /\ r.kind = "broadcast" => "digits" \notin r.to

SInv ==
    /\ TypeOK
    /\ StopIsHeeded
    /\ \A c \in Callers : Heeds(call[c])

LEMMA TypeParts == TypeOK <=> Rest /\ call \in [Callers -> CallRecords]
BY DEF TypeOK, Rest, CallRecords

LEMMA DropErrorType == Rest /\ DropError => lost' \in 0..MaxDropped /\ lost' = lost + 1
BY AudienceAssumption DEF DropError, Rest

LEMMA IdleRecord == Idle \in CallRecords /\ Idle.pc = "idle" /\ ~Idle.after
BY DEF Idle, CallRecords, Steps, Kinds, Forms

(* A step of one caller that leaves an opted-out contact as it is.        *)
LEMMA BecomeSInv ==
  ASSUME SInv, NEW c \in Callers, NEW r \in CallRecords, Become(c, r), Rest', StopIsHeeded',
         contact["digits"] = "out" => contact'["digits"] = "out",
         Heeds(r)
  PROVE  SInv'
<1> DEFINE q == IF r.pc = "idle" THEN Idle ELSE r
<1>1. call \in [Callers -> CallRecords]
  BY TypeParts DEF SInv
<1>2. q \in CallRecords /\ Heeds(q)
  BY IdleRecord DEF Heeds
<1>3. call' = [call EXCEPT ![c] = q]
  BY DEF Become
<1> HIDE DEF q
<1>4. call' \in [Callers -> CallRecords]
  BY <1>1, <1>2, <1>3
<1>5. ASSUME NEW d \in Callers PROVE Heeds(call'[d])
  BY <1>1, <1>2, <1>3 DEF SInv
<1>6. ASSUME NEW d \in Callers PROVE Heeds(call[d])'
  BY <1>5 DEF Heeds
<1>7. TypeOK'
  BY <1>4, TypeParts DEF TypeOK, Rest, CallRecords
<1>8. QED
  BY <1>6, <1>7 DEF SInv

LEMMA GotoSInv ==
  ASSUME SInv, NEW c \in Callers, NEW p \in Steps, Goto(c, p), Rest', StopIsHeeded',
         contact["digits"] = "out" => contact'["digits"] = "out",
         p = "enqueue" => ~IsOptedOut(call[c].phone)
  PROVE  SInv'
<1> DEFINE r == [call[c] EXCEPT !.pc = p]
<1>1. call[c] \in CallRecords /\ Heeds(call[c])
  BY TypeParts DEF SInv
<1>2. /\ r \in CallRecords /\ r.pc = p /\ r.kind = call[c].kind /\ r.phone = call[c].phone
      /\ r.to = call[c].to /\ r.after = call[c].after
  BY <1>1 DEF CallRecords
<1>3. Heeds(r)
  BY <1>1, <1>2 DEF Heeds, IsOptedOut, CallRecords, Forms
<1>4. QED
  BY <1>2, <1>3, BecomeSInv DEF Goto

(* The beginning of a call.                                               *)
LEMMA StartSInv ==
  ASSUME SInv, NEW c \in Callers, NEW k \in Kinds, NEW f \in Forms, NEW p \in Steps, p # "enqueue",
         Start(c, k, f, p), calls' \in 0..MaxCalls, owed' \in [Forms -> Nat]
  PROVE  SInv'
<1> DEFINE b == contact["digits"] = "out"
           r == [Idle EXCEPT !.pc = p, !.kind = k, !.phone = f, !.after = b]
<1>1. b \in BOOLEAN
  OBVIOUS
<1>2. Become(c, r) /\ UNCHANGED <<table, jobs, sent, wonBack, welcomes, lost>>
  BY DEF Start
<1> HIDE DEF b
<1>3. /\ r \in CallRecords /\ r.pc = p /\ r.to = {} /\ (r.after <=> b)
  BY <1>1, IdleRecord DEF CallRecords, Idle
<1>4. Heeds(r)
  BY <1>3 DEF Heeds, b
<1>5. Rest' /\ StopIsHeeded' /\ contact' = contact
  BY <1>2, TypeParts DEF SInv, Rest, StopIsHeeded, table
<1>6. QED
  BY <1>2, <1>3, <1>4, <1>5, BecomeSInv

LEMMA RequestSInv ==
  ASSUME SInv, NEW c \in Callers, Request(c)
  PROVE  SInv'
<1>1. Rest
  BY TypeParts DEF SInv
<1>2. ASSUME NEW k \in Kinds, NEW f \in Forms, NEW p \in {"count", "check", "read", "receive"},
             Begin(c, k, f, p)
      PROVE  SInv'
  <2>1. p \in Steps /\ p # "enqueue" /\ Start(c, k, f, p)
    BY <1>2 DEF Begin, Steps
  <2>2. calls' \in 0..MaxCalls /\ owed' \in [Forms -> Nat]
    BY <1>1, <1>2, AudienceAssumption DEF Begin, Rest
  <2>3. QED
    BY <2>1, <2>2, StartSInv
<1>3. ASSUME NEW f \in Forms, Welcome(c, f) PROVE SInv'
  <2>1. "extra" \in Kinds /\ "count" \in Steps /\ Start(c, "extra", f, "count")
    BY <1>3 DEF Welcome, Steps, Kinds
  <2>2. calls' \in 0..MaxCalls /\ owed' \in [Forms -> Nat]
    BY <1>1, <1>3 DEF Welcome, Rest
  <2>3. QED
    BY <2>1, <2>2, StartSInv
<1>4. {"order", "extra", "send", "broadcast", "winback", "text", "stop"} \subseteq Kinds /\ "digits" \in Forms
  BY DEF Kinds, Forms
<1>5. QED
  BY <1>2, <1>3, <1>4
     DEF Request, ProcessOrder, ExtraTrigger, RefundCreated, AbandonedCart, SendMessage,
         Broadcast, WinBack, Incoming

(* The statements of a call.                                              *)
LEMMA WebhookSInv ==
  ASSUME SInv, NEW c \in Callers,
         CountContacts(c) \/ UpsertContact(c) \/ Attribute(c) \/ UpdateLastOrderAt(c) \/ Check(c)
  PROVE  SInv'
<1> USE DEF table
<1>1. call[c] \in CallRecords /\ Heeds(call[c]) /\ Rest
  BY TypeParts DEF SInv
<1>2. call[c].phone \in Forms /\ "digits" \in Forms
  BY <1>1 DEF CallRecords, Forms
<1>3. CASE CountContacts(c)
  <2>1. PICK b \in BOOLEAN : Become(c, [call[c] EXCEPT !.pc = "upsert", !.new = b])
    BY <1>3 DEF CountContacts
  <2> DEFINE r == [call[c] EXCEPT !.pc = "upsert", !.new = b]
  <2>2. /\ r \in CallRecords /\ r.pc = "upsert" /\ r.kind = call[c].kind
        /\ r.to = call[c].to /\ r.after = call[c].after
    BY <1>1, <2>1 DEF CallRecords, Steps
  <2>3. Heeds(r)
    BY <1>1, <2>2 DEF Heeds
  <2>4. lost' \in 0..MaxDropped
    BY <1>1, <1>3, DropErrorType DEF CountContacts, Rest
  <2>5. Rest' /\ StopIsHeeded' /\ contact' = contact
    BY <1>1, <1>3, <2>4 DEF CountContacts, SInv, Rest, StopIsHeeded
  <2>6. QED
    BY <2>1, <2>2, <2>3, <2>5, BecomeSInv
<1>4. CASE UpsertContact(c)
  <2>1. \/ contact' = [contact EXCEPT !["digits"] = Upserted(@)]
        \/ contact' = contact
    BY <1>4 DEF UpsertContact, NormalizePhone
  <2>2. /\ contact' \in [Forms -> {"none", "in", "out"}]
        /\ contact'["digits"] = "none" => contact["digits"] = "none"
        /\ contact["digits"] = "out" => contact'["digits"] = "out"
    BY <1>1, <1>2, <2>1 DEF Rest, Upserted
  <2>3. owed' \in [Forms -> Nat] /\ welcomes' \in Nat /\ lost' \in 0..MaxDropped
    <3>1. owed' \in [Forms -> Nat] /\ welcomes' \in Nat
      BY <1>1, <1>2, <1>4 DEF UpsertContact, Rest, phone
    <3>2. lost' \in 0..MaxDropped
      BY <1>1, <1>4, DropErrorType DEF UpsertContact, Rest
    <3>3. QED
      BY <3>1, <3>2
  <2>4. Rest' /\ StopIsHeeded'
    BY <1>1, <1>4, <2>2, <2>3 DEF UpsertContact, SInv, Rest, StopIsHeeded
  <2>5. Goto(c, "attribute") \/ Goto(c, "check")
    BY <1>4 DEF UpsertContact
  <2>6. QED
    BY <2>2, <2>4, <2>5, GotoSInv DEF Steps
<1>5. CASE Attribute(c)
  BY <1>1, <1>5, GotoSInv DEF Attribute, Steps, SInv, Rest, StopIsHeeded
<1>6. CASE UpdateLastOrderAt(c)
  <2>1. /\ lastOrder' \in {"never", "recent", "old"}
        /\ contact["digits"] = "none" => lastOrder' = "never"
    BY <1>1, <1>6 DEF UpdateLastOrderAt, Stamped, NormalizePhone, Rest
  <2>2. lost' \in 0..MaxDropped
    BY <1>1, <1>6, DropErrorType DEF UpdateLastOrderAt, Rest
  <2>3. Rest' /\ StopIsHeeded'
    BY <1>1, <1>6, <2>1, <2>2 DEF UpdateLastOrderAt, SInv, Rest, StopIsHeeded
  <2>4. QED
    BY <1>6, <2>3, GotoSInv DEF UpdateLastOrderAt, Steps
<1>7. CASE Check(c)
  <2>1. lost' \in 0..MaxDropped
    BY <1>1, <1>7, DropErrorType DEF Check, Rest
  <2>2. Rest' /\ StopIsHeeded' /\ contact' = contact
    BY <1>1, <1>7, <2>1 DEF Check, SInv, Rest, StopIsHeeded
  <2> DEFINE r == [call[c] EXCEPT !.pc = "enqueue", !.after = FALSE]
  <2>3. \/ \E p \in {"enqueue", "dispatch", "idle"} :
             Goto(c, p) /\ (p = "enqueue" => ~IsOptedOut(call[c].phone))
        \/ Become(c, r)
    BY <1>7 DEF Check, phone
  <2>4. ASSUME NEW p \in {"enqueue", "dispatch", "idle"},
               Goto(c, p), p = "enqueue" => ~IsOptedOut(call[c].phone)
        PROVE  SInv'
    BY <2>2, <2>4, GotoSInv DEF Steps
  <2>5. CASE Become(c, r)
    <3>1. r \in CallRecords /\ r.after = FALSE
      BY <1>1 DEF CallRecords, Steps
    <3>2. Heeds(r)
      BY <3>1 DEF Heeds
    <3>3. QED
      BY <2>2, <2>5, <3>1, <3>2, BecomeSInv
  <2>6. QED
    BY <2>3, <2>4, <2>5
<1>8. QED
  BY <1>3, <1>4, <1>5, <1>6, <1>7

LEMMA EnqueueSInv ==
  ASSUME SInv, NEW c \in Callers, Enqueue(c)
  PROVE  SInv'
<1> USE DEF table
<1> DEFINE j == [phone |-> call[c].phone, after |-> call[c].after, sent |-> FALSE]
<1>1. call[c] \in CallRecords /\ Heeds(call[c]) /\ Rest
  BY TypeParts DEF SInv
<1>2. call[c].phone \in Forms /\ call[c].pc = "enqueue"
  BY <1>1, Enqueue(c) DEF CallRecords, Enqueue, pc
<1>3. j \in Jobs /\ j.after = call[c].after /\ j.phone = call[c].phone
  BY <1>1 DEF CallRecords, Jobs
<1>4. /\ jobs' = jobs \/ (call[c].kind # "send" /\ jobs' = jobs \cup {j})
      /\ sent' \subseteq sent \cup {call[c].phone}
      /\ wonBack' \subseteq wonBack \cup {call[c].phone}
      /\ UNCHANGED <<table, calls, owed, welcomes, lost>>
  BY Enqueue(c) DEF Enqueue, phone
<1>5. Rest'
  BY <1>1, <1>2, <1>3, <1>4 DEF Rest
<1>6. call[c].kind # "send" => (j.after => j.phone = "plus")
  BY <1>1, <1>2, <1>3 DEF Heeds
<1> HIDE DEF j
<1>7. StopIsHeeded'
  BY <1>4, <1>6 DEF SInv, StopIsHeeded
<1>8. Goto(c, "dispatch") \/ Goto(c, "idle")
  BY Enqueue(c) DEF Enqueue
<1>9. QED
  BY <1>4, <1>5, <1>7, <1>8, GotoSInv DEF Steps

(* A broadcast that begins after STOP does not read the number in digits. *)
LEMMA RunSInv ==
  ASSUME SInv, NEW c \in Callers, ReadContacts(c) \/ NextContact(c)
  PROVE  SInv'
<1> USE DEF table
<1>1. call[c] \in CallRecords /\ Heeds(call[c]) /\ Rest
  BY TypeParts DEF SInv
<1>2. Rest' /\ StopIsHeeded' /\ contact' = contact
  BY <1>1 DEF ReadContacts, NextContact, SInv, Rest, StopIsHeeded
<1>3. CASE ReadContacts(c)
  <2> DEFINE found == IF call[c].kind = "broadcast" THEN AllActiveContacts ELSE WinBackCandidates
             q == IF found = {} THEN "idle" ELSE "dispatch"
             r == [call[c] EXCEPT !.pc = q, !.to = found]
  <2>1. found \subseteq Forms /\ (contact["digits"] = "out" => "digits" \notin found)
    BY DEF AllActiveContacts, WinBackCandidates
  <2>2. q \in {"idle", "dispatch"}
    OBVIOUS
  <2>3. Become(c, r)
    BY <1>3 DEF ReadContacts
  <2> HIDE DEF found, q
  <2>4. /\ r \in CallRecords /\ r.pc = q /\ r.kind = call[c].kind
        /\ r.to = found /\ r.after = call[c].after
    BY <1>1, <2>1, <2>2 DEF CallRecords, Steps
  <2>5. Heeds(r)
    BY <1>1, <2>1, <2>2, <2>4 DEF Heeds
  <2>6. QED
    BY <1>2, <2>3, <2>4, <2>5, BecomeSInv
<1>4. CASE NextContact(c)
  <2> DEFINE q == IF call[c].kind = "broadcast" THEN "enqueue" ELSE "check"
  <2>1. PICK f \in call[c].to : Become(c, [call[c] EXCEPT !.phone = f, !.to = @ \ {f}, !.pc = q])
    BY <1>4 DEF NextContact
  <2> DEFINE r == [call[c] EXCEPT !.phone = f, !.to = @ \ {f}, !.pc = q]
  <2>2. f \in Forms /\ q \in Steps /\ (q = "enqueue" => call[c].kind = "broadcast")
    BY <1>1 DEF CallRecords, Steps
  <2> HIDE DEF q
  <2>3. /\ r \in CallRecords /\ r.pc = q /\ r.kind = call[c].kind /\ r.phone = f
        /\ r.to = call[c].to \ {f} /\ r.after = call[c].after
    BY <1>1, <2>2 DEF CallRecords
  <2>4. Heeds(r)
    BY <1>1, <2>1, <2>2, <2>3 DEF Heeds, Forms
  <2>5. QED
    BY <1>2, <2>1, <2>3, <2>4, BecomeSInv
<1>5. QED
  BY <1>3, <1>4

LEMMA MessageSInv ==
  ASSUME SInv, NEW c \in Callers, Receive(c) \/ SetContactOptOut(c) \/ Reply(c)
  PROVE  SInv'
<1> USE DEF table
<1>1. call[c] \in CallRecords /\ Rest
  BY TypeParts DEF SInv
<1>2. call[c].phone \in Forms /\ "digits" \in Forms
  BY <1>1 DEF CallRecords, Forms
<1>3. CASE Receive(c)
  <2>1. Rest' /\ StopIsHeeded' /\ contact' = contact
    BY <1>1, <1>3 DEF Receive, SInv, Rest, StopIsHeeded
  <2>2. PICK p \in {"optout", "reply", "idle"} : Goto(c, p)
    BY <1>3 DEF Receive
  <2>3. QED
    BY <2>1, <2>2, GotoSInv DEF Steps
<1>4. CASE SetContactOptOut(c)
  <2>1. \/ contact' = [contact EXCEPT ![call[c].phone] = IF @ = "none" THEN "none" ELSE "out"]
        \/ contact' = contact
    BY <1>4 DEF SetContactOptOut, phone
  <2>2. /\ contact' \in [Forms -> {"none", "in", "out"}]
        /\ contact'["digits"] = "none" => contact["digits"] = "none"
        /\ contact["digits"] = "out" => contact'["digits"] = "out"
    BY <1>1, <1>2, <2>1 DEF Rest
  <2>3. lost' \in 0..MaxDropped
    BY <1>1, <1>4, DropErrorType DEF SetContactOptOut, Rest
  <2>4. Rest' /\ StopIsHeeded'
    BY <1>1, <1>4, <2>2, <2>3 DEF SetContactOptOut, SInv, Rest, StopIsHeeded
  <2>5. QED
    BY <1>4, <2>2, <2>4, GotoSInv DEF SetContactOptOut, Steps
<1>5. CASE Reply(c)
  <2>1. Rest' /\ StopIsHeeded' /\ contact' = contact
    BY <1>1, <1>2, <1>5 DEF Reply, SInv, Rest, StopIsHeeded, phone
  <2>2. QED
    BY <1>5, <2>1, GotoSInv DEF Reply, Steps
<1>6. QED
  BY <1>3, <1>4, <1>5

(* Steps that leave the callers alone.                                    *)
LEMMA OthersSInv ==
  ASSUME SInv, Rest', StopIsHeeded', call' = call,
         contact["digits"] = "out" => contact'["digits"] = "out"
  PROVE  SInv'
<1>1. ASSUME NEW c \in Callers PROVE Heeds(call[c])'
  BY DEF SInv, Heeds
<1>2. TypeOK'
  BY DEF TypeOK, Rest, SInv
<1>3. QED
  BY <1>1, <1>2 DEF SInv

LEMMA DeliverSInv ==
  ASSUME SInv, NEW j \in jobs, Deliver(j)
  PROVE  SInv'
<1> DEFINE d == [j EXCEPT !.sent = TRUE]
<1>1. Rest /\ j \in Jobs /\ (j.after => j.phone = "plus")
  BY TypeParts DEF SInv, Rest, StopIsHeeded
<1>2. d \in Jobs /\ d.after = j.after /\ d.phone = j.phone /\ j.phone \in Forms
  BY <1>1 DEF Jobs
<1>3. /\ jobs' = (jobs \ {j}) \cup {d} /\ sent' = sent \cup {j.phone}
      /\ UNCHANGED <<table, wonBack, call, calls, owed, welcomes, lost>>
  BY Deliver(j) DEF Deliver
<1> HIDE DEF d
<1>4. Rest'
  BY <1>1, <1>2, <1>3 DEF Rest, table
<1>5. StopIsHeeded'
  BY <1>1, <1>2, <1>3 DEF SInv, StopIsHeeded
<1>6. QED
  BY <1>3, <1>4, <1>5, OthersSInv DEF table

LEMMA CreateContactSInv ==
  ASSUME SInv, NEW f \in Forms, CreateContact(f)
  PROVE  SInv'
<1>1. Rest /\ "digits" \in Forms
  BY TypeParts DEF SInv, Forms
<1>2. calls' \in 0..MaxCalls
  BY <1>1, CreateContact(f), AudienceAssumption DEF CreateContact, Counted, Rest
<1>3. /\ contact' \in [Forms -> {"none", "in", "out"}]
      /\ contact["digits"] = "out" => contact'["digits"] = "out"
      /\ contact'["digits"] = "none" => contact["digits"] = "none"
  BY <1>1, CreateContact(f) DEF CreateContact, Rest, Upserted
<1>4. Rest' /\ StopIsHeeded' /\ call' = call
  BY <1>1, <1>2, <1>3, CreateContact(f) DEF CreateContact, SInv, Rest, StopIsHeeded
<1>5. QED
  BY <1>3, <1>4, OthersSInv

(* Erasing the row in digits takes the calls' marks with it; erasing the  *)
(* other form leaves both.                                                *)
LEMMA EraseSInv ==
  ASSUME SInv, NEW forms \in SUBSET Forms, Erase(forms), Counted,
         jobs' \subseteq jobs, sent' \subseteq sent, wonBack' \subseteq wonBack, owed' = owed,
         lost' = lost
  PROVE  SInv'
<1>1. Rest /\ "digits" \in Forms /\ call \in [Callers -> CallRecords]
  BY TypeParts DEF SInv, Forms
<1>2. contact' = [f \in Forms |-> IF f \in forms THEN "none" ELSE contact[f]]
  BY DEF Erase
<1>3. contact' \in [Forms -> {"none", "in", "out"}]
  BY <1>1, <1>2 DEF Rest
<1>4. calls' \in 0..MaxCalls
  BY <1>1, AudienceAssumption DEF Counted, Rest
<1>5. StopIsHeeded'
  BY DEF SInv, StopIsHeeded
<1>6. CASE "digits" \in forms
  <2>1. lastOrder' = "never" /\ welcomes' = 0 /\ call' = [c \in Callers |-> [call[c] EXCEPT !.after = FALSE]]
    BY <1>6 DEF Erase
  <2>2. Rest'
    BY <1>1, <1>3, <1>4, <2>1 DEF Rest
  <2>3. ASSUME NEW c \in Callers PROVE call'[c] \in CallRecords /\ ~call'[c].after
    BY <1>1, <2>1 DEF CallRecords
  <2>4. call' \in [Callers -> CallRecords]
    BY <2>1, <2>3
  <2>5. TypeOK'
    BY <2>2, <2>4 DEF TypeOK, Rest, CallRecords
  <2>6. ASSUME NEW c \in Callers PROVE Heeds(call[c])'
    BY <2>3 DEF Heeds
  <2>7. QED
    BY <1>5, <2>5, <2>6 DEF SInv
<1>7. CASE "digits" \notin forms
  <2>1. lastOrder' = lastOrder /\ welcomes' = welcomes /\ call' = call /\ contact'["digits"] = contact["digits"]
    BY <1>1, <1>2, <1>7 DEF Erase
  <2>2. Rest'
    BY <1>1, <1>3, <1>4, <2>1 DEF Rest
  <2>3. QED
    BY <1>5, <2>1, <2>2, OthersSInv
<1>8. QED
  BY <1>6, <1>7

LEMMA InitSInv == Init => SInv
<1> SUFFICES ASSUME Init PROVE SInv
  OBVIOUS
<1>1. call \in [Callers -> CallRecords] /\ \A c \in Callers : Heeds(call[c])
  BY IdleRecord DEF Init, Heeds
<1>2. Rest /\ StopIsHeeded
  BY AudienceAssumption DEF Init, Rest, Forms, StopIsHeeded
<1>3. QED
  BY <1>1, <1>2, TypeParts DEF SInv

LEMMA NextSInv == SInv /\ [Next]_vars => SInv'
<1> SUFFICES ASSUME SInv, [Next]_vars PROVE SInv'
  OBVIOUS
<1>1. ASSUME NEW c \in Callers, Request(c) \/ Handle(c) PROVE SInv'
  BY <1>1, RequestSInv, WebhookSInv, EnqueueSInv, RunSInv, MessageSInv DEF Handle
<1>2. ASSUME NEW j \in jobs, Deliver(j) PROVE SInv'
  BY <1>2, DeliverSInv
<1>3. ASSUME NEW f \in Forms, CreateContact(f) PROVE SInv'
  BY <1>3, CreateContactSInv
<1>4. ASSUME NEW f \in Forms, DeleteContact(f) PROVE SInv'
  BY <1>4, EraseSInv DEF DeleteContact
<1>5. ASSUME NEW forms \in SUBSET Forms, PurgeRows(forms) PROVE SInv'
  BY <1>5, EraseSInv DEF PurgeRows
<1>6. CASE NewDay
  <2>1. Rest' /\ StopIsHeeded' /\ call' = call /\ contact' = contact
    <3>1. Rest
      BY TypeParts DEF SInv
    <3>2. QED
      BY <1>6, <3>1 DEF NewDay, SInv, Rest, StopIsHeeded
  <2>2. QED
    BY <2>1, OthersSInv
<1>7. CASE UNCHANGED vars
  <2>1. Rest
    BY TypeParts DEF SInv
  <2>2. QED
    BY <1>7, <2>1, OthersSInv DEF vars, table, SInv, Rest, StopIsHeeded
<1>8. ASSUME NEW f \in Forms, PurgeCustomer(f) PROVE SInv'
  BY <1>5, <1>8 DEF PurgeCustomer
<1>9. CASE PurgeShop
  BY <1>5, <1>9 DEF PurgeShop
<1>10. QED
  BY <1>1, <1>2, <1>3, <1>4, <1>6, <1>7, <1>8, <1>9 DEF Next

LEMMA Invariance == Spec => []SInv
BY InitSInv, NextSInv, PTL DEF Spec

(* The variables have their types, and only a contact that is kept has a  *)
(* last order, whatever webhooks, runs, purges and days do.               *)
THEOREM AudienceTypeCorrect == Spec => []TypeOK
<1>1. SInv => TypeOK
  BY DEF SInv
<1>2. QED
  BY <1>1, Invariance, PTL

(* No webhook, broadcast or win-back run that began after STOP queues a   *)
(* message to the number in the form in which STOP came, as long as the   *)
(* contact is kept and can be read (shopify.go:302).                      *)
THEOREM StopHeeded == Spec => []StopIsHeeded
<1>1. SInv => StopIsHeeded
  BY DEF SInv
<1>2. QED
  BY <1>1, Invariance, PTL
-----------------------------------------------------------------------------
(* The handlers that found nobody and are still to insert.                *)
Newcomers == {c \in Callers : call[c].pc = "upsert" /\ call[c].kind = "order" /\ call[c].new}

WelcomesDue ==
    /\ contact["digits"] = "none" => welcomes <= lost
    /\ welcomes + Cardinality(Newcomers) <= Cardinality(Callers) + lost

LEMMA NewcomersFinite ==
  /\ IsFiniteSet(Newcomers) /\ Cardinality(Newcomers) <= Cardinality(Callers)
  /\ Cardinality(Newcomers) \in Nat /\ Cardinality(Callers) \in Nat
<1>1. Newcomers \subseteq Callers /\ IsFiniteSet(Callers)
  BY AudienceAssumption DEF Newcomers
<1>2. QED
  BY <1>1, FS_Subset, FS_CardinalityType

(* A caller that does not come to insert is not a newcomer.               *)
LEMMA BecomeNewcomers ==
  ASSUME SInv, NEW c \in Callers, NEW r \in CallRecords, Become(c, r), r.pc # "upsert"
  PROVE  Newcomers' \subseteq Newcomers \ {c}
<1> DEFINE q == IF r.pc = "idle" THEN Idle ELSE r
<1>1. call \in [Callers -> CallRecords]
  BY TypeParts DEF SInv
<1>2. q.pc # "upsert" /\ call' = [call EXCEPT ![c] = q]
  BY IdleRecord DEF Become
<1> HIDE DEF q
<1>3. QED
  BY <1>1, <1>2 DEF Newcomers

LEMMA GotoNewcomers ==
  ASSUME SInv, NEW c \in Callers, NEW p \in Steps, Goto(c, p), p # "upsert"
  PROVE  Newcomers' \subseteq Newcomers \ {c}
<1>1. call[c] \in CallRecords
  BY TypeParts DEF SInv
<1>2. [call[c] EXCEPT !.pc = p] \in CallRecords /\ [call[c] EXCEPT !.pc = p].pc = p
  BY <1>1 DEF CallRecords
<1>3. QED
  BY <1>2, BecomeNewcomers DEF Goto

(* A step that starts no welcome and erases no contact.                   *)
LEMMA KeepsDue ==
  ASSUME WelcomesDue, Newcomers' \subseteq Newcomers, welcomes' = welcomes, welcomes \in Nat,
         lost \in Nat, lost' \in Nat, lost' >= lost,
         contact'["digits"] = "none" => contact["digits"] = "none"
  PROVE  WelcomesDue'
<1>1. Cardinality(Newcomers') <= Cardinality(Newcomers) /\ Cardinality(Newcomers') \in Nat
  BY NewcomersFinite, FS_Subset, FS_CardinalityType
<1>2. QED
  BY <1>1, NewcomersFinite DEF WelcomesDue

LEMMA LostGrows ==
  ASSUME SInv, DropError \/ UNCHANGED lost
  PROVE  lost \in Nat /\ lost' \in Nat /\ lost' >= lost /\ welcomes \in Nat
<1>1. lost \in Nat /\ welcomes \in Nat
  BY TypeParts, AudienceAssumption DEF SInv, Rest
<1>2. QED
  BY <1>1 DEF DropError

LEMMA RequestDue ==
  ASSUME SInv, WelcomesDue, NEW c \in Callers, Request(c)
  PROVE  WelcomesDue'
<1>1. PICK k \in Kinds, f \in Forms, p \in {"count", "check", "read", "receive"} : Start(c, k, f, p)
  BY DEF Request, ProcessOrder, ExtraTrigger, RefundCreated, AbandonedCart, SendMessage,
         Broadcast, WinBack, Incoming, Welcome, Begin, Kinds, Forms
<1> DEFINE b == contact["digits"] = "out"
           r == [Idle EXCEPT !.pc = p, !.kind = k, !.phone = f, !.after = b]
<1>2. b \in BOOLEAN /\ Become(c, r) /\ UNCHANGED <<contact, welcomes, lost>>
  BY <1>1 DEF Start, table
<1> HIDE DEF b
<1>3. r \in CallRecords /\ r.pc # "upsert"
  BY <1>1, <1>2, IdleRecord DEF CallRecords, Idle, Steps
<1>4. QED
  BY <1>2, <1>3, LostGrows, BecomeNewcomers, KeepsDue

(* The two steps that welcomes are about: the look and the insert.        *)
LEMMA CountContactsDue ==
  ASSUME SInv, WelcomesDue, NEW c \in Callers, CountContacts(c)
  PROVE  WelcomesDue'
<1>1. PICK b \in BOOLEAN :
        /\ Become(c, [call[c] EXCEPT !.pc = "upsert", !.new = b])
        /\ \/ (b <=> contact["digits"] = "none") /\ lost' = lost
           \/ DropError
  BY CountContacts(c) DEF CountContacts, NewContact, NormalizePhone
<1> DEFINE r == [call[c] EXCEPT !.pc = "upsert", !.new = b]
<1>2. call \in [Callers -> CallRecords] /\ UNCHANGED <<contact, welcomes>>
  BY TypeParts, CountContacts(c) DEF SInv, CountContacts, table
<1>3. lost \in Nat /\ lost' \in Nat /\ lost' >= lost /\ welcomes \in Nat
  BY <1>1, LostGrows
<1>4. call[c] \in CallRecords
  BY <1>2
<1>5. r.pc = "upsert" /\ r.new = b
  BY <1>4 DEF CallRecords
<1>6. call' = [call EXCEPT ![c] = r]
  BY <1>1, <1>5 DEF Become
<1> HIDE DEF r
<1>7. CASE contact["digits"] = "none"
  <2>1. welcomes' <= lost' /\ welcomes' \in Nat
    BY <1>2, <1>3, <1>7 DEF WelcomesDue
  <2>2. IsFiniteSet(Newcomers') /\ Newcomers' \subseteq Callers
    BY AudienceAssumption, FS_Subset DEF Newcomers
  <2>3. /\ Cardinality(Newcomers') \in Nat /\ Cardinality(Callers) \in Nat
        /\ Cardinality(Newcomers') <= Cardinality(Callers)
    BY <2>2, AudienceAssumption, FS_Subset, FS_CardinalityType
  <2>4. QED
    BY <1>3, <2>1, <2>3 DEF WelcomesDue
<1>8. CASE contact["digits"] # "none" /\ lost' = lost + 1
  <2>1. Newcomers' \subseteq Newcomers \cup {c}
    BY <1>2, <1>5, <1>6 DEF Newcomers
  <2>2. /\ IsFiniteSet(Newcomers \cup {c})
        /\ Cardinality(Newcomers \cup {c}) <= Cardinality(Newcomers) + 1
    BY NewcomersFinite, FS_AddElement
  <2>3. Cardinality(Newcomers') <= Cardinality(Newcomers \cup {c}) /\ Cardinality(Newcomers') \in Nat
    BY <2>1, <2>2, FS_Subset, FS_CardinalityType
  <2>4. Cardinality(Newcomers \cup {c}) \in Nat
    BY <2>2, FS_CardinalityType
  <2>5. QED
    BY <1>2, <1>3, <1>8, <2>2, <2>3, <2>4, NewcomersFinite DEF WelcomesDue
<1>9. CASE contact["digits"] # "none" /\ lost' = lost /\ ~b
  <2>1. Newcomers' \subseteq Newcomers
    BY <1>2, <1>5, <1>6, <1>9 DEF Newcomers
  <2>2. QED
    BY <1>2, <1>3, <2>1, KeepsDue
<1>10. QED
  BY <1>1, <1>7, <1>8, <1>9 DEF DropError

LEMMA UpsertContactDue ==
  ASSUME SInv, WelcomesDue, NEW c \in Callers, UpsertContact(c)
  PROVE  WelcomesDue'
<1>1. Rest /\ "digits" \in Forms
  BY TypeParts DEF SInv, Forms
<1>2. /\ contact'["digits"] = "none" => contact["digits"] = "none"
      /\ lost' = lost + 1 \/ (lost' = lost /\ contact'["digits"] # "none")
  BY <1>1, UpsertContact(c) DEF UpsertContact, NormalizePhone, Upserted, Rest, DropError
<1>3. lost \in Nat /\ lost' \in Nat /\ lost' >= lost /\ welcomes \in Nat
  BY UpsertContact(c), LostGrows DEF UpsertContact
<1>4. Newcomers' \subseteq Newcomers \ {c}
  BY UpsertContact(c), GotoNewcomers DEF UpsertContact, Steps
<1>5. CASE call[c].kind = "order" /\ call[c].new
  <2>1. welcomes' = welcomes + 1 /\ c \in Newcomers
    BY <1>5, UpsertContact(c) DEF UpsertContact, Newcomers, pc
  <2>2. Cardinality(Newcomers \ {c}) = Cardinality(Newcomers) - 1 /\ IsFiniteSet(Newcomers \ {c})
    BY <2>1, NewcomersFinite, FS_RemoveElement
  <2>3. Cardinality(Newcomers') <= Cardinality(Newcomers) - 1 /\ Cardinality(Newcomers') \in Nat
    BY <1>4, <2>2, FS_Subset, FS_CardinalityType
  <2>4. contact'["digits"] = "none" => welcomes' <= lost'
    BY <1>2, <1>3, <2>1 DEF WelcomesDue
  <2>5. welcomes' + Cardinality(Newcomers') <= Cardinality(Callers) + lost'
    BY <1>3, <2>1, <2>3, NewcomersFinite DEF WelcomesDue
  <2>6. QED
    BY <2>4, <2>5 DEF WelcomesDue
<1>6. CASE ~(call[c].kind = "order" /\ call[c].new)
  <2>1. welcomes' = welcomes
    BY <1>6, UpsertContact(c) DEF UpsertContact
  <2>2. QED
    BY <1>2, <1>3, <1>4, <2>1, KeepsDue
<1>7. QED
  BY <1>5, <1>6

LEMMA HandleDue ==
  ASSUME SInv, WelcomesDue, NEW c \in Callers, Handle(c)
  PROVE  WelcomesDue'
<1> USE DEF table
<1>1. Rest /\ call[c] \in CallRecords /\ "digits" \in Forms
  BY TypeParts DEF SInv, Forms
<1>2. ASSUME NEW p \in Steps, Goto(c, p), p # "upsert", welcomes' = welcomes,
             DropError \/ UNCHANGED lost,
             contact'["digits"] = "none" => contact["digits"] = "none"
      PROVE  WelcomesDue'
  <2>1. Newcomers' \subseteq Newcomers
    BY <1>2, GotoNewcomers
  <2>2. QED
    BY <1>2, <2>1, LostGrows, KeepsDue
<1>3. ASSUME NEW p \in Steps, p # "upsert", Goto(c, p), UNCHANGED <<contact, welcomes>>,
             DropError \/ UNCHANGED lost
      PROVE  WelcomesDue'
  BY <1>2, <1>3
<1>4. CASE Attribute(c)
  BY <1>3, <1>4 DEF Attribute, Steps
<1>5. CASE UpdateLastOrderAt(c)
  BY <1>3, <1>5 DEF UpdateLastOrderAt, Steps
<1>6. CASE Check(c)
  <2> DEFINE r == [call[c] EXCEPT !.pc = "enqueue", !.after = FALSE]
  <2>1. /\ UNCHANGED <<contact, welcomes>> /\ (DropError \/ UNCHANGED lost)
        /\ (\E p \in {"enqueue", "dispatch", "idle"} : Goto(c, p)) \/ Become(c, r)
    BY <1>6 DEF Check
  <2>2. CASE Become(c, r)
    <3>1. r \in CallRecords /\ r.pc = "enqueue"
      BY <1>1 DEF CallRecords, Steps
    <3>2. Newcomers' \subseteq Newcomers
      BY <2>2, <3>1, BecomeNewcomers
    <3>3. QED
      BY <2>1, <3>2, LostGrows, KeepsDue
  <2>3. QED
    BY <1>3, <2>1, <2>2 DEF Steps
<1>7. CASE Enqueue(c)
  BY <1>3, <1>7 DEF Enqueue, Steps
<1>8. CASE Receive(c)
  BY <1>3, <1>8 DEF Receive, Steps
<1>9. CASE Reply(c)
  BY <1>3, <1>9 DEF Reply, Steps
<1>10. CASE SetContactOptOut(c)
  <2>1. contact'["digits"] = "none" => contact["digits"] = "none"
    BY <1>1, <1>10 DEF SetContactOptOut, phone, Rest
  <2>2. /\ "idle" \in Steps /\ Goto(c, "idle") /\ welcomes' = welcomes
        /\ DropError \/ UNCHANGED lost
    BY <1>10 DEF SetContactOptOut, Steps
  <2>3. QED
    BY <1>2, <2>1, <2>2
<1>11. CASE ReadContacts(c)
  <2>1. PICK p \in {"idle", "dispatch"}, to \in SUBSET Forms :
          Become(c, [call[c] EXCEPT !.pc = p, !.to = to]) /\ UNCHANGED <<contact, welcomes, lost>>
    BY <1>11 DEF ReadContacts, AllActiveContacts, WinBackCandidates
  <2> DEFINE r == [call[c] EXCEPT !.pc = p, !.to = to]
  <2>2. r \in CallRecords /\ r.pc # "upsert"
    BY <1>1, <2>1 DEF CallRecords, Steps
  <2>3. Newcomers' \subseteq Newcomers
    BY <2>1, <2>2, BecomeNewcomers
  <2>4. QED
    BY <2>1, <2>3, LostGrows, KeepsDue
<1>12. CASE NextContact(c)
  <2>1. PICK f \in call[c].to, p \in {"enqueue", "check"} :
          /\ Become(c, [call[c] EXCEPT !.phone = f, !.to = @ \ {f}, !.pc = p])
          /\ UNCHANGED <<contact, welcomes, lost>>
    BY <1>12 DEF NextContact
  <2> DEFINE r == [call[c] EXCEPT !.phone = f, !.to = @ \ {f}, !.pc = p]
  <2>2. r \in CallRecords /\ r.pc # "upsert"
    BY <1>1, <2>1 DEF CallRecords, Steps
  <2>3. Newcomers' \subseteq Newcomers
    BY <2>1, <2>2, BecomeNewcomers
  <2>4. QED
    BY <2>1, <2>3, LostGrows, KeepsDue
<1>13. QED
  BY <1>4, <1>5, <1>6, <1>7, <1>8, <1>9, <1>10, <1>11, <1>12, CountContactsDue, UpsertContactDue
     DEF Handle

(* Erasing the row in digits starts the count again.                      *)
LEMMA EraseDue ==
  ASSUME SInv, WelcomesDue, NEW forms \in SUBSET Forms, Erase(forms), lost' = lost
  PROVE  WelcomesDue'
<1>1. Rest /\ "digits" \in Forms /\ call \in [Callers -> CallRecords]
  BY TypeParts DEF SInv, Forms
<1>2. CASE "digits" \in forms
  <2>1. welcomes' = 0 /\ call' = [c \in Callers |-> [call[c] EXCEPT !.after = FALSE]]
    BY <1>2 DEF Erase
  <2>2. IsFiniteSet(Newcomers') /\ Newcomers' \subseteq Callers
    BY AudienceAssumption, FS_Subset DEF Newcomers
  <2>3. /\ Cardinality(Newcomers') \in Nat /\ Cardinality(Callers) \in Nat
        /\ Cardinality(Newcomers') <= Cardinality(Callers)
    BY <2>2, AudienceAssumption, FS_Subset, FS_CardinalityType
  <2>4. QED
    BY <2>1, <2>3, LostGrows DEF WelcomesDue
<1>3. CASE "digits" \notin forms
  <2>1. welcomes' = welcomes /\ call' = call /\ contact'["digits"] = contact["digits"]
    BY <1>1, <1>3 DEF Erase
  <2>2. Newcomers' = Newcomers
    BY <2>1 DEF Newcomers
  <2>3. QED
    BY <2>1, <2>2, LostGrows, KeepsDue
<1>4. QED
  BY <1>2, <1>3

LEMMA NextDue == SInv /\ WelcomesDue /\ [Next]_vars => WelcomesDue'
<1> SUFFICES ASSUME SInv, WelcomesDue, [Next]_vars PROVE WelcomesDue'
  OBVIOUS
<1>1. Rest /\ "digits" \in Forms
  BY TypeParts DEF SInv, Forms
<1>2. ASSUME call' = call, welcomes' = welcomes, lost' = lost,
             contact'["digits"] = "none" => contact["digits"] = "none"
      PROVE  WelcomesDue'
  <2>1. Newcomers' = Newcomers
    BY <1>2 DEF Newcomers
  <2>2. QED
    BY <1>2, <2>1, LostGrows, KeepsDue
<1>3. ASSUME NEW c \in Callers, Request(c) \/ Handle(c) PROVE WelcomesDue'
  BY <1>3, RequestDue, HandleDue
<1>4. ASSUME NEW j \in jobs, Deliver(j) PROVE WelcomesDue'
  BY <1>2, <1>4 DEF Deliver, table
<1>5. ASSUME NEW f \in Forms, CreateContact(f) PROVE WelcomesDue'
  <2>1. contact'["digits"] = "none" => contact["digits"] = "none"
    BY <1>1, <1>5 DEF CreateContact, Upserted, Rest
  <2>2. QED
    BY <1>2, <1>5, <2>1 DEF CreateContact
<1>6. ASSUME NEW f \in Forms, DeleteContact(f) \/ PurgeCustomer(f) PROVE WelcomesDue'
  BY <1>6, EraseDue DEF DeleteContact, PurgeCustomer, PurgeRows
<1>7. CASE PurgeShop
  BY <1>7, EraseDue DEF PurgeShop, PurgeRows
<1>8. CASE NewDay
  BY <1>2, <1>8 DEF NewDay
<1>9. CASE UNCHANGED vars
  BY <1>2, <1>9 DEF vars, table
<1>10. QED
  BY <1>3, <1>4, <1>5, <1>6, <1>7, <1>8, <1>9 DEF Next

(* While a contact is kept it is welcomed at most once by each caller and *)
(* each failing statement: by the handlers that met it missing at the     *)
(* same time, and by others only when a count or an INSERT failed         *)
(* (shopify.go:231, db.go:1708-1709).                                     *)
THEOREM WelcomesBounded == Spec => []WelcomesWithinOverlap
<1>1. Init => WelcomesDue
  <2> SUFFICES ASSUME Init PROVE WelcomesDue
    OBVIOUS
  <2>1. welcomes = 0 /\ lost = 0
    BY DEF Init
  <2>2. QED
    BY <2>1, NewcomersFinite DEF WelcomesDue
<1>2. SInv /\ WelcomesDue => WelcomesWithinOverlap
  BY TypeParts, NewcomersFinite, AudienceAssumption DEF SInv, Rest, WelcomesDue, WelcomesWithinOverlap
<1>3. QED
  BY <1>1, <1>2, Invariance, NextDue, PTL DEF Spec
===============================================================================
