---------------------------- MODULE Store_proofs ----------------------------
(***************************************************************************)
(* The two components of store/db.go: the default rows of a shop, for     *)
(* any number of defaults, requests, edits and starts of the process, and *)
(* the one connection of the database handle, for any number of           *)
(* goroutines.                                                             *)
(*                                                                         *)
(* Seeding.  The invariant IInv says what the types do not: a row is      *)
(* known by its id, and no request is under way while the process starts. *)
(* The bound on what a name's seeds fire counts them together with the    *)
(* callers about to insert one (WithinCallers): a caller joins these only *)
(* while there is no row of the name, or when its count fails.  A start   *)
(* none of whose statements fails leaves one row of each name because     *)
(* each of them keeps what the ones before it did (StartedSoFar).         *)
(*                                                                         *)
(* ConnPool.  Only a revenue page waits for the connection it has.  The   *)
(* invariant PoolIInv: the program of any other goroutine takes and gives *)
(* back by turns, so that it is about to give back exactly when it is the *)
(* holder; a revenue page is whole or its tail.                           *)
(***************************************************************************)
EXTENDS Seeding, ConnPool, FiniteSetTheorems, WellFoundedInduction, SequenceTheorems, TLAPS

-----------------------------------------------------------------------------
(* The rows and the requests.                                             *)

Fields == [pc : Steps, left : SUBSET Names, todo : SUBSET Names, tmpl : Ids \cup {NoId}, nested : BOOLEAN]

(* A caller that found no automation of the name and is to insert one.    *)
Pending(r) == r.pc \in {"lookup", "again", "insert"} \/ (r.pc \in {"template", "tinsert"} /\ r.nested = TRUE)

Fit(r) ==
    /\ r \in Fields
    /\ Pending(r) => r.todo # {}
    /\ r.pc = "tinsert" => r.left # {}
    /\ r.pc \in {"template", "tinsert", "again"} \/ r.nested = FALSE

(* A row is known by its id ...                                           *)
RowsKnown ==
    /\ made \in Nat
    /\ templates \subseteq Templates /\ automations \subseteq Automations
    /\ \A s, t \in templates : s.id = t.id => s = t
    /\ \A a, b \in automations : a.id = b.id => a = b

(* ... and no request is under way while the process starts.              *)
CallsFit ==
    /\ DOMAIN call = Callers /\ call = [c \in Callers |-> call[c]]
    /\ \A c \in Callers : Fit(call[c])
    /\ phase # "up" => \A c \in Callers : call[c] = Idle

Bounded ==
    /\ phase \in Phases
    /\ calls \in 0..MaxCalls /\ restarts \in 0..MaxRestarts

LoopFits == work \subseteq Ids /\ dup \in Ids \cup {NoId}

ErrorsFit == edits \in Nat /\ lost \in Nat /\ edits + lost <= MaxDisturbed /\ clean \in BOOLEAN

IInv == RowsKnown /\ CallsFit /\ Bounded /\ LoopFits /\ ErrorsFit

LEMMA TypeFromIInv == IInv => TypeOK
<1> SUFFICES ASSUME IInv PROVE TypeOK
  OBVIOUS
<1>1. call \in [Callers -> Fields]
  BY DEF IInv, CallsFit, Fit
<1>2. \A c \in Callers : /\ call[c].pc \in {"lookup", "again", "insert"} => call[c].todo # {}
                         /\ call[c].pc = "tinsert" => call[c].left # {}
  BY DEF IInv, CallsFit, Fit, Pending
<1>3. QED
  BY <1>1, <1>2 DEF IInv, RowsKnown, Bounded, LoopFits, ErrorsFit, TypeOK, Fields

LEMMA DefaultsAmongAll == Names \subseteq AllNames
BY SeedingAssumption DEF Names, AllNames

(* A statement that fails is counted, and the start is clean no more.     *)
LEMMA StatementFits ==
  ASSUME ErrorsFit, NEW ok \in BOOLEAN, Statement(ok), edits' = edits
  PROVE  ErrorsFit' /\ (lost' = lost \/ lost' = lost + 1) /\ (clean' => clean /\ ok)
<1>1. CASE ok
  BY <1>1 DEF Statement, errors, ErrorsFit
<1>2. CASE ~ok
  <2>1. MaxDisturbed \in Nat
    BY SeedingAssumption
  <2>2. edits + lost < MaxDisturbed /\ lost' = lost + 1 /\ clean' = FALSE
    BY <1>2 DEF Statement, DropError
  <2>3. edits' \in Nat /\ lost' \in Nat /\ edits' + lost' <= MaxDisturbed
    BY <2>1, <2>2 DEF ErrorsFit
  <2>4. clean' \in BOOLEAN
    BY <2>2
  <2>5. QED
    BY <2>2, <2>3, <2>4 DEF ErrorsFit
<1>3. QED
  BY <1>1, <1>2

LEMMA LeastNumber ==
  ASSUME NEW S, S \subseteq Nat, S # {}
  PROVE  \E x \in S : \A y \in S : x <= y
<1> DEFINE less == OpToRel(<, Nat)
<1>1. IsWellFoundedOn(less, Nat) /\ S \subseteq Nat
  BY NatLessThanWellFounded
<1>2. \A m, n \in Nat : <<m, n>> \in less <=> m < n
  BY DEF OpToRel
<1> HIDE DEF less
<1>3. PICK x \in S : \A y \in S : ~ (<<y, x>> \in less)
  BY <1>1, WFMin
<1>4. x \in Nat /\ \A y \in S : y \in Nat /\ ~ (y < x)
  BY <1>1, <1>2, <1>3
<1>5. \A y \in S : x <= y
  BY <1>4
<1>6. QED
  BY <1>5

LEMMA LeastName ==
  ASSUME NEW S \in SUBSET Names, S # {}
  PROVE  Min(S) \in S /\ Min(S) \in Names /\ S \ {Min(S)} \in SUBSET Names
<1>1. S \subseteq Nat
  BY SeedingAssumption DEF Names
<1>2. \E x \in S : \A y \in S : x <= y
  BY <1>1, LeastNumber
<1>3. Min(S) \in S
  BY <1>2 DEF Min
<1>4. QED
  BY <1>3

(* What a record keeps when one of its fields is changed.                 *)
LEMMA FieldsOf ==
  ASSUME NEW r \in Fields
  PROVE  /\ r.pc \in Steps /\ r.left \in SUBSET Names /\ r.todo \in SUBSET Names
         /\ r.tmpl \in Ids \cup {NoId} /\ r.nested \in BOOLEAN
BY DEF Fields

LEMMA IdleFits == Fit(Idle)
BY DEF Fit, Fields, Idle, Pending, Steps

LEMMA InitIInv == Init => IInv
<1> SUFFICES ASSUME Init PROVE IInv
  OBVIOUS
<1>1. 0 \in 0..MaxCalls /\ 0 \in 0..MaxRestarts /\ 0 + 0 <= MaxDisturbed
  BY SeedingAssumption
<1>2. \A c \in Callers : call[c] = Idle /\ Fit(call[c])
  BY IdleFits DEF Init
<1>3. QED
  BY <1>1, <1>2 DEF Init, IInv, RowsKnown, CallsFit, Bounded, LoopFits, ErrorsFit, Phases
-----------------------------------------------------------------------------
(* A step of a request: its caller becomes r, which fits, and comes to    *)
(* insert an automation only if it has just found none of the name, or    *)
(* the statement failed.                                                  *)
Enters(c, r) ==
    Pending(r) => \/ Pending(call[c]) /\ r.todo = call[c].todo
                  \/ NamedAutomations(Min(r.todo)) = {}
                  \/ lost' = lost + 1

Moves(c, r) == call' = [call EXCEPT ![c] = r] /\ Fit(r) /\ Enters(c, r)

LEMMA BecomeMoves ==
  ASSUME NEW c \in Callers, NEW r, Become(c, r), Fit(r), Enters(c, r)
  PROVE  \E q : Moves(c, q)
<1>1. CASE r.pc = "idle"
  <2>1. call' = [call EXCEPT ![c] = Idle]
    BY <1>1 DEF Become
  <2>2. ~Pending(Idle)
    BY DEF Pending, Idle
  <2>3. QED
    BY <2>1, <2>2, IdleFits DEF Moves, Enters
<1>2. CASE r.pc # "idle"
  BY <1>2 DEF Become, Moves
<1>3. QED
  BY <1>1, <1>2

LEMMA PcChanged ==
  ASSUME NEW r \in Fields, NEW p \in Steps, NEW q, q = [r EXCEPT !.pc = p]
  PROVE  q \in Fields /\ q.pc = p /\ q.left = r.left /\ q.todo = r.todo /\ q.nested = r.nested
BY DEF Fields

LEMMA GotoMoves ==
  ASSUME IInv, NEW c \in Callers, NEW p \in Steps, Goto(c, p),
         p \in {"lookup", "again", "insert"} =>
           call[c].todo # {} /\ (Pending(call[c]) \/ NamedAutomations(Min(call[c].todo)) = {} \/ lost' = lost + 1),
         p = "tinsert" => call[c].left # {} /\ call[c].pc = "template",
         p # "template", p \in {"tinsert", "again"} \/ call[c].nested = FALSE
  PROVE  \E q : Moves(c, q)
<1> DEFINE r == [call[c] EXCEPT !.pc = p]
<1>1. call[c] \in Fields /\ Fit(call[c])
  BY DEF IInv, CallsFit, Fit
<1>2. r \in Fields /\ r.pc = p /\ r.left = call[c].left /\ r.todo = call[c].todo /\ r.nested = call[c].nested
  BY <1>1, PcChanged
<1>3. Become(c, r)
  BY DEF Goto
<1> HIDE DEF r
<1>4. Pending(r) => r.todo # {} /\ (Pending(call[c]) \/ NamedAutomations(Min(r.todo)) = {} \/ lost' = lost + 1)
  BY <1>1, <1>2 DEF Pending, Fit
<1>5. Fit(r) /\ Enters(c, r)
  BY <1>2, <1>4 DEF Fit, Enters
<1>6. QED
  BY <1>3, <1>5, BecomeMoves

LEMMA BusyIsUp ==
  ASSUME IInv, NEW c \in Callers, pc(c) # "idle"
  PROVE  phase = "up"
BY DEF IInv, CallsFit, pc, Idle

LEMMA RequestMoves ==
  ASSUME IInv, NEW c \in Callers, Request(c)
  PROVE  /\ phase = "up" /\ UNCHANGED loop /\ \E q : Moves(c, q)
         /\ edits' = edits /\ \E ok \in BOOLEAN : Statement(ok)
<1>1. UNCHANGED loop
  BY DEF Request, ListAutomations, Seed, Status, Begin, DefaultAutomationsSeeded,
         DefaultTemplatesSeeded, CheckTemplate, InsertTemplate, CheckAutomation, FindTemplate,
         InsertAutomation
<1>2. phase = "up"
  BY BusyIsUp DEF Request, ListAutomations, Seed, Status, Begin, DefaultAutomationsSeeded,
         DefaultTemplatesSeeded, CheckTemplate, InsertTemplate, CheckAutomation, FindTemplate,
         InsertAutomation
<1>14. edits' = edits
  BY DEF Request, ListAutomations, Seed, Status, Begin, DefaultAutomationsSeeded, bounds,
         DefaultTemplatesSeeded, CheckTemplate, InsertTemplate, CheckAutomation, FindTemplate,
         InsertAutomation
<1>15. \E ok \in BOOLEAN : Statement(ok)
  <2>1. UNCHANGED errors => Statement(TRUE)
    BY DEF Statement
  <2>2. QED
    BY <2>1 DEF Request, ListAutomations, Seed, Status, Begin, DefaultAutomationsSeeded,
         DefaultTemplatesSeeded, CheckTemplate, InsertTemplate, CheckAutomation, FindTemplate,
         InsertAutomation
<1> SUFFICES \E q : Moves(c, q)
  BY <1>1, <1>2, <1>14, <1>15
<1>3. call[c] \in Fields /\ Fit(call[c])
  BY DEF IInv, CallsFit, Fit
<1>4. CASE ListAutomations(c)
  <2>1. Goto(c, "count") /\ "count" \in Steps
    BY <1>4 DEF ListAutomations, Steps
  <2>2. call[c].nested = FALSE
    BY <1>3, <1>4 DEF ListAutomations, Begin, pc, Fit
  <2>3. QED
    BY <2>1, <2>2, GotoMoves
<1>5. CASE Seed(c) \/ Status(c)
  <2> DEFINE r == [Idle EXCEPT !.pc = "template", !.left = Names]
  <2>1. Become(c, r)
    BY <1>5 DEF Seed, Status
  <2>2. r \in Fields /\ r.pc = "template" /\ r.nested = FALSE
    BY DEF Fields, Idle, Steps
  <2> HIDE DEF r
  <2>3. Fit(r) /\ Enters(c, r)
    BY <2>2 DEF Fit, Enters, Pending
  <2>4. QED
    BY <2>1, <2>3, BecomeMoves
<1>6. CASE DefaultAutomationsSeeded(c)
  <2>1. PICK p \in {"idle", "seeded"} : Goto(c, p)
    BY <1>6 DEF DefaultAutomationsSeeded
  <2>2. p \in Steps
    BY <2>1 DEF Steps
  <2>3. call[c].nested = FALSE
    BY <1>3, <1>6 DEF DefaultAutomationsSeeded, pc, Fit
  <2>4. QED
    BY <2>1, <2>2, <2>3, GotoMoves
<1>7. CASE DefaultTemplatesSeeded(c)
  <2> DEFINE r1 == [call[c] EXCEPT !.pc = "automation", !.todo = Names]
             r2 == [call[c] EXCEPT !.pc = "template", !.left = Names, !.todo = Names]
  <2>1. Become(c, r1) \/ Become(c, r2)
    BY <1>7 DEF DefaultTemplatesSeeded
  <2>2. call[c].nested = FALSE
    BY <1>3, <1>7 DEF DefaultTemplatesSeeded, pc, Fit
  <2>3. r1 \in Fields /\ r1.pc = "automation" /\ r1.nested = FALSE
    BY <1>3, <2>2 DEF Fields, Steps
  <2>4. r2 \in Fields /\ r2.pc = "template" /\ r2.nested = FALSE
    BY <1>3, <2>2 DEF Fields, Steps
  <2> HIDE DEF r1, r2
  <2>5. Fit(r1) /\ Enters(c, r1) /\ Fit(r2) /\ Enters(c, r2)
    BY <2>3, <2>4 DEF Fit, Enters, Pending
  <2>6. QED
    BY <2>1, <2>5, BecomeMoves
<1>8. CASE CheckTemplate(c)
  <2> DEFINE r == [call[c] EXCEPT !.left = @ \ {Min(@)}]
  <2>1. pc(c) = "template"
    BY <1>8 DEF CheckTemplate
  <2>2. CASE Goto(c, AfterTemplates(c))
    <3>1. CASE call[c].nested = TRUE
      <4>1. Goto(c, "again") /\ Pending(call[c])
        BY <2>1, <2>2, <3>1 DEF AfterTemplates, pc, Pending
      <4>2. QED
        BY <1>3, <4>1, GotoMoves DEF Steps, Fit
    <3>2. CASE call[c].nested = FALSE
      <4>1. PICK p \in {"automation", "idle"} : Goto(c, p)
        BY <2>2, <3>2 DEF AfterTemplates
      <4>2. QED
        BY <3>2, <4>1, GotoMoves DEF Steps
    <3>3. QED
      BY <1>3, <3>1, <3>2 DEF Fields
  <2>3. CASE Goto(c, "tinsert") /\ call[c].left # {}
    BY <2>1, <2>3, GotoMoves DEF Steps, pc
  <2>4. CASE Become(c, r) /\ call[c].left # {}
    <3>1. call[c].left \in SUBSET Names
      BY <1>3 DEF Fields
    <3>2. call[c].left \ {Min(call[c].left)} \in SUBSET Names
      BY <2>4, <3>1, LeastName
    <3>3. r \in Fields /\ r.pc = call[c].pc /\ r.todo = call[c].todo /\ r.nested = call[c].nested
      BY <1>3, <3>2 DEF Fields
    <3> HIDE DEF r
    <3>4. Fit(r) /\ Enters(c, r)
      BY <1>3, <2>1, <3>3 DEF Fit, Enters, Pending, pc
    <3>5. QED
      BY <2>4, <3>4, BecomeMoves
  <2>5. QED
    BY <1>8, <2>2, <2>3, <2>4 DEF CheckTemplate
<1>9. CASE InsertTemplate(c)
  <2> DEFINE r == [call[c] EXCEPT !.left = @ \ {Min(@)}, !.pc = "template"]
  <2>1. pc(c) = "tinsert" /\ Become(c, r)
    BY <1>9 DEF InsertTemplate
  <2>2. call[c].left \in SUBSET Names /\ call[c].left # {}
    BY <1>3, <2>1 DEF Fields, Fit, pc
  <2>3. call[c].left \ {Min(call[c].left)} \in SUBSET Names
    BY <2>2, LeastName
  <2>4. r \in Fields /\ r.pc = "template" /\ r.todo = call[c].todo /\ r.nested = call[c].nested
    BY <1>3, <2>3 DEF Fields, Steps
  <2> HIDE DEF r
  <2>5. Fit(r) /\ Enters(c, r)
    BY <1>3, <2>1, <2>4 DEF Fit, Enters, Pending, pc
  <2>6. QED
    BY <2>1, <2>5, BecomeMoves
<1>10. CASE CheckAutomation(c)
  <2> DEFINE r == [call[c] EXCEPT !.todo = @ \ {Min(@)}]
  <2>1. pc(c) = "automation" /\ call[c].nested = FALSE
    BY <1>3, <1>10 DEF CheckAutomation, pc, Fit
  <2>2. CASE Goto(c, "idle")
    BY <2>1, <2>2, GotoMoves DEF Steps
  <2>3. CASE /\ Goto(c, "lookup") /\ call[c].todo # {}
             /\ NamedAutomations(Min(call[c].todo)) = {} \/ lost' = lost + 1
    BY <2>1, <2>3, GotoMoves DEF Steps
  <2>4. CASE Become(c, r) /\ call[c].todo # {}
    <3>1. call[c].todo \in SUBSET Names
      BY <1>3 DEF Fields
    <3>2. call[c].todo \ {Min(call[c].todo)} \in SUBSET Names
      BY <2>4, <3>1, LeastName
    <3>3. r \in Fields /\ r.pc = call[c].pc /\ r.nested = call[c].nested
      BY <1>3, <3>2 DEF Fields
    <3> HIDE DEF r
    <3>4. Fit(r) /\ Enters(c, r)
      BY <1>3, <2>1, <3>3 DEF Fit, Enters, Pending, pc
    <3>5. QED
      BY <2>4, <3>4, BecomeMoves
  <2>5. QED
    BY <1>10, <2>2, <2>3, <2>4 DEF CheckAutomation, MissingAutomation, Statement, DropError
<1>11. CASE FindTemplate(c)
  <2>1. pc(c) \in {"lookup", "again"} /\ Pending(call[c]) /\ call[c].todo # {}
    BY <1>3, <1>11 DEF FindTemplate, Pending, Fit, pc
  <2> DEFINE r1 == [call[c] EXCEPT !.pc = "template", !.left = Names, !.nested = TRUE]
             r2(i) == [call[c] EXCEPT !.pc = "insert", !.tmpl = i, !.nested = FALSE]
  <2>2. CASE Become(c, r1)
    <3>1. r1 \in Fields /\ r1.pc = "template" /\ r1.todo = call[c].todo
      BY <1>3 DEF Fields, Steps
    <3> HIDE DEF r1
    <3>2. Fit(r1) /\ Enters(c, r1)
      BY <2>1, <3>1 DEF Fit, Enters
    <3>3. QED
      BY <2>2, <3>2, BecomeMoves
  <2>3. ASSUME NEW i \in Ids \cup {NoId}, Become(c, r2(i)) PROVE \E q : Moves(c, q)
    <3>1. r2(i) \in Fields /\ r2(i).pc = "insert" /\ r2(i).todo = call[c].todo /\ r2(i).nested = FALSE
      BY <1>3 DEF Fields, Steps
    <3> HIDE DEF r2
    <3>2. Fit(r2(i)) /\ Enters(c, r2(i))
      BY <2>1, <3>1 DEF Fit, Enters
    <3>3. QED
      BY <2>3, <3>2, BecomeMoves
  <2>4. Become(c, r1) \/ \E i \in Ids \cup {NoId} : Become(c, r2(i))
    <3>1. \A t \in templates : t.id \in Ids
      BY DEF IInv, RowsKnown, Templates
    <3> HIDE DEF r1, r2
    <3>2. PICK ok \in BOOLEAN :
            LET found == {t \in DefaultTemplates(Min(call[c].todo)) : ok}
            IN  IF found = {} /\ pc(c) = "lookup" THEN Become(c, r1)
                ELSE \E i \in IF found = {} THEN {NoId} ELSE {t.id : t \in found} : Become(c, r2(i))
      BY <1>11 DEF FindTemplate, r1, r2
    <3>3. PICK found : found = {t \in DefaultTemplates(Min(call[c].todo)) : ok}
      OBVIOUS
    <3>4. {t.id : t \in found} \subseteq Ids
      BY <3>1, <3>3 DEF DefaultTemplates, NamedTemplates
    <3>5. CASE found = {} /\ pc(c) = "lookup"
      BY <3>2, <3>3, <3>5
    <3>6. CASE ~(found = {} /\ pc(c) = "lookup")
      <4>1. \E i \in IF found = {} THEN {NoId} ELSE {t.id : t \in found} : Become(c, r2(i))
        BY <3>2, <3>3, <3>6
      <4>2. QED
        BY <3>4, <4>1
    <3>7. QED
      BY <3>5, <3>6
  <2>5. QED
    BY <2>2, <2>3, <2>4
<1>12. CASE InsertAutomation(c)
  <2> DEFINE r == [call[c] EXCEPT !.todo = @ \ {Min(call[c].todo)}, !.pc = "automation", !.tmpl = NoId]
  <2>1. pc(c) = "insert" /\ Become(c, r)
    BY <1>12 DEF InsertAutomation
  <2>2. call[c].todo \in SUBSET Names /\ call[c].todo # {} /\ call[c].nested = FALSE
    BY <1>3, <2>1 DEF Fields, Fit, pc, Pending
  <2>3. call[c].todo \ {Min(call[c].todo)} \in SUBSET Names
    BY <2>2, LeastName
  <2>4. r \in Fields /\ r.pc = "automation" /\ r.nested = FALSE
    BY <1>3, <2>2, <2>3 DEF Fields, Steps
  <2> HIDE DEF r
  <2>5. Fit(r) /\ Enters(c, r)
    BY <2>4 DEF Fit, Enters, Pending
  <2>6. QED
    BY <2>1, <2>5, BecomeMoves
<1>13. QED
  BY <1>4, <1>5, <1>6, <1>7, <1>8, <1>9, <1>10, <1>11, <1>12 DEF Request
-----------------------------------------------------------------------------
(* The rows.                                                              *)

TemplateAdded ==
    \E n \in AllNames, d \in BOOLEAN :
        templates' = templates \cup {[id |-> made + 1, name |-> n, default |-> d]}

AutomationAdded(own) ==
    \E n \in AllNames, i \in Ids \cup {NoId}, active \in BOOLEAN :
        automations' = automations \cup
            {[id |-> made + 1, name |-> n, tmpl |-> i, active |-> active, own |-> own]}

LEMMA FreshId ==
  ASSUME RowsKnown
  PROVE  /\ \A t \in templates : t.id \in Nat /\ t.id <= made /\ t.id # made + 1
         /\ \A a \in automations : a.id \in Nat /\ a.id <= made /\ a.id # made + 1
<1>1. \A t \in templates : t.id \in 1..made
  BY DEF RowsKnown, Templates, Ids
<1>2. \A a \in automations : a.id \in 1..made
  BY DEF RowsKnown, Automations, Ids
<1>3. QED
  BY <1>1, <1>2 DEF RowsKnown

LEMMA WiderTypes ==
  ASSUME RowsKnown, made' = made + 1
  PROVE  Ids \subseteq Ids' /\ Templates \subseteq Templates' /\ Automations \subseteq Automations'
         /\ made + 1 \in Ids' /\ Fields \subseteq Fields'
<1>1. Ids \subseteq Ids' /\ made + 1 \in Ids'
  BY DEF RowsKnown, Ids
<1>2. Templates \subseteq Templates' /\ Automations \subseteq Automations' /\ Fields \subseteq Fields'
  BY <1>1 DEF Templates, Automations, Fields
<1>3. QED
  BY <1>1, <1>2

LEMMA AddTemplateKnown ==
  ASSUME RowsKnown, made' = made + 1, TemplateAdded, automations' = automations
  PROVE  RowsKnown'
<1>1. PICK n \in AllNames, d \in BOOLEAN :
        templates' = templates \cup {[id |-> made + 1, name |-> n, default |-> d]}
  BY DEF TemplateAdded
<1>2. [id |-> made + 1, name |-> n, default |-> d] \in Templates'
  BY WiderTypes DEF Templates
<1>3. QED
  BY <1>1, <1>2, FreshId, WiderTypes DEF RowsKnown

LEMMA AddAutomationKnown ==
  ASSUME RowsKnown, made' = made + 1, NEW own \in BOOLEAN, AutomationAdded(own), templates' = templates
  PROVE  RowsKnown'
<1>1. PICK n \in AllNames, i \in Ids \cup {NoId}, active \in BOOLEAN :
        automations' = automations \cup
            {[id |-> made + 1, name |-> n, tmpl |-> i, active |-> active, own |-> own]}
  BY DEF AutomationAdded
<1>2. [id |-> made + 1, name |-> n, tmpl |-> i, active |-> active, own |-> own] \in Automations'
  BY WiderTypes DEF Automations
<1>3. QED
  BY <1>1, <1>2, FreshId, WiderTypes DEF RowsKnown

(* One row changed and no id, or rows deleted.                            *)
LEMMA RowChangedKnown ==
  ASSUME RowsKnown, made' = made,
         \/ templates' \subseteq templates
         \/ \E t \in templates, u \in Templates :
              u.id = t.id /\ templates' = (templates \ {t}) \cup {u},
         \/ automations' \subseteq automations
         \/ \E a \in automations, b \in Automations :
              b.id = a.id /\ automations' = (automations \ {a}) \cup {b}
  PROVE  RowsKnown'
<1>1. Ids' = Ids
  BY DEF Ids
<1>2. Templates' = Templates /\ Automations' = Automations
  BY <1>1 DEF Templates, Automations
<1>3. QED
  BY <1>2 DEF RowsKnown

(* The automations of a duplicate get the master.                         *)
Given(users, i) ==
    automations' = (automations \ users) \cup {[a EXCEPT !.tmpl = i] : a \in users}

LEMMA Repointed ==
  ASSUME RowsKnown, made' = made, NEW users \in SUBSET automations, NEW i \in Ids, Given(users, i)
  PROVE  /\ automations' \subseteq Automations
         /\ \A b \in automations' : \E a \in automations :
              /\ b.id = a.id /\ b.name = a.name /\ b.active = a.active /\ b.own = a.own
              /\ (b = a /\ a \notin users) \/ (b.tmpl = i /\ a \in users /\ b = [a EXCEPT !.tmpl = i])
         /\ \A a \in automations : \E b \in automations' :
              b.id = a.id /\ b.name = a.name /\ b.own = a.own
         /\ \A a, b \in automations' : a.id = b.id => a = b
<1>1. ASSUME NEW a \in users
      PROVE  /\ [a EXCEPT !.tmpl = i] \in Automations
             /\ [a EXCEPT !.tmpl = i].id = a.id /\ [a EXCEPT !.tmpl = i].name = a.name
             /\ [a EXCEPT !.tmpl = i].active = a.active /\ [a EXCEPT !.tmpl = i].own = a.own
             /\ [a EXCEPT !.tmpl = i].tmpl = i
  BY DEF RowsKnown, Automations
<1>2. \A b \in automations' : \E a \in automations :
              /\ b.id = a.id /\ b.name = a.name /\ b.active = a.active /\ b.own = a.own
              /\ (b = a /\ a \notin users) \/ (b.tmpl = i /\ a \in users /\ b = [a EXCEPT !.tmpl = i])
  BY <1>1 DEF Given
<1>3. automations' \subseteq Automations
  BY <1>1 DEF Given, RowsKnown
<1>4. \A a \in automations : \E b \in automations' : b.id = a.id /\ b.name = a.name /\ b.own = a.own
  <2> SUFFICES ASSUME NEW a \in automations
               PROVE  \E b \in automations' : b.id = a.id /\ b.name = a.name /\ b.own = a.own
    OBVIOUS
  <2>1. CASE a \in users
    BY <1>1, <2>1 DEF Given
  <2>2. CASE a \notin users
    BY <2>2 DEF Given
  <2>3. QED
    BY <2>1, <2>2
<1>5. \A a, b \in automations' : a.id = b.id => a = b
  BY <1>2 DEF RowsKnown
<1>6. QED
  BY <1>2, <1>3, <1>4, <1>5
LEMMA MasterIsThere ==
  ASSUME RowsKnown, NEW t \in templates
  PROVE  Master(NamedTemplates(t.name)) \in NamedTemplates(t.name)
<1> DEFINE S == NamedTemplates(t.name)
           first == {u \in S : u.default}
           best == IF first # {} THEN first ELSE S
           numbers == {u.id : u \in best}
<1>1. t \in S /\ best \subseteq S /\ best # {} /\ S \subseteq templates
  BY DEF NamedTemplates
<1>2. Master(S) = CHOOSE u \in best : \A v \in best : u.id <= v.id
  BY DEF Master
<1> HIDE DEF S, best
<1>3. numbers \subseteq Nat /\ numbers # {}
  BY <1>1, FreshId
<1>4. PICK x \in numbers : \A y \in numbers : x <= y
  BY <1>3, LeastNumber
<1>5. \E u \in best : \A v \in best : u.id <= v.id
  BY <1>4
<1>6. Master(S) \in best
  BY <1>2, <1>5
<1>7. QED
  BY <1>1, <1>6 DEF S

LEMMA RequestIInv ==
  ASSUME IInv, NEW c \in Callers, Request(c)
  PROVE  IInv'
<1>1. phase = "up" /\ phase' = "up" /\ work' = work /\ dup' = dup
  BY RequestMoves DEF loop
<1>2. PICK r : Moves(c, r)
  BY RequestMoves
<1>3. RowsKnown' /\ (made' = made \/ made' = made + 1)
  <2>1. CASE InsertTemplate(c) /\ ~UNCHANGED rows
    <3>1. Fit(call[c]) /\ call[c].left \in SUBSET Names /\ call[c].left # {}
      BY <2>1 DEF IInv, CallsFit, Fit, Fields, InsertTemplate, pc
    <3>2. Min(call[c].left) \in AllNames
      BY <3>1, LeastName, DefaultsAmongAll
    <3>3. TemplateAdded /\ made' = made + 1 /\ automations' = automations
      BY <2>1, <3>2 DEF InsertTemplate, TemplateAdded, rows
    <3>4. QED
      BY <3>3, AddTemplateKnown DEF IInv
  <2>2. CASE InsertAutomation(c) /\ ~UNCHANGED rows
    <3>1. /\ Fit(call[c]) /\ call[c].todo \in SUBSET Names /\ call[c].todo # {}
          /\ call[c].tmpl \in Ids \cup {NoId}
      BY <2>2 DEF IInv, CallsFit, Fit, Fields, Pending, InsertAutomation, pc
    <3>2. Min(call[c].todo) \in AllNames
      BY <3>1, LeastName, DefaultsAmongAll
    <3> DEFINE n == Min(call[c].todo)
    <3>3. /\ automations' = automations \cup {[id |-> made + 1, name |-> n, tmpl |-> call[c].tmpl,
                                             active |-> n \in ActiveByDefault, own |-> FALSE]}
          /\ made' = made + 1 /\ templates' = templates
      BY <2>2 DEF InsertAutomation, rows
    <3>4. n \in AllNames /\ (n \in ActiveByDefault) \in BOOLEAN /\ FALSE \in BOOLEAN
      BY <3>2
    <3> HIDE DEF n
    <3>5. AutomationAdded(FALSE)
      BY <3>1, <3>3, <3>4, Zenon DEF AutomationAdded
    <3>6. QED
      BY <3>3, <3>5, AddAutomationKnown DEF IInv
  <2>3. CASE UNCHANGED rows
    BY <2>3 DEF rows, IInv, RowsKnown, Templates, Automations, Ids
  <2>4. QED
    BY <2>1, <2>2, <2>3
       DEF Request, ListAutomations, Seed, Status, Begin, DefaultAutomationsSeeded,
           DefaultTemplatesSeeded, CheckTemplate, CheckAutomation, FindTemplate
<1>4. Fields \subseteq Fields'
  <2>1. CASE made' = made
    BY <2>1 DEF Fields, Ids
  <2>2. QED
    BY <1>3, <2>1, WiderTypes DEF IInv
<1>5. CallsFit'
  <2>1. /\ DOMAIN call' = Callers /\ call' = [h \in Callers |-> call'[h]]
        /\ \A h \in Callers : call'[h] = IF h = c THEN r ELSE call[h]
    BY <1>2 DEF Moves, IInv, CallsFit
  <2>2. Fit(r) /\ \A h \in Callers : Fit(call[h])
    BY <1>2 DEF Moves, IInv, CallsFit
  <2>3. ASSUME NEW h \in Callers, NEW q, q = call'[h] PROVE q \in Fields' /\ Fit(q)
    BY <1>4, <2>1, <2>2, <2>3 DEF Fit
  <2>4. \A h \in Callers : Fit(call[h])'
    BY <2>3 DEF Fit, Pending
  <2>5. QED
    BY <1>1, <2>1, <2>4 DEF CallsFit
<1>6. calls' \in 0..MaxCalls /\ restarts' = restarts
  <2>1. /\ restarts' = restarts
        /\ calls' = calls \/ (calls < MaxCalls /\ calls' = calls + 1)
    BY DEF Request, ListAutomations, Seed, Status, Begin, DefaultAutomationsSeeded, bounds,
           DefaultTemplatesSeeded, CheckTemplate, InsertTemplate, CheckAutomation, FindTemplate,
           InsertAutomation
  <2>2. calls \in 0..MaxCalls /\ MaxCalls \in Nat
    BY SeedingAssumption DEF IInv, Bounded
  <2>3. QED
    BY <2>1, <2>2
<1>7. Bounded'
  BY <1>1, <1>6 DEF IInv, Bounded
<1>8. ErrorsFit'
  BY RequestMoves, StatementFits DEF IInv
<1>9. LoopFits'
  BY <1>1, <1>3, WiderTypes DEF IInv, LoopFits, Ids
<1>10. QED
  BY <1>3, <1>5, <1>7, <1>8, <1>9 DEF IInv

LEMMA MerchantIInv ==
  ASSUME IInv, Merchant
  PROVE  IInv'
<1>1. Edit
  BY DEF Merchant, CreateTemplate, DeleteTemplate, UpdateTemplate, CreateAutomation,
         ToggleAutomation, DeleteAutomation, UpdateAutomation
<1>2. /\ \A t \in templates : t.id \in Ids /\ t \in Templates
      /\ \A i \in Live \cup {NoId} : i \in Ids \cup {NoId}
      /\ Written \subseteq AllNames /\ \A a \in automations : a.name \in AllNames
  BY SeedingAssumption DEF IInv, RowsKnown, Templates, Automations, Live
<1>3. RowsKnown' /\ (made' = made \/ made' = made + 1)
  <2>1. ASSUME NEW n \in AllNames, CreateTemplate(n) PROVE RowsKnown' /\ made' = made + 1
    <3>1. TemplateAdded /\ made' = made + 1 /\ automations' = automations
      BY <2>1 DEF CreateTemplate, TemplateAdded
    <3>2. QED
      BY <3>1, AddTemplateKnown DEF IInv
  <2>2. ASSUME NEW t \in templates, NEW n \in AllNames, UpdateTemplate(t, n) PROVE RowsKnown' /\ made' = made
    <3>1. [t EXCEPT !.name = n] \in Templates /\ [t EXCEPT !.name = n].id = t.id
      BY <1>2 DEF Templates
    <3>2. QED
      BY <2>2, <3>1, RowChangedKnown DEF UpdateTemplate, IInv
  <2>3. ASSUME NEW t \in templates, DeleteTemplate(t) PROVE RowsKnown' /\ made' = made
    BY <2>3, RowChangedKnown DEF DeleteTemplate, IInv
  <2>4. ASSUME NEW n \in AllNames, NEW i \in Ids \cup {NoId}, CreateAutomation(n, i)
        PROVE  RowsKnown' /\ made' = made + 1
    <3>1. AutomationAdded(TRUE) /\ made' = made + 1 /\ templates' = templates
      BY <2>4 DEF CreateAutomation, AutomationAdded
    <3>2. QED
      BY <3>1, AddAutomationKnown DEF IInv
  <2>5. ASSUME NEW a \in automations, DeleteAutomation(a) PROVE RowsKnown' /\ made' = made
    BY <2>5, RowChangedKnown DEF DeleteAutomation, IInv
  <2>6. ASSUME NEW a \in automations, ToggleAutomation(a) PROVE RowsKnown' /\ made' = made
    <3>1. a \in Automations
      BY DEF IInv, RowsKnown
    <3>2. [a EXCEPT !.active = ~@] \in Automations /\ [a EXCEPT !.active = ~@].id = a.id
      BY <3>1 DEF Automations
    <3>3. QED
      BY <2>6, <3>2, RowChangedKnown DEF ToggleAutomation, IInv
  <2>7. ASSUME NEW a \in automations, NEW n \in AllNames, NEW i \in Ids \cup {NoId},
               NEW active \in BOOLEAN, UpdateAutomation(a, n, i, active)
        PROVE  RowsKnown' /\ made' = made
    <3> DEFINE b == [a EXCEPT !.name = n, !.tmpl = i, !.active = active, !.own = TRUE]
    <3>1. a \in Automations
      BY DEF IInv, RowsKnown
    <3>2. b \in Automations /\ b.id = a.id
      BY <3>1 DEF Automations
    <3>3. automations' = (automations \ {a}) \cup {b} /\ UNCHANGED <<templates, made>>
      BY <2>7 DEF UpdateAutomation
    <3> HIDE DEF b
    <3>4. QED
      BY <3>2, <3>3, RowChangedKnown DEF IInv
  <2>8. QED
    BY <1>2, <2>1, <2>2, <2>3, <2>4, <2>5, <2>6, <2>7 DEF Merchant
<1>4. Fields \subseteq Fields'
  <2>1. CASE made' = made
    BY <2>1 DEF Fields, Ids
  <2>2. QED
    BY <1>3, <2>1, WiderTypes DEF IInv
<1>5. CallsFit'
  BY <1>1, <1>4 DEF Edit, loop, IInv, CallsFit, Fit, Pending
<1>6. Bounded'
  BY <1>1 DEF Edit, loop, IInv, Bounded
<1>7. ErrorsFit'
  BY <1>1, SeedingAssumption DEF Edit, errors, IInv, ErrorsFit
<1>8. LoopFits'
  BY <1>1, <1>3, WiderTypes DEF Edit, loop, IInv, LoopFits, Ids
<1>9. QED
  BY <1>3, <1>5, <1>6, <1>7, <1>8 DEF IInv
(* The steps of the start.                                                *)
Starts == Restart \/ (\E ok \in BOOLEAN : Migrate(ok)) \/ Serve

LEMMA MigrateFrame ==
  ASSUME NEW ok \in BOOLEAN, Migrate(ok)
  PROVE  /\ Start(ok) /\ phase # "up" /\ phase' \in Phases /\ phase' # "up"
         /\ made' = made /\ call' = call /\ UNCHANGED bounds /\ Statement(ok)
<1>1. Start(ok) /\ phase # "up" /\ phase' \in Phases /\ phase' # "up"
  BY DEF Migrate, RetireTemplates, RetireAutomations, ReadBroken, Heal, ReadTemplates, Repoint,
         DropTemplate, ReadAutomations, DropAutomation, Read, Phases
<1>2. QED
  BY <1>1 DEF Start

(* What Repoint does to the automations.                                  *)
LEMMA RepointGives ==
  ASSUME IInv, NEW ok \in BOOLEAN, Repoint(ok)
  PROVE  /\ templates' = templates /\ phase' = phase /\ work' = work /\ made' = made
         /\ \E t \in templates : \E m \in templates :
              /\ m = Master(NamedTemplates(t.name)) /\ t # m /\ t.id \in work /\ dup' = t.id
              /\ ~ok => automations' = automations
              /\ ok => Given(Users(t, m), m.id)
<1>1. templates' = templates /\ phase' = phase /\ work' = work /\ made' = made
  BY DEF Repoint, Start
<1>2. PICK t \in templates :
        /\ t # Master(NamedTemplates(t.name)) /\ t.id \in work /\ dup' = t.id
        /\ ~ok => automations' = automations
        /\ ok => Given(Users(t, Master(NamedTemplates(t.name))), Master(NamedTemplates(t.name)).id)
  BY DEF Repoint, Copies, Given
<1>3. Master(NamedTemplates(t.name)) \in templates
  BY MasterIsThere DEF IInv, NamedTemplates
<1>4. QED
  BY <1>1, <1>2, <1>3

(* The rows after a step of the start: some are gone; an automation may   *)
(* have got the template m.                                               *)
Trimmed == automations' \subseteq automations /\ templates' \subseteq templates

Moved(users, m) ==
    /\ templates' = templates
    /\ \A b \in automations' : \E a \in automations :
         /\ b.id = a.id /\ b.name = a.name /\ b.own = a.own
         /\ b = a \/ (a \in users /\ b.tmpl = m.id)

LEMMA HealMoves ==
  ASSUME IInv, NEW ok \in BOOLEAN, Heal(ok)
  PROVE  \E a \in automations, t \in templates :
           /\ a.id \in work /\ Healable(a) /\ work' = work \ {a.id} /\ Moved({a}, t)
           /\ automations' \subseteq Automations
           /\ \A x, y \in automations' : x.id = y.id => x = y
           /\ ok => \A b \in automations' : b.id = a.id => b.tmpl = t.id
           /\ \A b \in automations' : b.id # a.id => b \in automations
<1>1. PICK a \in automations : \E t \in DefaultTemplates(a.name) :
        /\ a.id \in work /\ Healable(a) /\ work' = work \ {a.id}
        /\ automations' = IF ok THEN (automations \ {a}) \cup {[a EXCEPT !.tmpl = t.id]}
                                ELSE automations
  BY DEF Heal
<1>9. PICK t \in DefaultTemplates(a.name) :
        /\ a.id \in work /\ Healable(a) /\ work' = work \ {a.id}
        /\ automations' = IF ok THEN (automations \ {a}) \cup {[a EXCEPT !.tmpl = t.id]}
                                ELSE automations
  BY <1>1
<1>2. t \in templates /\ t.id \in Ids /\ templates' = templates /\ a \in Automations
  BY DEF DefaultTemplates, NamedTemplates, IInv, RowsKnown, Templates, Heal
<1> DEFINE b == [a EXCEPT !.tmpl = t.id]
<1>3. b \in Automations /\ b.id = a.id /\ b.name = a.name /\ b.own = a.own /\ b.tmpl = t.id
  BY <1>2 DEF Automations
<1>4. automations' = IF ok THEN (automations \ {a}) \cup {b} ELSE automations
  BY <1>9
<1>5. /\ automations \subseteq Automations
      /\ \A x, y \in automations : x.id = y.id => x = y
  BY DEF IInv, RowsKnown
<1> HIDE DEF b
<1>6. Moved({a}, t)
  BY <1>2, <1>3, <1>4 DEF Moved
<1>7. /\ automations' \subseteq Automations
      /\ \A x, y \in automations' : x.id = y.id => x = y
      /\ ok => \A x \in automations' : x.id = a.id => x.tmpl = t.id
      /\ \A x \in automations' : x.id # a.id => x \in automations
  BY <1>3, <1>4, <1>5
<1>8. QED
  BY <1>9, <1>2, <1>6, <1>7

LEMMA RepointMoves ==
  ASSUME IInv, NEW ok \in BOOLEAN, Repoint(ok)
  PROVE  \E t, m \in templates :
           /\ m = Master(NamedTemplates(t.name)) /\ t # m /\ t.id \in work /\ dup' = t.id
           /\ Moved(Users(t, m), m)
           /\ automations' \subseteq Automations
           /\ \A x, y \in automations' : x.id = y.id => x = y
           /\ ok => \A b \in automations' : b.tmpl # t.id
<1>1. PICK t \in templates, m \in templates :
        /\ m = Master(NamedTemplates(t.name)) /\ t # m /\ t.id \in work /\ dup' = t.id
        /\ ~ok => automations' = automations
        /\ ok => Given(Users(t, m), m.id)
  BY RepointGives
<1>2. templates' = templates /\ made' = made
  BY RepointGives
<1>3. m.id # t.id /\ m.id \in Ids
  BY <1>1 DEF IInv, RowsKnown, Templates
<1>4. CASE ok
  <2>1. Users(t, m) \in SUBSET automations
    BY DEF Users
  <2>2. /\ automations' \subseteq Automations
        /\ \A b \in automations' : \E a \in automations :
             /\ b.id = a.id /\ b.name = a.name /\ b.active = a.active /\ b.own = a.own
             /\ (b = a /\ a \notin Users(t, m))
                  \/ (b.tmpl = m.id /\ a \in Users(t, m) /\ b = [a EXCEPT !.tmpl = m.id])
        /\ \A a, b \in automations' : a.id = b.id => a = b
    BY <1>1, <1>2, <1>3, <1>4, <2>1, Repointed DEF IInv
  <2>3. Moved(Users(t, m), m)
    BY <1>2, <2>2 DEF Moved
  <2>4. \A b \in automations' : b.tmpl # t.id
    BY <1>3, <2>2 DEF Users
  <2>5. QED
    BY <1>1, <2>2, <2>3, <2>4
<1>5. CASE ~ok
  <2>1. Moved(Users(t, m), m)
    BY <1>1, <1>2, <1>5 DEF Moved
  <2>2. QED
    BY <1>1, <1>5, <2>1 DEF IInv, RowsKnown
<1>6. QED
  BY <1>4, <1>5

LEMMA OthersTrim ==
  ASSUME Starts, ~(\E ok \in BOOLEAN : Heal(ok) \/ Repoint(ok))
  PROVE  Trimmed /\ made' = made
BY DEF Starts, Migrate, Restart, Serve, Start, RetireTemplates, RetireAutomations, ReadBroken, Read,
       ReadTemplates, DropTemplate, ReadAutomations, DropAutomation, Trimmed, rows

LEMMA StartIInv ==
  ASSUME IInv, Starts
  PROVE  IInv'
<1>1. made' = made /\ calls' = calls /\ edits' = edits /\ phase' \in Phases
  <2>1. CASE \E ok \in BOOLEAN : Migrate(ok)
    BY <2>1, MigrateFrame DEF bounds
  <2>2. CASE Restart \/ Serve
    BY <2>2 DEF Restart, Serve, Start, rows, bounds, Phases
  <2>3. QED
    BY <2>1, <2>2 DEF Starts
<1>2. restarts' \in 0..MaxRestarts
  <2>1. restarts' = restarts \/ (restarts < MaxRestarts /\ restarts' = restarts + 1)
    BY MigrateFrame DEF Starts, Restart, Serve, Start, bounds
  <2>2. restarts \in 0..MaxRestarts /\ MaxRestarts \in Nat
    BY SeedingAssumption DEF IInv, Bounded
  <2>3. QED
    BY <2>1, <2>2
<1>3. Bounded'
  BY <1>1, <1>2 DEF IInv, Bounded
<1>4. CallsFit'
  <2>1. Fields' = Fields
    BY <1>1 DEF Fields, Ids
  <2>2. CASE Restart
    <3>1. call' = [c \in Callers |-> Idle]
      BY <2>2 DEF Restart
    <3>2. Fit(Idle)'
      BY <2>1, IdleFits DEF Fit, Pending
    <3>3. \A c \in Callers : call'[c] = Idle
      BY <3>1
    <3>4. \A c \in Callers : Fit(call[c])'
      BY <3>2, <3>3 DEF Fit, Pending
    <3>5. QED
      BY <3>1, <3>3, <3>4 DEF CallsFit
  <2>3. CASE ~Restart
    <3>1. call' = call /\ phase # "up"
      BY <2>3, MigrateFrame DEF Starts, Serve, Start
    <3>2. QED
      BY <2>1, <3>1 DEF IInv, CallsFit, Fit, Pending
  <2>4. QED
    BY <2>2, <2>3
<1>5. ErrorsFit'
  <2>1. CASE Restart
    BY <1>1, <2>1 DEF Restart, IInv, ErrorsFit
  <2>2. ASSUME NEW ok \in BOOLEAN, Start(ok) PROVE ErrorsFit'
    BY <1>1, <2>2, StatementFits DEF Start, IInv
  <2>3. QED
    BY <2>1, <2>2, MigrateFrame DEF Starts, Serve
<1>6. LoopFits'
  <2>1. Ids' = Ids /\ work \subseteq Ids /\ dup \in Ids \cup {NoId}
    BY <1>1 DEF Ids, IInv, LoopFits
  <2>2. /\ \A a \in automations : a.id \in Ids
        /\ \A t \in templates : t.id \in Ids
    BY DEF IInv, RowsKnown, Templates, Automations
  <2>3. CASE \E ok \in BOOLEAN : ReadBroken(ok) \/ ReadTemplates(ok) \/ ReadAutomations(ok)
    BY <2>1, <2>2, <2>3 DEF ReadBroken, ReadTemplates, ReadAutomations, Read, Copies, Duplicates, LoopFits
  <2>4. CASE \E ok \in BOOLEAN : Repoint(ok)
    BY <2>1, <2>2, <2>4, RepointGives DEF LoopFits
  <2>5. CASE Starts /\ ~(\E ok \in BOOLEAN : ReadBroken(ok) \/ ReadTemplates(ok) \/ ReadAutomations(ok) \/ Repoint(ok))
    <3>1. work' \subseteq work /\ (dup' = dup \/ dup' = NoId)
      <4>1. work' = {} => work' \subseteq work
        OBVIOUS
      <4>2. QED
        BY <2>5, <4>1 DEF Starts, Migrate, Restart, Serve, RetireTemplates, RetireAutomations, Heal,
              DropTemplate, DropAutomation
    <3>2. QED
      BY <2>1, <3>1 DEF LoopFits
  <2>6. QED
    BY <2>3, <2>4, <2>5
<1>7. RowsKnown'
  <2>1. CASE Trimmed
    <3>1. Ids' = Ids /\ Templates' = Templates /\ Automations' = Automations
      BY <1>1 DEF Ids, Templates, Automations
    <3>2. QED
      BY <1>1, <2>1, <3>1 DEF Trimmed, IInv, RowsKnown
  <2>2. ASSUME NEW users, NEW m, Moved(users, m), automations' \subseteq Automations,
               \A x, y \in automations' : x.id = y.id => x = y
        PROVE  RowsKnown'
    BY <1>1, <2>2 DEF Moved, IInv, RowsKnown, Templates, Automations, Ids
  <2>3. CASE \E ok \in BOOLEAN : Heal(ok)
    BY <2>2, <2>3, HealMoves
  <2>4. CASE \E ok \in BOOLEAN : Repoint(ok)
    BY <2>2, <2>4, RepointMoves
  <2>5. QED
    BY <2>1, <2>3, <2>4, OthersTrim
<1>8. QED
  BY <1>3, <1>4, <1>5, <1>6, <1>7 DEF IInv

LEMMA NextIInv == IInv /\ [Next]_vars => IInv'
<1> SUFFICES ASSUME IInv, [Next]_vars PROVE IInv'
  OBVIOUS
<1>1. CASE UNCHANGED vars
  BY <1>1 DEF vars, rows, loop, errors, bounds, IInv, RowsKnown, CallsFit, Bounded, LoopFits, ErrorsFit,
              Fit, Pending, Fields, Templates, Automations, Ids
<1>2. QED
  BY <1>1, RequestIInv, MerchantIInv, StartIInv DEF Next, Starts

LEMMA Invariance == Spec => []IInv
BY InitIInv, NextIInv, PTL DEF Spec

(* The rows, the requests and the start keep their types.                 *)
THEOREM SeedingTypeCorrect == Spec => []TypeOK
BY Invariance, TypeFromIInv, PTL
-----------------------------------------------------------------------------
(* The seeded automations of a name, and the callers about to insert one. *)
SeededIds(n) == {a.id : a \in {b \in NamedAutomations(n) : b.own = FALSE}}
Inserting(n) == {c \in Callers : Pending(call[c]) /\ Min(call[c].todo) = n}

WithinCallers ==
    \A n \in Names : Cardinality(SeededIds(n)) + Cardinality(Inserting(n)) <= Cardinality(Callers) + lost

Countable ==
    \A n \in Names :
        /\ IsFiniteSet(SeededIds(n)) /\ Cardinality(SeededIds(n)) \in Nat
        /\ IsFiniteSet(Inserting(n)) /\ Cardinality(Inserting(n)) \in Nat
        /\ Cardinality(Inserting(n)) <= Cardinality(Callers) /\ Cardinality(Callers) \in Nat

LEMMA CountsFinite == RowsKnown => Countable
<1> SUFFICES ASSUME RowsKnown, NEW n \in Names
             PROVE  /\ IsFiniteSet(SeededIds(n)) /\ Cardinality(SeededIds(n)) \in Nat
                    /\ IsFiniteSet(Inserting(n)) /\ Cardinality(Inserting(n)) \in Nat
                    /\ Cardinality(Inserting(n)) <= Cardinality(Callers) /\ Cardinality(Callers) \in Nat
  BY DEF Countable
<1>1. SeededIds(n) \in SUBSET (1..made) /\ made \in Nat
  BY DEF SeededIds, NamedAutomations, RowsKnown, Automations, Ids
<1>2. IsFiniteSet(1..made)
  BY <1>1, FS_Interval
<1>3. IsFiniteSet(SeededIds(n))
  BY <1>1, <1>2, FS_Subset
<1>4. Inserting(n) \in SUBSET Callers /\ IsFiniteSet(Callers)
  BY SeedingAssumption DEF Inserting
<1>5. IsFiniteSet(Inserting(n)) /\ Cardinality(Inserting(n)) <= Cardinality(Callers)
  BY <1>4, FS_Subset
<1>6. QED
  BY <1>3, <1>4, <1>5, FS_CardinalityType

(* A step counts a statement that fails, and forgets none.                *)
Counted == lost \in Nat /\ (lost' = lost \/ lost' = lost + 1)

LEMMA NextCounts ==
  ASSUME IInv, [Next]_vars
  PROVE  Counted
<1>1. lost \in Nat
  BY DEF IInv, ErrorsFit
<1>2. ASSUME NEW ok \in BOOLEAN, Statement(ok) PROVE lost' = lost \/ lost' = lost + 1
  BY <1>2 DEF Statement, DropError, errors
<1>3. CASE Merchant \/ Restart \/ UNCHANGED vars
  BY <1>1, <1>3 DEF Merchant, CreateTemplate, DeleteTemplate, UpdateTemplate, CreateAutomation, Edit,
         ToggleAutomation, DeleteAutomation, UpdateAutomation, Restart, vars, errors, Counted
<1>4. CASE \E c \in Callers : Request(c)
  BY <1>1, <1>2, <1>4, RequestMoves DEF Counted
<1>5. CASE (\E ok \in BOOLEAN : Migrate(ok)) \/ Serve
  BY <1>1, <1>2, <1>5, MigrateFrame DEF Serve, Start, Counted
<1>6. QED
  BY <1>3, <1>4, <1>5 DEF Next

LEMMA FewerWithin ==
  ASSUME IInv, IInv', Counted, NEW n \in Names, SeededIds(n)' \subseteq SeededIds(n),
         Inserting(n)' \subseteq Inserting(n),
         Cardinality(SeededIds(n)) + Cardinality(Inserting(n)) <= Cardinality(Callers) + lost
  PROVE  (Cardinality(SeededIds(n)) + Cardinality(Inserting(n)) <= Cardinality(Callers) + lost)'
<1>1. /\ IsFiniteSet(SeededIds(n)) /\ Cardinality(SeededIds(n)) \in Nat
      /\ IsFiniteSet(Inserting(n)) /\ Cardinality(Inserting(n)) \in Nat
      /\ Cardinality(Callers) \in Nat
  BY CountsFinite DEF IInv, Countable
<1>2. Cardinality(SeededIds(n)') <= Cardinality(SeededIds(n)) /\ IsFiniteSet(SeededIds(n)')
  BY <1>1, FS_Subset
<1>3. Cardinality(Inserting(n)') <= Cardinality(Inserting(n)) /\ IsFiniteSet(Inserting(n)')
  BY <1>1, FS_Subset
<1>4. Cardinality(SeededIds(n)') \in Nat /\ Cardinality(Inserting(n)') \in Nat
  BY <1>2, <1>3, FS_CardinalityType
<1>5. QED
  BY <1>1, <1>2, <1>3, <1>4 DEF Counted

(* The statements of the merchant and of the start seed nothing.          *)
SeedsNone ==
    \A b \in automations' :
        \/ b.own # FALSE
        \/ \E a \in automations : b.id = a.id /\ b.name = a.name /\ b.own = a.own

LEMMA NothingSeeded ==
  ASSUME SeedsNone, NEW n
  PROVE  SeededIds(n)' \subseteq SeededIds(n)
<1> SUFFICES ASSUME NEW i \in SeededIds(n)' PROVE i \in SeededIds(n)
  OBVIOUS
<1>1. PICK b \in automations' : b.id = i /\ b.name = n /\ b.own = FALSE
  BY DEF SeededIds, NamedAutomations
<1>2. PICK a \in automations : b.id = a.id /\ b.name = a.name /\ b.own = a.own
  BY <1>1 DEF SeedsNone
<1>3. QED
  BY <1>1, <1>2 DEF SeededIds, NamedAutomations

LEMMA OthersSeedNothing ==
  ASSUME IInv, Merchant \/ Starts
  PROVE  SeedsNone
<1>1. CASE automations' \subseteq automations
  BY <1>1 DEF SeedsNone
<1>2. automations \subseteq Automations
  BY DEF IInv, RowsKnown
<1>3. ASSUME NEW a \in automations, NEW b, b.id = a.id, b.own # FALSE \/ (b.name = a.name /\ b.own = a.own),
             automations' = (automations \ {a}) \cup {b}
      PROVE  SeedsNone
  BY <1>3 DEF SeedsNone
<1>4. CASE Merchant
  <2>1. ASSUME NEW n, NEW i, CreateAutomation(n, i)
        PROVE  SeedsNone
    <3> DEFINE b == [id |-> made + 1, name |-> n, tmpl |-> i, active |-> TRUE, own |-> TRUE]
    <3>1. b.own # FALSE
      OBVIOUS
    <3>2. automations' = automations \cup {b}
      BY <2>1 DEF CreateAutomation
    <3> HIDE DEF b
    <3>3. QED
      BY <3>1, <3>2 DEF SeedsNone
  <2>2. ASSUME NEW a \in automations, ToggleAutomation(a)
        PROVE  SeedsNone
    <3> DEFINE b == [a EXCEPT !.active = ~@]
    <3>1. b.id = a.id /\ b.name = a.name /\ b.own = a.own
      BY <1>2 DEF Automations
    <3>2. automations' = (automations \ {a}) \cup {b}
      BY <2>2 DEF ToggleAutomation
    <3> HIDE DEF b
    <3>3. QED
      BY <1>3, <3>1, <3>2
  <2>3. ASSUME NEW a \in automations, NEW n, NEW i, NEW active \in BOOLEAN,
               UpdateAutomation(a, n, i, active)
        PROVE  SeedsNone
    <3> DEFINE b == [a EXCEPT !.name = n, !.tmpl = i, !.active = active, !.own = TRUE]
    <3>1. b.id = a.id /\ b.own # FALSE
      BY <1>2 DEF Automations
    <3>2. automations' = (automations \ {a}) \cup {b}
      BY <2>3 DEF UpdateAutomation
    <3> HIDE DEF b
    <3>3. QED
      BY <1>3, <3>1, <3>2
  <2>4. QED
    BY <1>1, <1>4, <2>1, <2>2, <2>3
       DEF Merchant, CreateTemplate, DeleteTemplate, UpdateTemplate, DeleteAutomation
<1>5. CASE \E users, t : Moved(users, t)
  BY <1>5 DEF Moved, SeedsNone
<1>6. CASE Starts
  BY <1>1, <1>5, <1>6, HealMoves, RepointMoves, OthersTrim DEF Trimmed
<1>7. QED
  BY <1>4, <1>6
(* A request adds to the callers about to insert only while there is no   *)
(* automation of the name, and its INSERT takes its caller from them.     *)
LEMMA RequestWithin ==
  ASSUME IInv, IInv', Counted, WithinCallers, NEW c \in Callers, Request(c)
  PROVE  WithinCallers'
<1>1. PICK r : Moves(c, r)
  BY RequestMoves
<1>2. /\ \A h \in Callers : call'[h] = IF h = c THEN r ELSE call[h]
  BY <1>1 DEF Moves, IInv, CallsFit
<1>3. ASSUME NEW n \in Names
      PROVE  /\ Inserting(n)' \subseteq Inserting(n) \cup {c}
             /\ \/ Inserting(n)' \subseteq Inserting(n)
                \/ NamedAutomations(n) = {}
                \/ lost' = lost + 1
  <2>1. ASSUME c \in Inserting(n)', c \notin Inserting(n)
        PROVE  NamedAutomations(n) = {} \/ lost' = lost + 1
    <3>1. Pending(r) /\ Min(r.todo) = n
      BY <1>2, <2>1 DEF Inserting, Pending
    <3>2. ~(Pending(call[c]) /\ r.todo = call[c].todo)
      BY <2>1, <3>1 DEF Inserting
    <3>3. QED
      BY <1>1, <3>1, <3>2 DEF Moves, Enters
  <2>2. ASSUME NEW h \in Callers, h # c, h \in Inserting(n)' PROVE h \in Inserting(n)
    BY <1>2, <2>2 DEF Inserting, Pending
  <2>3. Inserting(n)' \subseteq Callers
    BY DEF Inserting
  <2>4. QED
    BY <2>1, <2>2, <2>3
<1>4. ASSUME NEW n \in Names, SeededIds(n)' \subseteq SeededIds(n)
      PROVE  (Cardinality(SeededIds(n)) + Cardinality(Inserting(n)) <= Cardinality(Callers) + lost)'
  <2>1. CASE Inserting(n)' \subseteq Inserting(n)
    BY <1>4, <2>1, FewerWithin DEF WithinCallers
  <2>2. CASE NamedAutomations(n) = {}
    <3>1. SeededIds(n)' = {}
      BY <1>4, <2>2 DEF SeededIds
    <3>2. Cardinality(SeededIds(n)') = 0
      BY <3>1, FS_EmptySet
    <3>3. RowsKnown' => Countable'
      BY CountsFinite, PTL
    <3>4. /\ Cardinality(Inserting(n)') \in Nat /\ Cardinality(Callers) \in Nat
          /\ Cardinality(Inserting(n)') <= Cardinality(Callers)
      BY <3>3 DEF IInv, Countable
    <3>5. QED
      BY <3>2, <3>4 DEF Counted
  <2>3. CASE lost' = lost + 1
    <3> DEFINE old == Inserting(n)
    <3>1. /\ IsFiniteSet(SeededIds(n)) /\ Cardinality(SeededIds(n)) \in Nat
          /\ IsFiniteSet(old) /\ Cardinality(old) \in Nat /\ Cardinality(Callers) \in Nat
          /\ Cardinality(SeededIds(n)) + Cardinality(old) <= Cardinality(Callers) + lost
      BY CountsFinite DEF IInv, Countable, WithinCallers
    <3>2. Inserting(n)' \subseteq old \cup {c}
      BY <1>3
    <3> HIDE DEF old
    <3>3. /\ IsFiniteSet(old \cup {c})
          /\ Cardinality(old \cup {c}) = IF c \in old THEN Cardinality(old) ELSE Cardinality(old) + 1
      BY <3>1, FS_AddElement, Zenon
    <3>4. Cardinality(Inserting(n)') <= Cardinality(old \cup {c}) /\ IsFiniteSet(Inserting(n)')
      BY <3>2, <3>3, FS_Subset
    <3>5. Cardinality(SeededIds(n)') <= Cardinality(SeededIds(n)) /\ IsFiniteSet(SeededIds(n)')
      BY <1>4, <3>1, FS_Subset
    <3>6. /\ Cardinality(SeededIds(n)') \in Nat /\ Cardinality(Inserting(n)') \in Nat
          /\ Cardinality(old \cup {c}) \in Nat
      BY <3>3, <3>4, <3>5, FS_CardinalityType
    <3>7. QED
      BY <2>3, <3>1, <3>3, <3>4, <3>5, <3>6 DEF Counted
  <2>4. QED
    BY <1>3, <2>1, <2>2, <2>3
<1>5. CASE InsertAutomation(c) /\ automations' # automations
  <2>1. PICK k : k = Min(call[c].todo)
    OBVIOUS
  <2> DEFINE new == [id |-> made + 1, name |-> k, tmpl |-> call[c].tmpl,
                     active |-> k \in ActiveByDefault, own |-> FALSE]
  <2>2. /\ automations' = automations \cup {new} /\ pc(c) = "insert"
        /\ Become(c, [call[c] EXCEPT !.todo = @ \ {k}, !.pc = "automation", !.tmpl = NoId])
    BY <1>5, <2>1 DEF InsertAutomation
  <2>3. new.id = made + 1 /\ new.name = k
    OBVIOUS
  <2>4. call'[c].pc = "automation"
    <3>1. call[c] \in Fields /\ c \in DOMAIN call
      BY DEF IInv, CallsFit, Fit
    <3>2. [call[c] EXCEPT !.todo = @ \ {k}, !.pc = "automation", !.tmpl = NoId].pc = "automation"
      BY <3>1 DEF Fields
    <3>3. QED
      BY <2>2, <3>1, <3>2 DEF Become
  <2>5. c \in Inserting(k) /\ \A n \in Names : c \notin Inserting(n)'
    BY <2>1, <2>2, <2>4 DEF Inserting, Pending, pc
  <2> HIDE DEF new
  <2>6. ASSUME NEW n \in Names PROVE Inserting(n)' \subseteq Inserting(n) \ {c}
    <3>1. ASSUME NEW h \in Inserting(n)' PROVE h \in Inserting(n) \ {c}
      <4>1. h \in Callers /\ h # c /\ call'[h] = call[h]
        BY <1>2, <2>5 DEF Inserting
      <4>2. Pending(call[h]) /\ Min(call[h].todo) = n
        BY <4>1 DEF Inserting, Pending
      <4>3. QED
        BY <4>1, <4>2 DEF Inserting
    <3>2. QED
      BY <3>1
  <2>7. ASSUME NEW n \in Names
        PROVE  (Cardinality(SeededIds(n)) + Cardinality(Inserting(n)) <= Cardinality(Callers) + lost)'
    <3>1. CASE n # k
      <4>1. SeededIds(n)' \subseteq SeededIds(n)
        BY <2>2, <2>3, <3>1 DEF SeededIds, NamedAutomations
      <4>2. QED
        BY <1>4, <4>1
    <3>2. CASE n = k
      <4>1. SeededIds(n)' \subseteq SeededIds(n) \cup {made + 1}
        BY <2>2, <2>3 DEF SeededIds, NamedAutomations
      <4>2. /\ IsFiniteSet(SeededIds(n)) /\ Cardinality(SeededIds(n)) \in Nat
            /\ IsFiniteSet(Inserting(n)) /\ Cardinality(Inserting(n)) \in Nat
            /\ Cardinality(Callers) \in Nat
            /\ Cardinality(SeededIds(n)) + Cardinality(Inserting(n)) <= Cardinality(Callers) + lost
        BY CountsFinite DEF IInv, Countable, WithinCallers
      <4>3. /\ IsFiniteSet(SeededIds(n) \cup {made + 1})
            /\ Cardinality(SeededIds(n) \cup {made + 1}) <= Cardinality(SeededIds(n)) + 1
        <5> DEFINE old == SeededIds(n)
        <5> HIDE DEF old
        <5>1. old = SeededIds(n) /\ IsFiniteSet(old) /\ Cardinality(old) \in Nat
          BY <4>2 DEF old
        <5>2. /\ IsFiniteSet(old \cup {made + 1})
              /\ Cardinality(old \cup {made + 1})
                   = IF made + 1 \in old THEN Cardinality(old) ELSE Cardinality(old) + 1
          BY <5>1, FS_AddElement, Zenon
        <5>3. QED
          BY <5>1, <5>2
      <4>4. /\ Cardinality(SeededIds(n)') <= Cardinality(SeededIds(n) \cup {made + 1})
            /\ IsFiniteSet(SeededIds(n)')
        BY <4>1, <4>3, FS_Subset
      <4>5. IsFiniteSet(Inserting(n) \ {c}) /\ Cardinality(Inserting(n) \ {c}) = Cardinality(Inserting(n)) - 1
        BY <2>5, <3>2, <4>2, FS_RemoveElement
      <4>6. Cardinality(Inserting(n)') <= Cardinality(Inserting(n) \ {c}) /\ IsFiniteSet(Inserting(n)')
        BY <2>6, <4>5, FS_Subset
      <4>7. /\ Cardinality(SeededIds(n)') \in Nat /\ Cardinality(Inserting(n)') \in Nat
            /\ Cardinality(SeededIds(n) \cup {made + 1}) \in Nat
        BY <4>3, <4>4, <4>6, FS_CardinalityType
      <4>8. QED
        BY <4>2, <4>3, <4>4, <4>5, <4>6, <4>7 DEF Counted
    <3>3. QED
      BY <3>1, <3>2
  <2>8. QED
    BY <2>7 DEF WithinCallers
<1>6. CASE automations' = automations
  <2>2. \A n \in Names : SeededIds(n)' \subseteq SeededIds(n)
    BY <1>6 DEF SeededIds, NamedAutomations
  <2>3. QED
    BY <1>4, <2>2 DEF WithinCallers
<1>7. automations' = automations \/ InsertAutomation(c)
  BY DEF Request, ListAutomations, Seed, Status, Begin, DefaultAutomationsSeeded, rows,
         DefaultTemplatesSeeded, CheckTemplate, InsertTemplate, CheckAutomation, FindTemplate
<1>8. QED
  BY <1>5, <1>6, <1>7

LEMMA OthersWithin ==
  ASSUME IInv, IInv', Counted, WithinCallers, Merchant \/ Starts \/ UNCHANGED vars
  PROVE  WithinCallers'
<1>1. SeedsNone
  <2>1. CASE UNCHANGED vars
    BY <2>1 DEF vars, rows, SeedsNone
  <2>2. QED
    BY <2>1, OthersSeedNothing
<1>2. call' = call \/ call' = [c \in Callers |-> Idle]
  BY MigrateFrame DEF Merchant, CreateTemplate, DeleteTemplate, UpdateTemplate, CreateAutomation, Edit,
         ToggleAutomation, DeleteAutomation, UpdateAutomation, Starts, Restart, Serve, Start, vars
<1>3. ASSUME NEW n \in Names PROVE Inserting(n)' \subseteq Inserting(n)
  <2>1. CASE call' = call
    BY <2>1 DEF Inserting, Pending
  <2>2. CASE call' = [c \in Callers |-> Idle]
    BY <2>2 DEF Inserting, Pending, Idle
  <2>3. QED
    BY <1>2, <2>1, <2>2
<1>4. \A n \in Names : SeededIds(n)' \subseteq SeededIds(n)
  BY <1>1, NothingSeeded
<1>5. QED
  BY <1>3, <1>4, FewerWithin DEF WithinCallers

LEMMA WithinInvariance == Spec => []WithinCallers
<1>1. Init => WithinCallers
  <2> SUFFICES ASSUME Init, NEW n \in Names
               PROVE  Cardinality(SeededIds(n)) + Cardinality(Inserting(n)) <= Cardinality(Callers) + lost
    BY DEF WithinCallers
  <2>1. SeededIds(n) = {} /\ Inserting(n) = {}
    BY DEF Init, SeededIds, NamedAutomations, Inserting, Pending, Idle
  <2>2. Cardinality(Callers) \in Nat /\ lost = 0
    BY SeedingAssumption, FS_CardinalityType DEF Init
  <2>3. QED
    BY <2>1, <2>2, FS_EmptySet
<1>2. IInv /\ IInv' /\ WithinCallers /\ [Next]_vars => WithinCallers'
  BY RequestWithin, OthersWithin, NextCounts DEF Next, Starts
<1>3. QED
  BY <1>1, <1>2, Invariance, PTL DEF Spec

(* Whatever requests seed at once, of each default at most as many        *)
(* automations fire as there are requests at once and statements that     *)
(* have failed, also after merchants have deleted some and the process    *)
(* was started again (SeedAutomations looks for the name and inserts it,  *)
(* db.go:774-801; a count that fails is 0).                               *)
THEOREM SeedsBounded == Spec => []SeededWithinOverlap
<1>1. ASSUME IInv, WithinCallers PROVE SeededWithinOverlap
  <2> SUFFICES ASSUME NEW n \in Names
               PROVE  Cardinality({a \in Fired(n) : ~a.own}) <= Cardinality(Callers) + lost
    BY DEF SeededWithinOverlap
  <2> DEFINE S == {a \in Fired(n) : ~a.own}
             f == [a \in S |-> a.id]
  <2>1. \A a \in S : a.id \in SeededIds(n) /\ a \in automations
    <3>1. \A a \in automations : a.own \in BOOLEAN
      BY <1>1 DEF IInv, RowsKnown, Automations
    <3>2. QED
      BY <3>1 DEF Fired, SeededIds, NamedAutomations
  <2>2. f \in Injection(S, SeededIds(n))
    <3>1. \A a, b \in S : a.id = b.id => a = b
      BY <1>1, <2>1 DEF IInv, RowsKnown
    <3> HIDE DEF S
    <3>2. f \in [S -> SeededIds(n)]
      BY <2>1
    <3>3. QED
      BY <3>1, <3>2 DEF Injection, IsInjective
  <2> HIDE DEF S, f
  <2>3. /\ IsFiniteSet(SeededIds(n)) /\ Cardinality(SeededIds(n)) \in Nat
        /\ Cardinality(Inserting(n)) \in Nat /\ Cardinality(Callers) \in Nat /\ lost \in Nat
        /\ Cardinality(SeededIds(n)) + Cardinality(Inserting(n)) <= Cardinality(Callers) + lost
    BY <1>1, CountsFinite DEF IInv, Countable, WithinCallers, ErrorsFit
  <2>4. IsFiniteSet(S) /\ Cardinality(S) <= Cardinality(SeededIds(n))
    BY <2>2, <2>3, FS_Injection
  <2>5. Cardinality(S) \in Nat
    BY <2>4, FS_CardinalityType
  <2>6. Cardinality(S) <= Cardinality(Callers) + lost
    BY <2>3, <2>4, <2>5
  <2>7. QED
    BY <2>6 DEF S
<1>2. QED
  BY <1>1, Invariance, WithinInvariance, PTL
-----------------------------------------------------------------------------
(* The start.  While none of its statements has failed, what the earlier   *)
(* ones have done holds until its end: first the default automations have *)
(* their template if it is there, then each name has one template, then   *)
(* one automation; a loop still has to handle the rows for which it does  *)
(* not.  A duplicate is dropped when no automation uses it any more.      *)
Healed == \A a \in automations : ~Healable(a)
OneTemplateEach == \A s, t \in templates : s.name = t.name => s = t

StartedWell ==
    /\ phase = "heal" => \A a \in automations : Healable(a) => a.id \in work
    /\ phase \in {"merge", "drop"} => Healed
    /\ phase = "merge" =>
         /\ \A s, t \in templates : s.name = t.name => s = t \/ s.id \in work \/ t.id \in work
         /\ dup # NoId => \A a \in automations : a.tmpl # dup
    /\ phase = "drop" =>
         /\ OneTemplateEach
         /\ \A a \in Duplicates(automations) : a.id \in work

StartedSoFar == (phase # "merge" => dup = NoId) /\ (clean => StartedWell)

LEMMA StartsOnly ==
  ASSUME IInv, Next, phase # "up"
  PROVE  Starts
<1>1. \A c \in Callers : ~Request(c)
  BY RequestMoves
<1>2. ~Merchant
  BY DEF Merchant, CreateTemplate, DeleteTemplate, UpdateTemplate, CreateAutomation,
         ToggleAutomation, DeleteAutomation, UpdateAutomation, Edit
<1>3. QED
  BY <1>1, <1>2 DEF Next, Starts

(* What one step does to the template of an automation.                   *)
Keeps(ids) ==
    \A a \in automations, b \in automations' : a.id = b.id /\ a.tmpl \in ids => b.tmpl \in Live'

(* An automation after a step is one before it, or has a template.        *)
Follows ==
    /\ templates' \subseteq templates
    /\ \A b \in automations' :
         \E a \in automations : b.id = a.id /\ b.name = a.name /\ (b.tmpl = a.tmpl \/ b.tmpl \in Live')

LEMMA StartKeeps ==
  ASSUME IInv, StartedSoFar, Starts, clean', phase # "up"
  PROVE  Follows /\ Keeps(Lasting) /\ (phase # "templates" => Keeps(Live))
<1>1. /\ \A a, b \in automations : a.id = b.id => a = b
      /\ \A s, t \in templates : s.id = t.id => s = t
      /\ Lasting \subseteq Live
  BY DEF IInv, RowsKnown, Lasting, Live
<1>2. ASSUME automations' \subseteq automations, templates' = templates
      PROVE  Follows /\ Keeps(Lasting) /\ Keeps(Live)
  BY <1>1, <1>2 DEF Follows, Keeps, Live
<1>3. ASSUME NEW users, NEW m \in templates, Moved(users, m)
      PROVE  Follows /\ Keeps(Lasting) /\ Keeps(Live)
  <2>1. Live' = Live /\ m.id \in Live /\ templates' = templates
    BY <1>3 DEF Moved, Live
  <2>2. \A b \in automations' : \E a \in automations :
          b.id = a.id /\ b.name = a.name /\ (b = a \/ b.tmpl \in Live')
    BY <1>3, <2>1 DEF Moved
  <2>3. Follows
    BY <2>1, <2>2 DEF Follows
  <2>4. Keeps(Live)
    BY <1>1, <2>1, <2>2 DEF Keeps
  <2>5. QED
    BY <1>1, <2>3, <2>4 DEF Keeps
<1>4. ASSUME NEW ok \in BOOLEAN, RetireTemplates(ok)
      PROVE  Follows /\ Keeps(Lasting) /\ phase = "templates"
  <2>1. automations' = automations /\ phase = "templates" /\ templates' = {t \in templates : ok => t.name # Retired}
    BY <1>4 DEF RetireTemplates
  <2>2. Lasting \subseteq Live' /\ templates' \subseteq templates
    BY <2>1 DEF Lasting, Live
  <2>3. QED
    BY <1>1, <2>1, <2>2 DEF Follows, Keeps
<1>5. ASSUME NEW ok \in BOOLEAN, DropTemplate(ok)
      PROVE  Follows /\ Keeps(Lasting) /\ Keeps(Live)
  <2>1. automations' = automations /\ templates' = {t \in templates : ok => t.id # dup}
    BY <1>5 DEF DropTemplate
  <2>2. clean /\ phase = "merge" /\ dup # NoId
    BY <1>5, StatementFits DEF DropTemplate, Start, bounds, IInv
  <2>3. \A a \in automations : a.tmpl # dup
    BY <2>2 DEF StartedSoFar, StartedWell
  <2>4. \A a \in automations : a.tmpl \in Live => a.tmpl \in Live'
    BY <2>1, <2>3 DEF Live
  <2>5. Follows
    BY <2>1 DEF Follows
  <2>6. QED
    BY <1>1, <2>1, <2>4, <2>5 DEF Keeps
<1>6. CASE \E ok \in BOOLEAN : Heal(ok) \/ Repoint(ok)
  BY <1>3, <1>6, HealMoves, RepointMoves
<1>7. CASE \E ok \in BOOLEAN : RetireTemplates(ok)
  BY <1>4, <1>7
<1>8. CASE \E ok \in BOOLEAN : DropTemplate(ok)
  BY <1>5, <1>8
<1>9. CASE \/ Restart \/ Serve
           \/ \E ok \in BOOLEAN : \/ RetireAutomations(ok) \/ ReadBroken(ok) \/ ReadTemplates(ok)
                                  \/ ReadAutomations(ok) \/ DropAutomation(ok)
  <2>1. automations' \subseteq automations /\ templates' = templates
    BY <1>9 DEF Restart, Serve, RetireAutomations, ReadBroken, ReadTemplates, ReadAutomations, Read,
                DropAutomation, rows
  <2>2. QED
    BY <1>2, <2>1
<1>10. QED
  BY <1>6, <1>7, <1>8, <1>9 DEF Starts, Migrate

LEMMA HealedStays ==
  ASSUME Healed, Follows, Keeps(Live)
  PROVE  Healed'
<1> SUFFICES ASSUME NEW b \in automations', b.name \in Names, DefaultTemplates(b.name)' # {}
             PROVE  b.tmpl \in Live'
  BY DEF Healed, Healable
<1>1. PICK a \in automations : /\ b.id = a.id /\ b.name = a.name
                               /\ b.tmpl = a.tmpl \/ b.tmpl \in Live'
  BY DEF Follows
<1>2. DefaultTemplates(a.name) # {}
  BY <1>1 DEF DefaultTemplates, NamedTemplates, Follows
<1>3. a.tmpl \in Live
  BY <1>1, <1>2 DEF Healed, Healable
<1>4. QED
  BY <1>1, <1>3 DEF Keeps

LEMMA HealedWithoutWork ==
  ASSUME StartedWell, phase = "heal", work = {}
  PROVE  Healed
BY DEF StartedWell, Healed

LEMMA MigrateWell ==
  ASSUME IInv, StartedSoFar, NEW ok \in BOOLEAN, Migrate(ok), clean'
  PROVE  StartedWell'
<1>1. clean /\ ok /\ StartedWell /\ phase # "up"
  BY MigrateFrame, StatementFits DEF IInv, StartedSoFar, bounds
<1>2. Follows /\ (phase # "templates" => Keeps(Live))
  BY <1>1, StartKeeps DEF Starts
<1>3. CASE RetireTemplates(ok) \/ RetireAutomations(ok)
  BY <1>3 DEF RetireTemplates, RetireAutomations, StartedWell
<1>4. CASE ReadBroken(ok)
  <2>1. /\ phase' = "heal" /\ UNCHANGED <<templates, automations>>
        /\ \A a \in automations : Healable(a) => a.id \in work'
    BY <1>1, <1>4 DEF ReadBroken, Read
  <2>2. \A a \in automations : Healable(a)' <=> Healable(a)
    BY <2>1 DEF Healable, Live, DefaultTemplates, NamedTemplates
  <2>3. QED
    BY <2>1, <2>2 DEF StartedWell
<1>5. CASE Heal(ok)
  <2>1. phase = "heal" /\ phase' = "heal"
    BY <1>5 DEF Heal
  <2>2. PICK a \in automations, t \in templates :
          /\ work' = work \ {a.id} /\ Moved({a}, t)
          /\ \A b \in automations' : b.id = a.id => b.tmpl = t.id
          /\ \A b \in automations' : b.id # a.id => b \in automations
    BY <1>1, <1>5, HealMoves
  <2>3. templates' = templates /\ t.id \in Live' /\ Live' = Live
    BY <2>2 DEF Moved, Live
  <2>4. ASSUME NEW b \in automations', Healable(b)' PROVE b.id \in work'
    <3>1. b.id # a.id /\ b \in automations
      BY <2>2, <2>3, <2>4 DEF Healable
    <3>2. Healable(b)
      BY <2>3, <2>4 DEF Healable, DefaultTemplates, NamedTemplates
    <3>3. QED
      BY <1>1, <2>1, <2>2, <3>1, <3>2 DEF StartedWell
  <2>5. QED
    BY <2>1, <2>4 DEF StartedWell
<1>6. CASE ReadTemplates(ok)
  <2>1. /\ phase = "heal" /\ work = {} /\ phase' = "merge" /\ UNCHANGED <<templates, automations, dup>>
        /\ \A t \in Copies : t.id \in work'
    BY <1>1, <1>6 DEF ReadTemplates, Read
  <2>2. Healed'
    BY <1>1, <1>2, <2>1, HealedWithoutWork, HealedStays
  <2>3. \A s, t \in templates : s.name = t.name => s = t \/ s.id \in work' \/ t.id \in work'
    BY <2>1 DEF Copies
  <2>4. dup' = NoId
    BY <2>1 DEF StartedSoFar
  <2>5. QED
    BY <2>1, <2>2, <2>3, <2>4 DEF StartedWell
<1>7. CASE Repoint(ok)
  <2>1. phase = "merge" /\ phase' = "merge" /\ work' = work /\ templates' = templates
    BY <1>7 DEF Repoint
  <2>2. Healed'
    BY <1>1, <1>2, <2>1, HealedStays DEF StartedWell
  <2>3. \A b \in automations' : b.tmpl # dup'
    BY <1>1, <1>7, RepointMoves
  <2>4. QED
    BY <1>1, <2>1, <2>2, <2>3 DEF StartedWell
<1>8. CASE DropTemplate(ok)
  <2>1. /\ phase = "merge" /\ phase' = "merge" /\ work' = work \ {dup} /\ dup' = NoId
        /\ templates' = {t \in templates : t.id # dup}
    BY <1>1, <1>8 DEF DropTemplate
  <2>2. Healed'
    BY <1>1, <1>2, <2>1, HealedStays DEF StartedWell
  <2>3. \A s, t \in templates' : s.name = t.name => s = t \/ s.id \in work' \/ t.id \in work'
    BY <1>1, <2>1 DEF StartedWell
  <2>4. QED
    BY <2>1, <2>2, <2>3 DEF StartedWell
<1>9. CASE ReadAutomations(ok)
  <2>1. /\ phase = "merge" /\ work = {} /\ phase' = "drop" /\ UNCHANGED <<templates, automations>>
        /\ \A a \in Duplicates(automations) : a.id \in work'
    BY <1>1, <1>9 DEF ReadAutomations, Read
  <2>2. Healed'
    BY <1>1, <1>2, <2>1, HealedStays DEF StartedWell
  <2>3. OneTemplateEach'
    BY <1>1, <2>1 DEF StartedWell, OneTemplateEach
  <2>4. QED
    BY <2>1, <2>2, <2>3 DEF StartedWell, Duplicates
<1>10. CASE DropAutomation(ok)
  <2>1. PICK i \in work : automations' = {a \in automations : a.id # i} /\ work' = work \ {i}
    BY <1>1, <1>10 DEF DropAutomation
  <2>2. phase = "drop" /\ phase' = "drop" /\ templates' = templates
    BY <1>10 DEF DropAutomation
  <2>3. Healed'
    BY <1>1, <1>2, <2>2, HealedStays DEF StartedWell
  <2>4. OneTemplateEach'
    BY <1>1, <2>2 DEF StartedWell, OneTemplateEach
  <2>5. \A a \in Duplicates(automations') : a.id \in work'
    BY <1>1, <2>1, <2>2 DEF StartedWell, Duplicates
  <2>6. QED
    BY <2>2, <2>3, <2>4, <2>5 DEF StartedWell
<1>11. QED
  BY <1>3, <1>4, <1>5, <1>6, <1>7, <1>8, <1>9, <1>10 DEF Migrate

LEMMA DupInMerge ==
  ASSUME StartedSoFar, Starts
  PROVE  phase' # "merge" => dup' = NoId
BY DEF StartedSoFar, Starts, Restart, Migrate, Serve, RetireTemplates, RetireAutomations, ReadBroken,
       Read, Heal, ReadTemplates, Repoint, DropTemplate, ReadAutomations, DropAutomation

LEMMA StartSoFar ==
  ASSUME IInv, StartedSoFar, [Next]_vars
  PROVE  StartedSoFar'
<1>1. CASE UNCHANGED vars
  BY <1>1 DEF vars, rows, loop, errors, StartedSoFar, StartedWell, Healed, Healable, OneTemplateEach,
              DefaultTemplates, NamedTemplates, Live
<1>2. CASE \/ \E c \in Callers : Request(c)
           \/ Merchant
  <2>1. phase = "up" /\ phase' = "up" /\ dup' = dup
    BY <1>2, RequestMoves
       DEF Merchant, CreateTemplate, DeleteTemplate, UpdateTemplate, CreateAutomation,
           ToggleAutomation, DeleteAutomation, UpdateAutomation, Edit, loop
  <2>2. QED
    BY <2>1 DEF StartedSoFar, StartedWell
<1>3. CASE Restart \/ Serve
  <2>1. phase' \in {"templates", "up"}
    BY <1>3 DEF Restart, Serve
  <2>2. QED
    BY <1>3, <2>1, DupInMerge DEF StartedSoFar, StartedWell, Starts
<1>4. CASE \E ok \in BOOLEAN : Migrate(ok)
  BY <1>4, MigrateWell, DupInMerge DEF StartedSoFar, Starts
<1>5. QED
  BY <1>1, <1>2, <1>3, <1>4 DEF Next

LEMMA StartInvariance == Spec => [](IInv /\ StartedSoFar)
<1>1. Init => StartedSoFar
  BY DEF Init, StartedSoFar, StartedWell
<1>2. QED
  BY <1>1, StartSoFar, Invariance, PTL DEF Spec

(* The step after which the server is up.                                 *)
LEMMA LastStep ==
  ASSUME IInv, StartedSoFar, Next, phase # "up", phase' = "up", clean'
  PROVE  /\ automations' = automations /\ templates' = templates
         /\ Healed /\ OneTemplateEach /\ Duplicates(automations) = {}
<1>1. Serve
  BY StartsOnly, MigrateFrame DEF Starts, Restart
<1>2. /\ phase = "drop" /\ work = {} /\ clean
      /\ automations' = automations /\ templates' = templates
  BY <1>1 DEF Serve, Start, Statement, errors
<1>3. QED
  BY <1>2 DEF StartedSoFar, StartedWell

LEMMA AtMostOne ==
  ASSUME NEW S, \A x, y \in S : x = y
  PROVE  Cardinality(S) <= 1
<1>1. CASE S = {}
  BY <1>1, FS_EmptySet
<1>2. ASSUME NEW x \in S PROVE Cardinality(S) <= 1
  <2>1. S = {x}
    BY <1>2
  <2>2. QED
    BY <2>1, FS_Singleton
<1>3. QED
  BY <1>1, <1>2

(* When the server is up again after a start none of whose statements     *)
(* failed, each name has one automation and one template at most, also    *)
(* after starts that ended half way or whose statements failed (migrate). *)
THEOREM StartLeavesOne == Spec => StartMerges
<1>1. ASSUME IInv, StartedSoFar, Next, phase # "up", phase' = "up", clean', NEW n \in AllNames
      PROVE  Cardinality(NamedAutomations(n)') <= 1 /\ Cardinality(NamedTemplates(n)') <= 1
  <2>1. /\ automations' = automations /\ templates' = templates
        /\ OneTemplateEach /\ Duplicates(automations) = {}
    BY <1>1, LastStep
  <2>2. \A s, t \in NamedTemplates(n)' : s = t
    BY <2>1 DEF NamedTemplates, OneTemplateEach
  <2>3. \A a, b \in automations : a.id \in Nat /\ b.id \in Nat /\ (a.id = b.id => a = b)
    BY <1>1, FreshId DEF IInv, RowsKnown
  <2>4. \A a, b \in automations : a.name = b.name => ~(b.id < a.id) /\ ~(a.id < b.id)
    BY <2>1 DEF Duplicates
  <2>5. \A a, b \in NamedAutomations(n)' : a = b
    BY <2>1, <2>3, <2>4 DEF NamedAutomations
  <2>6. QED
    BY <2>2, <2>5, AtMostOne
<1>2. IInv /\ StartedSoFar /\ [Next]_vars =>
        [phase # "up" /\ phase' = "up" /\ clean' =>
           \A n \in AllNames : /\ Cardinality(NamedAutomations(n)') <= 1
                               /\ Cardinality(NamedTemplates(n)') <= 1]_vars
  BY <1>1
<1>3. QED
  BY <1>2, StartInvariance, PTL DEF Spec, StartMerges

(* While no statement of a start fails, none takes from an automation the *)
(* template it has, other than the retired default, and in the end no     *)
(* default is without a template whose default template is there.         *)
THEOREM StartTakesNone == Spec => StartKeepsTemplates
<1>1. ASSUME IInv, StartedSoFar, Next, phase # "up", clean'
      PROVE  /\ \A a \in automations, b \in automations' :
                   a.id = b.id /\ a.tmpl \in Lasting => b.tmpl \in Live'
             /\ phase' = "up" =>
                   \A b \in automations' :
                      b.name \in Names /\ DefaultTemplates(b.name)' # {} => b.tmpl \in Live'
  <2>1. Keeps(Lasting)
    BY <1>1, StartsOnly, StartKeeps
  <2>2. ASSUME phase' = "up", NEW b \in automations', b.name \in Names, DefaultTemplates(b.name)' # {}
        PROVE  b.tmpl \in Live'
    BY <1>1, <2>2, LastStep DEF Healed, Healable, DefaultTemplates, NamedTemplates, Live
  <2>3. QED
    BY <2>1, <2>2 DEF Keeps
<1>2. IInv /\ StartedSoFar /\ [Next]_vars =>
        [phase # "up" /\ clean' =>
          /\ \A a \in automations, b \in automations' :
                a.id = b.id /\ a.tmpl \in Lasting => b.tmpl \in Live'
          /\ phase' = "up" =>
                \A b \in automations' :
                   b.name \in Names /\ DefaultTemplates(b.name)' # {} => b.tmpl \in Live']_vars
  BY <1>1
<1>3. QED
  BY <1>2, StartInvariance, PTL DEF Spec, StartKeepsTemplates

-----------------------------------------------------------------------------
(* The connection: every program takes and gives back by turns.           *)

(* It ends with the connection given back.                                *)
Alternates(p) ==
    /\ \A i \in 1..(Len(p) - 1) : p[i] # p[i + 1]
    /\ p # <<>> => p[Len(p)] = "put"

(* The revenue pages that meet a paid plan.                               *)
RevenuePages == {GetRevenueStats(n) : n \in PayingPlans \ {0}}

PoolIInv ==
    /\ holder \in Goroutines \cup {Nobody}
    /\ todo \in [Goroutines -> Programs]
    /\ revenue \subseteq Goroutines
    /\ \A g \in Goroutines \ revenue : Alternates(todo[g]) /\ (Returns(g) <=> holder = g)
    /\ \A g \in revenue :
          \/ holder # g /\ todo[g] \in RevenuePages
          \/ holder = g /\ todo[g] \in {Tail(p) : p \in RevenuePages}

LEMMA StatementsAlternate ==
  ASSUME NEW n \in Nat
  PROVE  /\ Statements(n) \in Programs /\ Alternates(Statements(n))
         /\ Statements(n) # <<>> => Head(Statements(n)) = "get"
<1>1. /\ Statements(n) \in Seq({"get", "put"}) /\ Len(Statements(n)) = 2 * n
      /\ \A i \in 1..(2 * n) : Statements(n)[i] = IF i % 2 = 1 THEN "get" ELSE "put"
  BY DEF Statements
<1>2. \A i \in 1..(2 * n - 1) : Statements(n)[i] # Statements(n)[i + 1]
  <2> SUFFICES ASSUME NEW i \in 1..(2 * n - 1) PROVE Statements(n)[i] # Statements(n)[i + 1]
    OBVIOUS
  <2>1. i \in 1..(2 * n) /\ i + 1 \in 1..(2 * n)
    OBVIOUS
  <2>2. i % 2 = 1 <=> (i + 1) % 2 # 1
    OBVIOUS
  <2>3. QED
    BY <1>1, <2>1, <2>2
<1>3. n # 0 => Statements(n)[2 * n] = "put" /\ Statements(n)[1] = "get"
  <2>1. (2 * n) % 2 = 0 /\ 1 % 2 = 1
    OBVIOUS
  <2>2. n # 0 => 2 * n \in 1..(2 * n) /\ 1 \in 1..(2 * n)
    OBVIOUS
  <2>3. QED
    BY <1>1, <2>1, <2>2
<1>4. QED
  BY <1>1, <1>2, <1>3 DEF Programs, Alternates

(* One program after another is a program.                                *)
LEMMA StatementsJoin ==
  ASSUME NEW m \in Nat, NEW n \in Nat
  PROVE  \E k \in Nat : Statements(m) \o Statements(n) = Statements(k)
<1>1. \A i \in 1..(2 * n) : (2 * m + i) % 2 = i % 2
  OBVIOUS
<1>2. Statements(m) \o Statements(n) = Statements(m + n)
  BY <1>1 DEF Statements
<1>3. QED
  BY <1>2, m + n \in Nat

(* A sequence with the elements of two statements.                        *)
LEMMA TwoStatements ==
  ASSUME NEW q \in Programs, Len(q) = 4,
         q[1] = "get", q[2] = "put", q[3] = "get", q[4] = "put"
  PROVE  Alternates(q) /\ q # <<>> /\ Head(q) = "get"
<1>1. q # <<>> /\ Head(q) = "get"
  BY DEF Programs
<1>2. \A i \in 1..(Len(q) - 1) : i = 1 \/ i = 2 \/ i = 3
  OBVIOUS
<1>3. QED
  BY <1>1, <1>2 DEF Alternates

LEMMA OperationsAlternate ==
  ASSUME NEW p \in OtherOperations \cup {GetRevenueStats(0)}
  PROVE  /\ p \in Programs /\ Alternates(p)
         /\ p # <<>> => Head(p) = "get"
<1>1. OfflineTokenHealth = Statements(2)
  BY DEF OfflineTokenHealth
<1>2. \E n \in Nat : GetMerchantDetail = Statements(n)
  <2>1. 6 \in Nat /\ 2 \in Nat /\ 1 \in Nat
    OBVIOUS
  <2>2. PICK k \in Nat : Statements(6) \o Statements(2) = Statements(k)
    BY <2>1, StatementsJoin, Zenon
  <2>3. \E n \in Nat : Statements(k) \o Statements(1) = Statements(n)
    BY <2>1, StatementsJoin, Zenon
  <2>4. GetMerchantDetail = Statements(k) \o Statements(1)
    BY <1>1, <2>2, Zenon DEF GetMerchantDetail
  <2>5. QED
    BY <2>3, <2>4, Zenon
<1>3. GetRevenueStats(0) \in Programs /\ Alternates(GetRevenueStats(0)) /\ Head(GetRevenueStats(0)) = "get"
  <2>1. Statements(0) \in Seq({"get", "put"}) /\ Len(Statements(0)) = 0
    BY DEF Statements
  <2>2. Statements(0) = <<>>
    BY <2>1
  <2>3. Statements(1) = <<"get", "put">>
    BY DEF Statements
  <2>4. GetRevenueStats(0) = <<"get">> \o <<>> \o <<"put">> \o <<"get", "put">>
    BY <2>2, <2>3, Zenon DEF GetRevenueStats
  <2>5. /\ <<"get">> \o <<>> \o <<"put">> \o <<"get", "put">> \in Programs
        /\ Len(<<"get">> \o <<>> \o <<"put">> \o <<"get", "put">>) = 4
    BY DEF Programs
  <2>6. /\ (<<"get">> \o <<>> \o <<"put">> \o <<"get", "put">>)[1] = "get"
        /\ (<<"get">> \o <<>> \o <<"put">> \o <<"get", "put">>)[2] = "put"
        /\ (<<"get">> \o <<>> \o <<"put">> \o <<"get", "put">>)[3] = "get"
        /\ (<<"get">> \o <<>> \o <<"put">> \o <<"get", "put">>)[4] = "put"
    OBVIOUS
  <2>7. QED
    BY <2>4, <2>5, <2>6, TwoStatements, Zenon
<1>4. p = GetRevenueStats(0) \/ \E n \in Nat : p = Statements(n)
  BY <1>1, <1>2
     DEF OtherOperations, PurgeShop, PurgeCustomer, GetGlobalStats, GetAnalytics, GetStats
<1>5. QED
  BY <1>3, <1>4, StatementsAlternate

(* What is left of a program after its first step.                        *)
LEMMA TailAlternates ==
  ASSUME NEW p \in Programs, p # <<>>, Alternates(p)
  PROVE  /\ Tail(p) \in Programs /\ Alternates(Tail(p))
         /\ Tail(p) # <<>> => Head(Tail(p)) # Head(p)
         /\ Tail(p) = <<>> => Head(p) = "put"
<1>1. /\ Tail(p) \in Seq({"get", "put"}) /\ Len(Tail(p)) = Len(p) - 1
      /\ \A i \in 1..(Len(p) - 1) : Tail(p)[i] = p[i + 1]
  BY DEF Programs
<1>2. Head(p) = p[1] /\ Len(p) \in Nat /\ Len(p) >= 1
  BY DEF Programs
<1>3. \A i \in 1..(Len(Tail(p)) - 1) : Tail(p)[i] # Tail(p)[i + 1]
  BY <1>1, <1>2 DEF Alternates
<1>4. Tail(p) # <<>> => Tail(p)[Len(Tail(p))] = "put" /\ Head(Tail(p)) # Head(p)
  BY <1>1, <1>2 DEF Alternates
<1>5. ASSUME Tail(p) = <<>> PROVE Head(p) = "put"
  <2>1. Len(<<>>) = 0
    OBVIOUS
  <2>2. Len(p) - 1 = 0
    BY <1>1, <1>5, <2>1, Zenon
  <2>3. Len(p) = 1
    BY <1>2, <2>2
  <2>4. QED
    BY <1>2, <2>3 DEF Alternates
<1>6. QED
  BY <1>1, <1>3, <1>4, <1>5 DEF Programs, Alternates

(* Such a page takes the connection, and wants another.                   *)
LEMMA PagesNest ==
  ASSUME NEW p \in RevenuePages
  PROVE  /\ p \in Programs /\ p # <<>> /\ Head(p) = "get"
         /\ Tail(p) \in Programs /\ Tail(p) # <<>> /\ Head(Tail(p)) = "get"
<1>1. PICK n \in Nat \ {0} : p = GetRevenueStats(n)
  BY PoolAssumption DEF RevenuePages
<1>2. /\ Statements(n) \in Seq({"get", "put"}) /\ Len(Statements(n)) = 2 * n
      /\ Statements(n)[1] = "get"
  <2>1. 1 \in 1..(2 * n) /\ 1 % 2 = 1 /\ 2 * n \in Nat
    OBVIOUS
  <2>2. QED
    BY <2>1 DEF Statements
<1>3. Statements(1) \in Seq({"get", "put"})
  BY StatementsAlternate DEF Programs
<1>4. PICK rest : rest = Statements(n) \o <<"put">> \o Statements(1)
  OBVIOUS
<1>5. rest \in Seq({"get", "put"}) /\ Len(rest) >= 1 /\ rest[1] = "get"
  BY <1>2, <1>3, <1>4
<1>6. p = <<"get">> \o rest
  BY <1>1, <1>2, <1>3, <1>4 DEF GetRevenueStats
<1>7. p \in Seq({"get", "put"}) /\ Len(p) = Len(rest) + 1 /\ p[1] = "get" /\ p[2] = "get"
  BY <1>5, <1>6
<1>8. Tail(p) \in Seq({"get", "put"}) /\ Len(Tail(p)) = Len(p) - 1 /\ Tail(p)[1] = p[2]
  BY <1>5, <1>7
<1>9. QED
  BY <1>5, <1>7, <1>8 DEF Programs

LEMMA PoolInitIInv == PoolInit => PoolIInv
BY PoolAssumption DEF PoolInit, PoolIInv, Programs, Alternates, Returns

(* A page in progress is a program whose head is "get".                   *)
LEMMA PageInProgress ==
  ASSUME PoolIInv, NEW g \in revenue
  PROVE  todo[g] # <<>> /\ Head(todo[g]) = "get"
<1>1. \A p \in RevenuePages : p # <<>> /\ Head(p) = "get" /\ Tail(p) # <<>> /\ Head(Tail(p)) = "get"
  BY PagesNest
<1>2. todo[g] \in RevenuePages \/ todo[g] \in {Tail(p) : p \in RevenuePages}
  BY DEF PoolIInv
<1>3. CASE todo[g] \in RevenuePages
  BY <1>1, <1>3
<1>4. CASE todo[g] \in {Tail(p) : p \in RevenuePages}
  <2>1. PICK p \in RevenuePages : todo[g] = Tail(p)
    BY <1>4
  <2>2. QED
    BY <1>1, <2>1
<1>5. QED
  BY <1>2, <1>3, <1>4

LEMMA PoolNextIInv == PoolIInv /\ [PoolNext]_poolVars => PoolIInv'
<1> SUFFICES ASSUME PoolIInv, [PoolNext]_poolVars PROVE PoolIInv'
  OBVIOUS
<1>r. RevenuePages \subseteq Programs /\ {Tail(p) : p \in RevenuePages} \subseteq Programs
  BY PagesNest
<1> USE PoolAssumption DEF PoolIInv, Returns
<1>1. ASSUME NEW g \in Goroutines, Call(g) PROVE PoolIInv'
  <2>0. g \notin revenue /\ todo[g] = <<>> /\ holder # g /\ holder' = holder
    BY <1>1, PageInProgress DEF Call
  <2>1. CASE \E p \in OtherOperations \cup {GetRevenueStats(0)} :
                todo' = [todo EXCEPT ![g] = p] /\ revenue' = revenue
    <3>1. PICK p \in OtherOperations \cup {GetRevenueStats(0)} :
              todo' = [todo EXCEPT ![g] = p] /\ revenue' = revenue
      BY <2>1
    <3>2. p \in Programs /\ Alternates(p) /\ (p # <<>> => Head(p) = "get")
      BY OperationsAlternate
    <3>3. todo'[g] = p /\ \A h \in Goroutines \ {g} : todo'[h] = todo[h]
      BY <3>1
    <3>4. todo' \in [Goroutines -> Programs]
      BY <3>1, <3>2
    <3>5. QED
      BY <2>0, <3>1, <3>2, <3>3, <3>4
  <2>2. CASE \E p \in RevenuePages :
                todo' = [todo EXCEPT ![g] = p] /\ revenue' = revenue \cup {g}
    <3>1. PICK p \in RevenuePages : todo' = [todo EXCEPT ![g] = p] /\ revenue' = revenue \cup {g}
      BY <2>2
    <3>2. todo'[g] = p /\ \A h \in Goroutines \ {g} : todo'[h] = todo[h]
      BY <3>1
    <3>3. todo' \in [Goroutines -> Programs]
      BY <3>1, <1>r
    <3>4. QED
      BY <2>0, <3>1, <3>2, <3>3
  <2>3. QED
    <3>1. CASE \E p \in OtherOperations : todo' = [todo EXCEPT ![g] = p] /\ revenue' = revenue \ {g}
      <4>1. revenue \ {g} = revenue
        BY <2>0
      <4>2. QED
        BY <4>1, <3>1, <2>1
    <3>2. ASSUME NEW n \in PayingPlans, todo' = [todo EXCEPT ![g] = GetRevenueStats(n)],
                 revenue' = IF n = 0 THEN revenue \ {g} ELSE revenue \cup {g}
          PROVE  PoolIInv'
      <4>1. CASE n = 0
        <5>1. revenue' = revenue
          BY <4>1, <3>2, <2>0
        <5>2. todo' = [todo EXCEPT ![g] = GetRevenueStats(0)]
          BY <4>1, <3>2
        <5>3. QED
          BY <5>1, <5>2, <2>1
      <4>2. CASE n # 0
        <5>1. GetRevenueStats(n) \in RevenuePages /\ revenue' = revenue \cup {g}
          BY <4>2, <3>2 DEF RevenuePages
        <5>2. QED
          BY <5>1, <3>2, <2>2
      <4>3. QED
        BY <4>1, <4>2
    <3>3. QED
      BY <3>1, <3>2, <1>1 DEF Call
<1>2. ASSUME NEW g \in Goroutines, Get(g) PROVE PoolIInv'
  <2>0. /\ holder = Nobody /\ holder' = g /\ revenue' = revenue
        /\ todo' = [todo EXCEPT ![g] = Tail(todo[g])]
    BY <1>2 DEF Get, Free
  <2>1. todo'[g] = Tail(todo[g]) /\ \A h \in Goroutines \ {g} : todo'[h] = todo[h]
    BY <2>0
  <2>2. CASE g \notin revenue
    <3>1. todo[g] \in Programs /\ todo[g] # <<>> /\ Head(todo[g]) = "get" /\ Alternates(todo[g])
      BY <2>2, <1>2 DEF Get, Wants
    <3>2. /\ Tail(todo[g]) \in Programs /\ Alternates(Tail(todo[g]))
          /\ Tail(todo[g]) # <<>> /\ Head(Tail(todo[g])) # "get"
      BY <3>1, TailAlternates
    <3>3. Head(Tail(todo[g])) = "put"
      BY <3>2 DEF Programs
    <3>4. todo' \in [Goroutines -> Programs]
      BY <3>2, <2>0
    <3>5. QED
      BY <2>0, <2>1, <2>2, <3>2, <3>3, <3>4
  <2>3. CASE g \in revenue
    <3>1. todo[g] \in RevenuePages
      BY <2>0, <2>3
    <3>2. Tail(todo[g]) \in {Tail(p) : p \in RevenuePages}
      BY <3>1
    <3>3. todo' \in [Goroutines -> Programs]
      BY <3>2, <2>0, <1>r
    <3>4. PICK T : T = {Tail(p) : p \in RevenuePages}
      OBVIOUS
    <3>5. /\ holder' \in Goroutines \cup {Nobody} /\ revenue' \subseteq Goroutines
          /\ holder' = g /\ todo'[g] \in T
      BY <2>0, <2>1, <3>2, <3>4
    <3>6. \A h \in Goroutines \ revenue' : h # g /\ Alternates(todo'[h]) /\ ~Returns(h)'
      BY <2>0, <2>1, <2>3
    <3>7. \A h \in revenue' \ {g} : holder' # h /\ todo'[h] \in RevenuePages
      BY <2>0, <2>1
    <3> HIDE DEF Returns
    <3>8. \A h \in Goroutines \ revenue' : Alternates(todo'[h]) /\ (Returns(h)' <=> holder' = h)
      BY <3>5, <3>6
    <3>9. \A h \in revenue' :
             \/ holder' # h /\ todo'[h] \in RevenuePages
             \/ holder' = h /\ todo'[h] \in {Tail(p) : p \in RevenuePages}
      BY <3>4, <3>5, <3>7
    <3>10. QED
      BY <3>3, <3>5, <3>8, <3>9
  <2>4. QED
    BY <2>2, <2>3
<1>3. ASSUME NEW g \in Goroutines, Put(g) PROVE PoolIInv'
  <2>0. g \notin revenue
    BY <1>3, PageInProgress DEF Put
  <2>1. todo[g] \in Programs /\ todo[g] # <<>> /\ Head(todo[g]) = "put" /\ Alternates(todo[g])
    BY <2>0, <1>3 DEF Put
  <2>2. /\ Tail(todo[g]) \in Programs /\ Alternates(Tail(todo[g]))
        /\ Tail(todo[g]) # <<>> => Head(Tail(todo[g])) # "put"
    BY <2>1, TailAlternates
  <2>3. /\ holder = g /\ holder' = Nobody /\ revenue' = revenue
        /\ todo' = [todo EXCEPT ![g] = Tail(todo[g])]
    BY <2>0, <1>3 DEF Put
  <2>4. todo'[g] = Tail(todo[g]) /\ \A h \in Goroutines \ {g} : todo'[h] = todo[h]
    BY <2>3
  <2>5. todo' \in [Goroutines -> Programs]
    BY <2>2, <2>3
  <2>6. QED
    BY <2>0, <2>2, <2>3, <2>4, <2>5
<1>4. CASE UNCHANGED poolVars
  BY <1>4 DEF poolVars
<1>5. QED
  BY <1>1, <1>2, <1>3, <1>4 DEF PoolNext

(* The invariant of the connection, whatever plans the shops are on.      *)
LEMMA PoolInvariance == PoolSpec => []PoolIInv
BY PoolInitIInv, PoolNextIInv, PTL DEF PoolSpec

(* Only the holder of the connection is about to give one back.           *)
THEOREM PoolTypeCorrect == PoolSpec => []PoolTypeOK
<1>1. PoolIInv => PoolTypeOK
  BY PageInProgress DEF PoolIInv, PoolTypeOK, Returns
<1>2. QED
  BY <1>1, PoolInvariance, PTL

(* Only a revenue page that met a paid plan ever waits for the connection *)
(* that it has: SetMaxOpenConns(1) stalls no other operation by itself,   *)
(* however many goroutines there are.                                     *)
THEOREM HolderNeverWaits == PoolSpec => []HolderGivesBack
<1>1. PoolIInv => HolderGivesBack
  BY DEF PoolIInv, HolderGivesBack
<1>2. QED
  BY <1>1, PoolInvariance, PTL
=============================================================================
