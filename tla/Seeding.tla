------------------------------- MODULE Seeding -------------------------------
(***************************************************************************)
(* The default templates and automations of one shop: how the pages seed  *)
(* them, what the merchant does to them, and how the start of the process *)
(* repairs and merges them (store/db.go, handlers/automation.go,          *)
(* handlers/template.go).                                                 *)
(*                                                                         *)
(* No index makes a name unique.  Each seeding looks for a name and then  *)
(* inserts it, a statement each, and the dashboard's pages seed at the    *)
(* same time.  The defaults are numbered in their order; automation n     *)
(* uses template n.  Rows are numbered in the order of their creation.    *)
(* Every statement may fail, and the code drops the error: a count is     *)
(* then 0, a template not found, a row not written or not read.           *)
(***************************************************************************)
EXTENDS Naturals, FiniteSets, FiniteSetsExt

CONSTANTS
    N,                  \* the number of defaults
    ActiveByDefault,    \* those that are seeded switched on
    Callers,            \* requests and seeding goroutines at once
    Written,            \* the names among these that the merchant writes
    MaxCalls,           \* bound on requests that may seed
    MaxRestarts,        \* bound on starts of the process
    MaxDisturbed        \* bound on the merchant's changes and on statements that fail

Names == 1..N
Retired == N + 1        \* 'Order Cancellation Reply', a default no more
AllNames == 1..(N + 1)
NoId == 0               \* no template's id

ASSUME SeedingAssumption ==
    /\ N \in Nat \ {0} /\ ActiveByDefault \subseteq Names
    /\ IsFiniteSet(Callers) /\ Written \subseteq AllNames
    /\ {MaxCalls, MaxRestarts, MaxDisturbed} \subseteq Nat

VARIABLES
    templates,      \* rows: id, name, is_default
    automations,    \* rows: id, name, template_id, is_active; own, written by the merchant
    made,           \* ids given out
    call,           \* each caller's: pc; left and todo, the templates and automations still
                    \* to be seeded; tmpl, the template found; nested, whether the templates
                    \* are seeded for an automation that did not find its own
    phase,          \* "up", or where the start of the process is
    work,           \* the ids a loop of the start has read and not yet handled
    dup,            \* the duplicate template whose automations got the master, or NoId
    clean,          \* whether every statement since the last start succeeded
    calls, edits, restarts, lost

rows   == <<templates, automations, made>>
loop   == <<phase, work, dup>>
errors == <<lost, clean>>
bounds == <<calls, edits, restarts>>
vars   == <<rows, call, loop, errors, bounds>>

Ids == 1..made
Templates   == [id : Ids, name : AllNames, default : BOOLEAN]
Automations == [id : Ids, name : AllNames, tmpl : Ids \cup {NoId}, active : BOOLEAN, own : BOOLEAN]
Steps == {"idle", "count", "seeded", "template", "tinsert", "automation", "lookup", "again", "insert"}
Phases == {"up", "templates", "automations", "read", "heal", "merge", "drop"}

TypeOK ==
    /\ made \in Nat
    /\ templates \subseteq Templates /\ automations \subseteq Automations
    /\ call \in [Callers -> [pc : Steps, left : SUBSET Names, todo : SUBSET Names,
                             tmpl : Ids \cup {NoId}, nested : BOOLEAN]]
    /\ phase \in Phases /\ work \subseteq Ids /\ dup \in Ids \cup {NoId}
    /\ edits \in Nat /\ lost \in Nat /\ edits + lost <= MaxDisturbed /\ clean \in BOOLEAN
    /\ calls \in 0..MaxCalls /\ restarts \in 0..MaxRestarts
    /\ \A c \in Callers : call[c].pc \in {"lookup", "again", "insert"} => call[c].todo # {}
    /\ \A c \in Callers : call[c].pc = "tinsert" => call[c].left # {}

Idle == [pc |-> "idle", left |-> {}, todo |-> {}, tmpl |-> NoId, nested |-> FALSE]

Init ==
    /\ templates = {} /\ automations = {} /\ made = 0
    /\ call = [c \in Callers |-> Idle]
    /\ phase = "up" /\ work = {} /\ dup = NoId
    /\ lost = 0 /\ clean = TRUE
    /\ calls = 0 /\ edits = 0 /\ restarts = 0

(* A statement succeeds, or its error is dropped.                         *)
DropError == edits + lost < MaxDisturbed /\ lost' = lost + 1
Statement(ok) == IF ok THEN UNCHANGED errors ELSE DropError /\ clean' = FALSE

-----------------------------------------------------------------------------
(* Requests.                                                              *)

pc(c) == call[c].pc
Become(c, r) == call' = [call EXCEPT ![c] = IF r.pc = "idle" THEN Idle ELSE r]
Goto(c, p)   == Become(c, [call[c] EXCEPT !.pc = p])

NamedTemplates(n)   == {t \in templates : t.name = n}
NamedAutomations(n) == {a \in automations : a.name = n}
DefaultTemplates(n) == {t \in NamedTemplates(n) : t.default}

Begin(c) ==
    /\ phase = "up"
    /\ pc(c) = "idle"
    /\ calls < MaxCalls
    /\ calls' = calls + 1
    /\ UNCHANGED <<rows, loop, errors, edits, restarts>>

(* The automations page; "seed" of the templates page; the status page,   *)
(* which seeds in the background if there is no default template.         *)
ListAutomations(c) == Begin(c) /\ Goto(c, "count")
Seed(c) == Begin(c) /\ Become(c, [Idle EXCEPT !.pc = "template", !.left = Names])
Status(c) == (\A t \in templates : ~t.default) /\ Seed(c)

(* Any rows count, also the merchant's own and duplicates.                *)
DefaultAutomationsSeeded(c) ==
    /\ pc(c) = "count"
    /\ \E ok \in BOOLEAN :
         /\ Statement(ok)
         /\ Goto(c, IF ok /\ Cardinality(automations) >= N THEN "idle" ELSE "seeded")
    /\ UNCHANGED <<rows, loop, bounds>>

(* One default template is enough, also while others are being inserted.  *)
DefaultTemplatesSeeded(c) ==
    /\ pc(c) = "seeded"
    /\ \E ok \in BOOLEAN :
         /\ Statement(ok)
         /\ Become(c, IF ok /\ \E t \in templates : t.default
                      THEN [call[c] EXCEPT !.pc = "automation", !.todo = Names]
                      ELSE [call[c] EXCEPT !.pc = "template", !.left = Names, !.todo = Names])
    /\ UNCHANGED <<rows, loop, bounds>>

-----------------------------------------------------------------------------
(* SeedDefaultTemplates: a SELECT and an INSERT for each.                 *)

ForAnAutomation(c) == "again"    \* mutant: as if an automation had asked for them
(* Where it returns to.                                                   *)
AfterTemplates(c) ==
    IF call[c].nested THEN "again" ELSE IF call[c].todo # {} THEN "automation" ELSE "idle"

MissingTemplate(n) == DefaultTemplates(n) = {}

CheckTemplate(c) ==
    /\ pc(c) = "template"
    /\ IF call[c].left = {}
         THEN Goto(c, AfterTemplates(c)) /\ UNCHANGED errors
         ELSE \E ok \in BOOLEAN :
                /\ Statement(ok)
                /\ IF ok /\ ~MissingTemplate(Min(call[c].left))
                   THEN Become(c, [call[c] EXCEPT !.left = @ \ {Min(@)}])
                   ELSE Goto(c, "tinsert")
    /\ UNCHANGED <<rows, loop, bounds>>

InsertTemplate(c) ==
    /\ pc(c) = "tinsert"
    /\ \E ok \in BOOLEAN :
         /\ Statement(ok)
         /\ IF ok THEN /\ made' = made + 1
                       /\ templates' = templates \cup
                              {[id |-> made + 1, name |-> Min(call[c].left), default |-> TRUE]}
                  ELSE UNCHANGED <<made, templates>>
    /\ Become(c, [call[c] EXCEPT !.left = @ \ {Min(@)}, !.pc = "template"])
    /\ UNCHANGED <<automations, loop, bounds>>

(* SeedAutomations: the name, its template, the templates if that one is  *)
(* missing, the template once more, the INSERT.                           *)

AlwaysMissing(n) == TRUE      \* mutant: inserts without a look
MissingAutomation(n) == NamedAutomations(n) = {}

CheckAutomation(c) ==
    /\ pc(c) = "automation"
    /\ IF call[c].todo = {}
         THEN Goto(c, "idle") /\ UNCHANGED errors
         ELSE \E ok \in BOOLEAN :
                /\ Statement(ok)
                /\ IF ok /\ ~MissingAutomation(Min(call[c].todo))
                   THEN Become(c, [call[c] EXCEPT !.todo = @ \ {Min(@)}])
                   ELSE Goto(c, "lookup")
    /\ UNCHANGED <<rows, loop, bounds>>

FindTemplate(c) ==
    /\ pc(c) \in {"lookup", "again"}
    /\ \E ok \in BOOLEAN :
         LET found == {t \in DefaultTemplates(Min(call[c].todo)) : ok} IN
         /\ Statement(ok)
         /\ IF found = {} /\ pc(c) = "lookup"
              THEN Become(c, [call[c] EXCEPT !.pc = "template", !.left = Names, !.nested = TRUE])
              ELSE \E i \in IF found = {} THEN {NoId} ELSE {t.id : t \in found} :
                     Become(c, [call[c] EXCEPT !.pc = "insert", !.tmpl = i, !.nested = FALSE])
    /\ UNCHANGED <<rows, loop, bounds>>

InsertAutomation(c) ==
    LET n == Min(call[c].todo) IN
    /\ pc(c) = "insert"
    /\ \E ok \in BOOLEAN :
         /\ Statement(ok)
         /\ IF ok THEN /\ made' = made + 1
                       /\ automations' = automations \cup
                              {[id |-> made + 1, name |-> n, tmpl |-> call[c].tmpl,
                                active |-> n \in ActiveByDefault, own |-> FALSE]}
                  ELSE UNCHANGED <<made, automations>>
    /\ Become(c, [call[c] EXCEPT !.todo = @ \ {n}, !.pc = "automation", !.tmpl = NoId])
    /\ UNCHANGED <<templates, loop, bounds>>

-----------------------------------------------------------------------------
(* The merchant, one statement each.  A name may be any; those of the     *)
(* defaults and the retired one are those that matter.                    *)

Live == {t.id : t \in templates}

Edit == phase = "up" /\ edits + lost < MaxDisturbed /\ edits' = edits + 1
        /\ UNCHANGED <<call, loop, errors, calls, restarts>>

CreateTemplate(n) ==
    /\ Edit
    /\ made' = made + 1
    /\ templates' = templates \cup {[id |-> made + 1, name |-> n, default |-> FALSE]}
    /\ UNCHANGED automations

UpdateTemplate(t, n) ==
    /\ Edit
    /\ templates' = (templates \ {t}) \cup {[t EXCEPT !.name = n]}
    /\ UNCHANGED <<automations, made>>

(* An automation may be left with a template that is gone.                *)
DeleteTemplate(t) ==
    /\ Edit
    /\ templates' = templates \ {t}
    /\ UNCHANGED <<automations, made>>

(* The template's id is not looked up: it may be empty or of none.        *)
CreateAutomation(n, i) ==
    /\ Edit
    /\ made' = made + 1
    /\ automations' = automations \cup
           {[id |-> made + 1, name |-> n, tmpl |-> i, active |-> TRUE, own |-> TRUE]}
    /\ UNCHANGED templates

(* UpdateAutomation, and the two requests that change a part of it.       *)
UpdateAutomation(a, n, i, active) ==
    /\ Edit
    /\ automations' = (automations \ {a}) \cup
           {[a EXCEPT !.name = n, !.tmpl = i, !.active = active, !.own = TRUE]}
    /\ UNCHANGED <<templates, made>>

ToggleAutomation(a) ==
    /\ Edit
    /\ automations' = (automations \ {a}) \cup {[a EXCEPT !.active = ~@]}
    /\ UNCHANGED <<templates, made>>

DeleteAutomation(a) ==
    /\ Edit
    /\ automations' = automations \ {a}
    /\ UNCHANGED <<templates, made>>

-----------------------------------------------------------------------------
(* The start of the process: migrate() before anything else, a statement  *)
(* at a time.  The process may end again at any of them.                  *)

Restart ==
    /\ restarts < MaxRestarts
    /\ restarts' = restarts + 1
    /\ phase' = "templates" /\ work' = {} /\ dup' = NoId /\ clean' = TRUE
    /\ call' = [c \in Callers |-> Idle]
    /\ UNCHANGED <<rows, lost, calls, edits>>

(* A step of the start, and whether its statement succeeds.               *)
Start(ok) == Statement(ok) /\ UNCHANGED <<made, call, bounds>>

(* The rows of the retired default go, whatever uses them.                *)
RetireTemplates(ok) ==
    /\ phase = "templates" /\ phase' = "automations"
    /\ Start(ok)
    /\ templates' = {t \in templates : ok => t.name # Retired}
    /\ UNCHANGED <<automations, work, dup>>

RetireAutomations(ok) ==
    /\ phase = "automations" /\ phase' = "read"
    /\ Start(ok)
    /\ automations' = {a \in automations : ok => a.name # Retired}
    /\ UNCHANGED <<templates, work, dup>>

(* Each loop handles the rows that one SELECT has read; none if it fails. *)
Read(ok, ids) == Start(ok) /\ work' = {i \in ids : ok} /\ UNCHANGED <<templates, automations, dup>>

Healable(a) == a.tmpl \notin Live /\ a.name \in Names /\ DefaultTemplates(a.name) # {}

ReadBroken(ok) ==
    /\ phase = "read" /\ phase' = "heal"
    /\ Read(ok, {a.id : a \in {b \in automations : Healable(b)}})

(* A template is looked up, and the automation gets it; or one of the two *)
(* statements fails.                                                      *)
Heal(ok) ==
    /\ phase = "heal"
    /\ Start(ok)
    /\ \E a \in automations : \E t \in DefaultTemplates(a.name) :
         /\ a.id \in work /\ Healable(a)
         /\ work' = work \ {a.id}
         /\ automations' = IF ok THEN (automations \ {a}) \cup {[a EXCEPT !.tmpl = t.id]}
                                 ELSE automations
    /\ UNCHANGED <<templates, phase, dup>>

(* The row that stays: a default one if there is one, the oldest of them. *)
Master(S) ==
    LET first == {t \in S : t.default}
        best  == IF first # {} THEN first ELSE S
    IN  CHOOSE t \in best : \A u \in best : t.id <= u.id

Copies == {t \in templates : t # Master(NamedTemplates(t.name))}

ReadTemplates(ok) ==
    /\ phase = "heal" /\ work = {} /\ phase' = "merge"
    /\ Read(ok, {t.id : t \in Copies})

OrphansToo(t, master) == {}      \* mutant: the duplicate goes before its automations change
Users(t, master) == {a \in automations : a.tmpl = t.id}

(* For each duplicate, its automations get the master; then it goes, also *)
(* if they did not.                                                       *)
Repoint(ok) ==
    /\ phase = "merge" /\ dup = NoId
    /\ Start(ok)
    /\ \E t \in Copies :
         LET master == Master(NamedTemplates(t.name))
             users  == Users(t, master)
         IN  /\ t.id \in work
             /\ dup' = t.id
             /\ automations' =
                    IF ok THEN (automations \ users) \cup {[a EXCEPT !.tmpl = master.id] : a \in users}
                          ELSE automations
    /\ UNCHANGED <<templates, phase, work>>

DropTemplate(ok) ==
    /\ phase = "merge" /\ dup # NoId
    /\ Start(ok)
    /\ templates' = {t \in templates : ok => t.id # dup}
    /\ work' = work \ {dup} /\ dup' = NoId
    /\ UNCHANGED <<automations, phase>>

NothingToMerge(S) == {}          \* mutant: duplicates stay
Duplicates(S) == {a \in S : \E b \in S : b.name = a.name /\ b.id < a.id}

ReadAutomations(ok) ==
    /\ phase = "merge" /\ work = {} /\ dup = NoId /\ phase' = "drop"
    /\ Read(ok, {a.id : a \in Duplicates(automations)})

DropAutomation(ok) ==
    /\ phase = "drop"
    /\ Start(ok)
    /\ \E i \in work : /\ automations' = {a \in automations : ok => a.id # i}
                       /\ work' = work \ {i}
    /\ UNCHANGED <<templates, phase, dup>>

Serve ==
    /\ phase = "drop" /\ work = {} /\ phase' = "up"
    /\ Start(TRUE)
    /\ UNCHANGED <<templates, automations, work, dup>>

-----------------------------------------------------------------------------
Request(c) ==
    \/ ListAutomations(c) \/ Seed(c) \/ Status(c)
    \/ DefaultAutomationsSeeded(c) \/ DefaultTemplatesSeeded(c)
    \/ CheckTemplate(c) \/ InsertTemplate(c)
    \/ CheckAutomation(c) \/ FindTemplate(c) \/ InsertAutomation(c)

Merchant ==
    \/ \E n \in Written : CreateTemplate(n)
    \/ \E t \in templates : DeleteTemplate(t) \/ \E n \in Written : UpdateTemplate(t, n)
    \/ \E n \in Written, i \in Live \cup {NoId} : CreateAutomation(n, i)
    \/ \E a \in automations :
         \/ ToggleAutomation(a) \/ DeleteAutomation(a)
         \/ \E n \in Written \cup {a.name}, i \in Live \cup {NoId}, active \in BOOLEAN : UpdateAutomation(a, n, i, active)

Migrate(ok) ==
    \/ RetireTemplates(ok) \/ RetireAutomations(ok)
    \/ ReadBroken(ok) \/ Heal(ok)
    \/ ReadTemplates(ok) \/ Repoint(ok) \/ DropTemplate(ok)
    \/ ReadAutomations(ok) \/ DropAutomation(ok)

Next ==
    \/ \E c \in Callers : Request(c)
    \/ Merchant
    \/ Restart \/ (\E ok \in BOOLEAN : Migrate(ok)) \/ Serve

Spec == Init /\ [][Next]_vars

-----------------------------------------------------------------------------
(* GetAutomationsByTrigger and the templates: the messages of kind n that *)
(* an order of the shop leads to.                                         *)
Fired(n) == {a \in NamedAutomations(n) : a.active /\ a.tmpl \in Live}

(* "idempotent" (handlers/automation.go:19, db.go:588): the customer gets *)
(* a seeded message once.  Requests that overlap may seed it once each,   *)
(* and a count that failed once more; later requests and those after a    *)
(* deletion do not add to them.                                           *)
SeededWithinOverlap ==
    \A n \in Names : Cardinality({a \in Fired(n) : ~a.own}) <= Cardinality(Callers) + lost

(* When the server is up again after a start none of whose statements     *)
(* failed, each name is there once, whatever an earlier start left half   *)
(* done when it ended or whichever of its statements failed.              *)
StartMerges ==
    [][phase # "up" /\ phase' = "up" /\ clean' =>
          \A n \in AllNames : /\ Cardinality(NamedAutomations(n)') <= 1
                              /\ Cardinality(NamedTemplates(n)') <= 1]_vars

(* The templates that a start does not delete by name.                    *)
Lasting == {t.id : t \in {u \in templates : u.name # Retired}}

(* Of a start none of whose statements failed, none takes from an         *)
(* automation the template it had, unless that is the retired default;    *)
(* and in the end each default has one whose default template is there.   *)
StartKeepsTemplates ==
    [][phase # "up" /\ clean' =>
          /\ \A a \in automations, b \in automations' :
                a.id = b.id /\ a.tmpl \in Lasting => b.tmpl \in Live'
          /\ phase' = "up" =>
                \A b \in automations' :
                   b.name \in Names /\ DefaultTemplates(b.name)' # {} => b.tmpl \in Live']_vars
=============================================================================
