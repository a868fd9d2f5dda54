------------------------------ MODULE OrderTags ------------------------------
(***************************************************************************)
(* The tags of one order (handlers/order_tags.go, TagOrderWithLabel of    *)
(* handlers/shopify.go, handlers/retag.go), over the shop's tokens.       *)
(*                                                                         *)
(* A status tag replaces the others by two requests: remove, then add.    *)
(* The worker, the votes and the retag page do so at any time, with       *)
(* whatever token they got from ShopTokens, and the rejection of a call   *)
(* changes the tokens.                                                    *)
(***************************************************************************)
EXTENDS ShopTokens, FiniteSets

CONSTANT
    Configured, \* the status tags whose names a shop may change
    MaxCalls    \* bound on the calls that are made

ASSUME TagAssumption == NoTag \notin Status /\ Configured \subseteq Status /\ MaxCalls \in Nat

VARIABLES
    tags,       \* the order's status tags at Shopify; its other tags are not followed
    calls,      \* calls made so far
    mixed       \* history: a status tag may not have replaced the others

tagVars == <<tags, mixed, calls>>
vars    == <<tokenVars, tagVars>>

TypeOK ==
    /\ TokenTypeOK
    /\ tags \subseteq Status
    /\ calls \in 0..MaxCalls
    /\ mixed \in BOOLEAN

Init ==
    /\ TokenInit
    /\ tags = {}
    /\ calls = 0
    /\ mixed = FALSE

(* The tag's name is read when the call is enqueued: the shop may have    *)
(* another one by the time it is made.  A label, and retagForOrder's      *)
(* "Pending Confirmation", are not among the status tags.                 *)
AboutFor(k) ==
    CASE k = "status" -> Status
      [] k = "retag"  -> Status \cup {NoTag}
      [] OTHER        -> {NoTag}

Begin(c, k) ==
    /\ calls < MaxCalls
    /\ calls' = calls + 1
    /\ \E t \in AboutFor(k) : Start(c, k, t)
    /\ UNCHANGED <<tags, mixed>>

Uninstall ==
    /\ calls < MaxCalls
    /\ calls' = calls + 1
    /\ Revoke \/ PurgeShop
    /\ UNCHANGED <<tags, mixed>>

(* Shopify executes an accepted call, also one whose answer is lost.      *)
Executed(c, answer) ==
    IF answer = "ok" THEN {TRUE}
    ELSE IF answer = "error" /\ "ok" \in Answers(tok(c)) THEN BOOLEAN ELSE {FALSE}

AddedAny(c) == {call[c].about}     \* mutant: a label takes a status tag's place
Added(c) == {call[c].about} \cap Status
RemovedNone(c, old) == {}   \* mutant: the other tags stay
(* Only names in use are removed, not those the shop has changed.         *)
Removed(c, old) == Status \ (old \cup {call[c].about})

(* Callers that have tried to remove and are still to add.                *)
Adding ==
    {c \in Callers :
        /\ kind(c) = "status"
        /\ \/ pc(c) \in {"add", "readd", "reremove"}
           \/ pc(c) \in {"migrate", "store", "mirror", "clear"} /\ then(c) \in {"reremove", "readd"}}

(* tagsRemove of the other status tags, but those whose names are old; a  *)
(* shop may change names at any time.  A failure is only logged.          *)
Remove(c) ==
    \E answer \in {"ok", "legacy", "auth", "error"} :
        /\ \/ pc(c) = "remove"   /\ Call(c, answer, "add", "reremove", "add")
           \/ pc(c) = "reremove" /\ Call(c, answer, "add", "none", "add")
        /\ \E done \in Executed(c, answer), old \in SUBSET Configured :
             IF done THEN /\ tags' = tags \ Removed(c, old)
                          /\ mixed' = (Adding \ {c} # {} \/ (tags \cap old) \ {call[c].about} # {})
                     ELSE tags' = tags /\ mixed' = TRUE
        /\ UNCHANGED calls

(* tagsAdd.                                                               *)
Add(c) ==
    \E answer \in {"ok", "legacy", "auth", "error"} :
        /\ \/ pc(c) = "add"   /\ Call(c, answer, "idle", "readd", Rejected(kind(c)))
           \/ pc(c) = "readd" /\ Call(c, answer, "idle", "none", "idle")
        /\ \E done \in Executed(c, answer) :
             tags' = IF done THEN tags \cup Added(c) ELSE tags
        /\ UNCHANGED <<mixed, calls>>

(* The retag page fetches the orders and adds a tag to each, removing     *)
(* none.  The error of its fetch carries neither Shopify's message nor    *)
(* the word "status" (retag.go:127): it is never taken for a legacy or a  *)
(* dead token.                                                            *)
FetchOrders(c) ==
    /\ pc(c) = "fetch"
    /\ \E answer \in Answers(tok(c)) : Goto(c, IF answer = "ok" THEN "retag" ELSE "idle")
    /\ UNCHANGED <<rows, shopify, forgotten, tagVars>>

Retag(c) ==
    /\ pc(c) = "retag"
    /\ \E answer \in Answers(tok(c)) : \E done \in Executed(c, answer) :
         IF done THEN tags' = tags \cup Added(c) /\ mixed' = TRUE
                 ELSE UNCHANGED <<tags, mixed>>
    /\ UNCHANGED calls
    /\ Goto(c, "idle")
    /\ UNCHANGED <<rows, shopify, forgotten>>

Step(c) == Remove(c) \/ Add(c) \/ FetchOrders(c) \/ Retag(c) \/ (TokenStep(c) /\ UNCHANGED tagVars)

Next ==
    \/ \E c \in Callers : Step(c) \/ \E k \in Kinds : Begin(c, k)
    \/ \E g \in Grants : Age(g) /\ UNCHANGED tagVars
    \/ Uninstall

Spec == Init /\ [][Next]_vars

(* "the order shows only its current state" (order_tags.go:81), as far as *)
(* it goes: two status tags together mean that a removal failed, that     *)
(* another caller was between its two requests, that the merchant         *)
(* retagged, or that the other tag's name was no longer in use; the next  *)
(* replacement that gets through, under its names, sets it right.         *)
OneStatus == Cardinality(tags) > 1 => mixed
=============================================================================
