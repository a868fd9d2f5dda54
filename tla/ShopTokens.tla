----------------------------- MODULE ShopTokens -----------------------------
(***************************************************************************)
(* The Shopify access tokens of one shop (store/sessions.go,              *)
(* store/shop_tokens.go, handlers/sessions.go, /internal/register-shop).  *)
(*                                                                         *)
(* A token is named after the grant that issued it.  A grant also has a   *)
(* refresh token, except the legacy one, and both are replaced together.  *)
(* Its exchange for a new grant spends it.  The stored token is in two    *)
(* rows: the offline session, and a fallback in shop_tokens.              *)
(*                                                                         *)
(* A caller is a goroutine that needs a token, or the frontend on a visit *)
(* of the merchant.  Each statement and each request is a step.  What the *)
(* callers then do with the token is in OrderTags.                        *)
(***************************************************************************)
EXTENDS Naturals

CONSTANTS
    Callers,    \* goroutines and visits in progress at once
    MaxGrants,  \* bound on the grants Shopify issues
    NoToken,    \* an empty row
    Online,     \* the short-lived token the frontend registers on a visit
    Status,     \* the status tags callers add to orders
    NoTag       \* for a caller that adds none

Grants == 1..MaxGrants

ASSUME TokenAssumption ==
    /\ MaxGrants \in Nat \ {0}
    /\ NoToken \notin Grants
    /\ Online \notin Grants \cup {NoToken}

VARIABLES
    grant,      \* what Shopify thinks of each grant's access token
    spent,      \* grants exchanged for a newer one
    session,    \* the token of the row offline_<shop> of shopify_sessions
    fallback,   \* shop_tokens.access_token
    flagged,    \* shop_tokens.needs_reauth
    call,       \* each caller's: pc; kind and about, what it wants; tok, the token
                \* it holds; got, the grant it exchanges or received; then, where it
                \* goes on after that grant is stored
    forgotten   \* history: grants whose successor was never stored, or was
                \* overwritten by the frontend

rows    == <<session, fallback, flagged>>
shopify == <<grant, spent>>
tokenVars == <<rows, shopify, call, forgotten>>

Held   == Grants \cup {NoToken}
Tokens == Held \cup {Online}
Kinds  == {"status", "label", "retag", "checkout", "read", "visit", "delete"}

(* "legacy" is refused with the message that asks for a migration; "near" *)
(* has less than five minutes left.                                       *)
GrantStates == {"none", "legacy", "live", "near", "expired", "revoked"}

Steps == {"idle", "signin", "register", "load", "fallback", "reload", "refresh",
          "migrate", "store", "mirror", "clear", "remove", "reremove", "add", "readd",
          "charge", "recharge", "fetch", "retag", "purge", "empty", "flag", "drop"}

TokenTypeOK ==
    /\ grant \in [Grants -> GrantStates]
    /\ spent \subseteq Grants
    /\ session \in Held
    /\ fallback \in Tokens
    /\ flagged \in BOOLEAN
    /\ call \in [Callers -> [pc : Steps, kind : Kinds, about : Status \cup {NoTag},
                            tok : Tokens, got : Held, then : Steps]]
    /\ forgotten \subseteq Grants

Idle == [pc |-> "idle", kind |-> "read", about |-> NoTag, tok |-> NoToken, got |-> NoToken,
         then |-> "idle"]

(* The app was installed with a legacy token, or with an expiring one.    *)
TokenInit ==
    /\ \E s \in {"legacy", "live"} : grant = [g \in Grants |-> IF g = 1 THEN s ELSE "none"]
    /\ spent = {}
    /\ session = 1 /\ fallback = 1
    /\ flagged = FALSE
    /\ call = [c \in Callers |-> Idle]
    /\ forgotten = {}

-----------------------------------------------------------------------------
(* Shopify.                                                               *)

Fresh == {g \in Grants : grant[g] = "none" /\ \A h \in 1..(g - 1) : grant[h] # "none"}

(* The access token in a session expires; a legacy one does not.          *)
Age(g) ==
    /\ grant[g] \in {"live", "near"}
    /\ grant' = [grant EXCEPT ![g] = IF @ = "live" THEN "near" ELSE "expired"]
    /\ UNCHANGED <<rows, spent, call, forgotten>>

(* How the Admin API answers a call with token t.  "auth" is a refused    *)
(* token or one without the scope for the call.                           *)
Answers(t) ==
    IF t = Online THEN {"ok", "auth", "error"}
    ELSE CASE grant[t] = "legacy" -> {"legacy", "auth", "error"}
           [] grant[t] \in {"expired", "revoked"} -> {"auth", "error"}
           [] OTHER -> {"ok", "auth", "error"}

(* Uninstalling the app revokes every grant.  The rows stay until         *)
(* Shopify's shop/redact, the app's own request or the admin deletes them.*)
Revoke ==
    /\ grant' = [g \in Grants |-> IF grant[g] = "none" THEN "none" ELSE "revoked"]
    /\ UNCHANGED <<rows, spent, call, forgotten>>

PurgeShop ==
    /\ session' = NoToken /\ fallback' = NoToken /\ flagged' = FALSE
    /\ UNCHANGED <<shopify, call, forgotten>>

HasRefresh(g) == grant[g] \in {"live", "near", "expired"}

(* The session library takes a stored session until its expiry passes.    *)
Acceptable(g) == g # NoToken /\ grant[g] # "expired"

-----------------------------------------------------------------------------
pc(c) == call[c].pc
kind(c) == call[c].kind
tok(c) == call[c].tok
got(c) == call[c].got
then(c) == call[c].then

Become(c, r) == call' = [call EXCEPT ![c] = IF r.pc = "idle" THEN Idle ELSE r]
Goto(c, p)   == Become(c, [call[c] EXCEPT !.pc = p])

(* Where a caller begins once it holds a token.                           *)
FirstUse(k) ==
    CASE k = "status"   -> "remove"
      [] k = "label"    -> "add"
      [] k = "retag"    -> "fetch"
      [] k = "checkout" -> "charge"
      [] OTHER          -> "idle"

Entry(k) ==
    CASE k = "visit"  -> "signin"
      [] k = "delete" -> "drop"
      [] OTHER        -> "load"

Start(c, k, t) ==
    /\ pc(c) = "idle"
    /\ Become(c, [Idle EXCEPT !.pc = Entry(k), !.kind = k, !.about = t])
    /\ UNCHANGED <<rows, shopify, forgotten>>

(* A visit: the frontend loads the session and stores it again, or has a  *)
(* new token issued when there is none or it has expired.                 *)
SignIn(c) ==
    /\ pc(c) = "signin"
    /\ \E g \in IF Acceptable(session) THEN {session} ELSE Fresh :
         /\ grant' = IF g = session THEN grant ELSE [grant EXCEPT ![g] = "live"]
         /\ Become(c, [call[c] EXCEPT !.pc = "store", !.got = g, !.then = "register"])
    /\ UNCHANGED <<rows, spent, forgotten>>

SignInFails(c) ==
    /\ pc(c) = "signin" /\ ~Acceptable(session)
    /\ Goto(c, "idle")
    /\ UNCHANGED <<rows, shopify, forgotten>>

(* register-shop: the flag first, then the rows.                          *)
Register(c) ==
    /\ pc(c) = "register"
    /\ flagged' \in {FALSE, flagged}
    /\ Goto(c, "load")
    /\ UNCHANGED <<session, fallback, shopify, forgotten>>

-----------------------------------------------------------------------------
(* GetShopToken.                                                          *)

NeedsRefresh(g) == grant[g] \in {"near", "expired"}

LoadSession(c) ==
    /\ pc(c) = "load"
    /\ IF session = NoToken
         THEN Goto(c, "fallback")
         ELSE Become(c, [call[c] EXCEPT !.tok = session,
                           !.pc = IF NeedsRefresh(session) THEN "reload" ELSE FirstUse(kind(c))])
    /\ UNCHANGED <<rows, shopify, forgotten>>

(* The fallback of GetShopToken, or, on a visit, the online token that    *)
(* register-shop writes there instead.  Without any token the order tags  *)
(* flag the shop; the others give up.                                     *)
LoadFallback(c) ==
    /\ pc(c) = "fallback"
    /\ IF kind(c) = "visit"
         THEN fallback' \in {Online, fallback} /\ Goto(c, "idle")
         ELSE /\ Become(c, [call[c] EXCEPT !.tok = fallback,
                              !.pc = IF fallback # NoToken THEN FirstUse(kind(c))
                                     ELSE IF kind(c) \in {"status", "label"} THEN "flag"
                                     ELSE "idle"])
              /\ UNCHANGED fallback
    /\ UNCHANGED <<session, flagged, shopify, forgotten>>

(* RefreshOfflineTokenForShop reads the session a second time.            *)
Reload(c) ==
    /\ pc(c) = "reload"
    /\ IF session # NoToken /\ HasRefresh(session)
         THEN Become(c, [call[c] EXCEPT !.got = session, !.pc = "refresh"])
         ELSE Goto(c, FirstUse(kind(c)))
    /\ UNCHANGED <<rows, shopify, forgotten>>

(* Shopify issues a new grant for g.  Then the answer arrives, or it is   *)
(* lost, or the new session is not stored, and the caller takes failed.   *)
Exchange(c, g, next, failed) ==
    /\ g \notin spent
    /\ spent' = spent \cup {g}
    /\ \E n \in Fresh :
         /\ grant' = [grant EXCEPT ![n] = "live", ![g] = IF @ = "legacy" THEN "revoked" ELSE @]
         /\ \/ /\ Become(c, [call[c] EXCEPT !.pc = "store", !.got = n, !.then = next])
               /\ UNCHANGED forgotten
            \/ /\ Goto(c, failed)
               /\ forgotten' = forgotten \cup {g}
    /\ UNCHANGED rows

ExchangeFails(c, failed) ==
    /\ Goto(c, failed)
    /\ UNCHANGED <<rows, shopify, forgotten>>

(* After a failed refresh the caller goes on with the old token.          *)
Refresh(c) ==
    /\ pc(c) = "refresh"
    /\ \/ Exchange(c, got(c), FirstUse(kind(c)), FirstUse(kind(c)))
       \/ ExchangeFails(c, FirstUse(kind(c)))

(* What a rejected token leads to.                                        *)
Rejected(k) == IF k = "status" THEN "purge" ELSE "flag"

(* migrateLegacyToken.  then(c) is the call to repeat with the new token. *)
Migrate(c) ==
    LET failed == IF then(c) = "reremove" THEN "add" ELSE Rejected(kind(c))
    IN  /\ pc(c) = "migrate"
        /\ \/ grant[tok(c)] = "legacy" /\ Exchange(c, tok(c), then(c), failed)
           \/ ExchangeFails(c, failed)

-----------------------------------------------------------------------------
(* A new grant is stored by three statements: the session, the fallback,  *)
(* the flag.  The same three for a refresh, a migration and a visit.  The *)
(* errors of the last two are dropped.                                    *)

OldSession(c) == tok(c)      \* mutant: the old session stays
NewSession(c) == got(c)

StoreSession(c) ==
    /\ pc(c) = "store"
    /\ session' = NewSession(c)
    /\ forgotten' = IF kind(c) = "visit" /\ got(c) \in spent
                      THEN forgotten \cup {got(c)} ELSE forgotten
    /\ Goto(c, "mirror")
    /\ UNCHANGED <<fallback, flagged, shopify>>

SetShopToken(c) ==
    /\ pc(c) = "mirror"
    /\ fallback' \in {got(c), fallback}
    /\ Goto(c, "clear")
    /\ UNCHANGED <<session, flagged, shopify, forgotten>>

ClearShopReauth(c) ==
    /\ pc(c) = "clear"
    /\ flagged' \in {FALSE, flagged}
    /\ Become(c, [call[c] EXCEPT !.pc = then(c), !.tok = got(c), !.got = NoToken, !.then = "idle"])
    /\ UNCHANGED <<session, fallback, shopify, forgotten>>

-----------------------------------------------------------------------------
(* After a rejected call: InvalidateShopToken is two statements, of the   *)
(* status tags only; then the flag; a checkout deletes the session last,  *)
(* as the frontend may at any time.  None of them looks at an error.      *)

PurgeSession(c) ==
    /\ pc(c) = "purge"
    /\ session' \in {NoToken, session}
    /\ Goto(c, "empty")
    /\ UNCHANGED <<fallback, flagged, shopify, forgotten>>

EmptyFallback(c) ==
    /\ pc(c) = "empty"
    /\ fallback' \in {NoToken, fallback}
    /\ Goto(c, "flag")
    /\ UNCHANGED <<session, flagged, shopify, forgotten>>

FlagShopReauth(c) ==
    /\ pc(c) = "flag"
    /\ flagged' \in {TRUE, flagged}
    /\ Goto(c, IF kind(c) = "checkout" THEN "drop" ELSE "idle")
    /\ UNCHANGED <<session, fallback, shopify, forgotten>>

DropSession(c) ==
    /\ pc(c) = "drop"
    /\ session' \in {NoToken, session}
    /\ Goto(c, "idle")
    /\ UNCHANGED <<fallback, flagged, shopify, forgotten>>

(* A successful call, or one that failed for some other reason, moves on; *)
(* a token refused as legacy is migrated; a dead one is dealt with.       *)
Call(c, answer, ok, retry, dead) ==
    /\ answer \in Answers(tok(c))
    /\ IF answer = "legacy" /\ retry # "none"
         THEN Become(c, [call[c] EXCEPT !.pc = "migrate", !.then = retry])
         ELSE Goto(c, IF answer \in {"legacy", "auth"} THEN dead ELSE ok)
    /\ UNCHANGED <<rows, shopify, forgotten>>

(* appSubscriptionCreate of a checkout, and its repetition.               *)
Charge(c) ==
    \E answer \in {"ok", "legacy", "auth", "error"} :
        \/ pc(c) = "charge"   /\ Call(c, answer, "idle", "recharge", "flag")
        \/ pc(c) = "recharge" /\ Call(c, answer, "idle", "none", "flag")

TokenStep(c) ==
    \/ SignIn(c) \/ SignInFails(c) \/ Register(c)
    \/ LoadSession(c) \/ LoadFallback(c) \/ Reload(c) \/ Refresh(c) \/ Migrate(c)
    \/ StoreSession(c) \/ SetShopToken(c) \/ ClearShopReauth(c)
    \/ PurgeSession(c) \/ EmptyFallback(c) \/ FlagShopReauth(c) \/ DropSession(c)
    \/ Charge(c)

-----------------------------------------------------------------------------
(* A stored session whose refresh token is spent can never be renewed.    *)
(* It gets there only while the goroutine that received the successor is  *)
(* about to store it, or because the successor was lost or overwritten by *)
(* the frontend's own copy: two refreshes at once do no harm, the one     *)
(* that comes second is refused (sessions.go:282-310).                    *)
RotationKept ==
    session \in spent =>
        \/ session \in forgotten
        \/ \E c \in Callers : pc(c) = "store" /\ got(c) # session
=============================================================================
