--------------------------- MODULE OrderTags_proofs ---------------------------
(***************************************************************************)
(* For any number of callers, grants and status tags: a stored session    *)
(* can be renewed, or its successor is under way or known to be lost, and *)
(* two status tags together have a cause.                                 *)
(*                                                                         *)
(* The first is not inductive.  A grant that is about to be stored has    *)
(* not been exchanged because nobody else knows it (Own), and nobody else *)
(* knows it because it was never issued before (Issued).                  *)
(***************************************************************************)
EXTENDS OrderTags, FiniteSetTheorems, TLAPS

CallRecords == [pc : Steps, kind : Kinds, about : Status \cup {NoTag},
                tok : Tokens, got : Held, then : Steps]

Using == {"remove", "reremove", "add", "readd", "charge", "recharge", "fetch", "retag",
          "reload", "refresh", "migrate"}

(* Where a caller may go on once a grant is stored.                       *)
After == {"idle", "register", "remove", "add", "charge", "fetch",
          "reremove", "readd", "recharge"}

TagCalls == {"remove", "reremove", "add", "readd"}

(* A caller has the token or the grant that its next step needs, and      *)
(* makes the calls of its kind.                                           *)
Sound(r) ==
    /\ r.pc \in Using => r.tok # NoToken
    /\ r.pc = "migrate" => r.tok \in Grants
    /\ r.pc \in {"refresh", "store", "mirror", "clear"} => r.got \in Grants
    /\ r.then \in After
    /\ r.pc = "signin" => r.kind = "visit"
    /\ r.pc \in TagCalls \/ r.then \in TagCalls => r.kind \in {"status", "label"}
    /\ r.kind = "status" => r.about \in Status /\ r.then # "add"
    /\ r.kind \notin {"status", "retag"} => r.about = NoTag

(* A grant that the rows or a caller know has been issued.                *)
Known(states, x) == x \in Grants => states[x] # "none"

Issued ==
    /\ Known(grant, session) /\ Known(grant, fallback)
    /\ \A g \in spent : Known(grant, g)
    /\ \A c \in Callers : Known(grant, call[c].tok) /\ Known(grant, call[c].got)

Own(c) ==
    call[c].pc = "store" /\ call[c].kind # "visit" =>
        /\ call[c].got \notin spent /\ call[c].got \notin {session, fallback}
        /\ \A d \in Callers \ {c} : call[c].got \notin {call[d].tok, call[d].got}

TInv ==
    /\ TokenTypeOK
    /\ \A c \in Callers : Sound(call[c]) /\ Own(c)
    /\ Issued
    /\ RotationKept

(* The grant that replaces the caller's is lost.                          *)
Lost(c) ==
    /\ \E g \in {call[c].tok, call[c].got} \cap Grants :
         spent' = spent \cup {g} /\ forgotten' = forgotten \cup {g}
    /\ grant' \in [Grants -> GrantStates]
    /\ \A g \in Grants : grant[g] # "none" => grant'[g] # "none"

(* Most steps of a caller store nothing and learn no grant that was not   *)
(* known before.                                                          *)
Ordinary(c) ==
    /\ call[c].pc # "store"
    /\ \E r \in CallRecords :
         /\ call' = [call EXCEPT ![c] = r]
         /\ Sound(r) /\ r.pc # "store"
         /\ r.tok \in {NoToken, Online, session, fallback, call[c].tok, call[c].got}
         /\ r.got \in {NoToken, session, call[c].got}
    /\ session' \in {session, NoToken}
    /\ fallback' \in {fallback, NoToken, Online, call[c].got}
    /\ flagged' \in BOOLEAN
    /\ UNCHANGED <<grant, spent, forgotten>> \/ Lost(c)

LEMMA OrdinaryTInv ==
  ASSUME TInv, NEW c \in Callers, Ordinary(c)
  PROVE  TInv'
<1> USE TokenAssumption DEF TInv, TokenTypeOK, Held, Tokens
<1>1. PICK r \in CallRecords :
         /\ call' = [call EXCEPT ![c] = r]
         /\ Sound(r) /\ r.pc # "store"
         /\ r.tok \in {NoToken, Online, session, fallback, call[c].tok, call[c].got}
         /\ r.got \in {NoToken, session, call[c].got}
  BY DEF Ordinary
<1>2. call \in [Callers -> CallRecords]
  BY DEF CallRecords
<1>3. call'[c] = r /\ \A d \in Callers \ {c} : call'[d] = call[d]
  BY <1>1, <1>2
<1>4. /\ call[c].pc # "store"
      /\ session' \in {session, NoToken}
      /\ fallback' \in {fallback, NoToken, Online, call[c].got}
      /\ flagged' \in BOOLEAN
  BY DEF Ordinary
<1>5. call[c].tok \in Tokens /\ call[c].got \in Held
  BY <1>2 DEF CallRecords
<1>6. /\ spent \subseteq spent' /\ spent' \subseteq Grants
      /\ forgotten \subseteq forgotten' /\ forgotten' \subseteq Grants
      /\ \A g \in spent' \ spent : g \in {call[c].tok, call[c].got} /\ g \in forgotten'
      /\ grant' \in [Grants -> GrantStates]
      /\ \A g \in Grants : grant[g] # "none" => grant'[g] # "none"
  <2>1. CASE UNCHANGED <<grant, spent, forgotten>>
    BY <2>1
  <2>2. CASE Lost(c)
    BY <2>2 DEF Lost
  <2>3. QED
    BY <2>1, <2>2 DEF Ordinary
<1>7. TokenTypeOK'
  <2>1. call' \in [Callers -> CallRecords]
    BY <1>1, <1>2
  <2>2. session' \in Held /\ fallback' \in Tokens
    BY <1>4, <1>5
  <2>3. spent' \subseteq Grants /\ forgotten' \subseteq Grants /\ grant' \in [Grants -> GrantStates]
    BY <1>6
  <2> HIDE DEF TInv, Held, Tokens
  <2>4. QED
    BY <1>4, <2>1, <2>2, <2>3 DEF CallRecords
<1>8. \A d \in Callers : Sound(call'[d])
  BY <1>1, <1>3
<1>9. ASSUME NEW d \in Callers PROVE Own(d)'
  <2>1. CASE d = c
    BY <1>1, <1>3, <2>1 DEF Own
  <2>2. CASE d # c
    <3> SUFFICES ASSUME call[d].pc = "store", call[d].kind # "visit" PROVE Own(d)'
      BY <1>3, <2>2 DEF Own
    <3>1. call[d].got \in Grants
      BY DEF Sound, TagCalls
    <3>2. /\ call[d].got \notin spent /\ call[d].got \notin {session, fallback}
          /\ \A e \in Callers \ {d} : call[d].got \notin {call[e].tok, call[e].got}
      BY DEF Own
    <3>3. call[d].got \notin {r.tok, r.got, session', fallback'}
      BY <1>1, <1>4, <2>2, <3>1, <3>2
    <3>4. call[d].got \notin spent'
      BY <1>6, <2>2, <3>2
    <3>5. QED
      BY <1>3, <1>4, <2>2, <3>2, <3>3, <3>4 DEF Own
  <2>3. QED
    BY <2>1, <2>2
<1>10. Issued'
  <2>1. \A x : Known(grant, x) => Known(grant', x)
    <3> SUFFICES ASSUME NEW x, x \in Grants, grant[x] # "none" PROVE grant'[x] # "none"
      BY DEF Known
    <3>1. QED
      BY <1>6
  <2>2. Known(grant', NoToken) /\ Known(grant', Online)
    BY DEF Known
  <2>3. /\ Known(grant', session) /\ Known(grant', fallback)
        /\ \A d \in Callers : Known(grant', call[d].tok) /\ Known(grant', call[d].got)
    BY <2>1 DEF Issued
  <2>4. Known(grant', r.tok) /\ Known(grant', r.got) /\ Known(grant', session') /\ Known(grant', fallback')
    BY <1>1, <1>4, <2>2, <2>3
  <2>5. \A d \in Callers : Known(grant', call'[d].tok) /\ Known(grant', call'[d].got)
    BY <1>3, <2>3, <2>4
  <2>6. \A g \in spent' : Known(grant', g)
    BY <1>6, <2>1, <2>3 DEF Issued
  <2>7. QED
    BY <2>4, <2>5, <2>6 DEF Issued
<1>11. RotationKept'
  <2> SUFFICES ASSUME session \in spent, session' = session, session \notin forgotten'
               PROVE  \E d \in Callers : call'[d].pc = "store" /\ call'[d].got # session
    BY <1>4, <1>6 DEF RotationKept, pc, got
  <2>1. PICK d \in Callers : call[d].pc = "store" /\ call[d].got # session
    BY <1>6 DEF RotationKept, pc, got
  <2>2. QED
    BY <1>3, <1>4, <2>1
<1>12. QED
  BY <1>7, <1>8, <1>9, <1>10, <1>11

(* The common part of such a step.                                        *)
LEMMA BecomeOrdinary ==
  ASSUME TInv, NEW c \in Callers, NEW r \in CallRecords, Become(c, r),
         call[c].pc # "store", r.pc # "store", Sound(r),
         r.tok \in {NoToken, Online, session, fallback, call[c].tok, call[c].got},
         r.got \in {NoToken, session, call[c].got},
         session' \in {session, NoToken},
         fallback' \in {fallback, NoToken, Online, call[c].got},
         flagged' \in BOOLEAN,
         UNCHANGED <<grant, spent, forgotten>>
  PROVE  TInv'
<1> DEFINE q == IF r.pc = "idle" THEN Idle ELSE r
<1>1. Idle \in CallRecords /\ Idle.pc # "store" /\ Sound(Idle)
      /\ Idle.tok = NoToken /\ Idle.got = NoToken
  BY DEF CallRecords, Idle, Steps, Kinds, Tokens, Held, Sound, Using, After, TagCalls
<1>2. /\ q \in CallRecords /\ q.pc # "store" /\ Sound(q)
      /\ q.tok \in {NoToken, Online, session, fallback, call[c].tok, call[c].got}
      /\ q.got \in {NoToken, session, call[c].got}
  BY <1>1
<1>3. call' = [call EXCEPT ![c] = q]
  BY DEF Become
<1>4. Ordinary(c)
  BY <1>2, <1>3 DEF Ordinary
<1>5. QED
  BY <1>4, OrdinaryTInv

LEMMA GotoOrdinary ==
  ASSUME TInv, NEW c \in Callers, NEW p \in Steps, Goto(c, p),
         call[c].pc # "store", p \notin {"store", "signin"},
         p \in Using => call[c].tok # NoToken,
         p \in TagCalls => call[c].kind \in {"status", "label"},
         p = "migrate" => call[c].tok \in Grants,
         p \in {"refresh", "mirror", "clear"} => call[c].got \in Grants,
         session' \in {session, NoToken},
         fallback' \in {fallback, NoToken, Online, call[c].got},
         flagged' \in BOOLEAN,
         UNCHANGED <<grant, spent, forgotten>>
  PROVE  TInv'
<1> DEFINE r == [call[c] EXCEPT !.pc = p]
<1>1. call[c] \in CallRecords /\ Sound(call[c])
  BY DEF TInv, TokenTypeOK, CallRecords
<1>2. /\ r \in CallRecords /\ r.pc = p
      /\ r.tok = call[c].tok /\ r.got = call[c].got /\ r.then = call[c].then
      /\ r.kind = call[c].kind /\ r.about = call[c].about
  BY <1>1 DEF CallRecords
<1>3. Sound(r)
  BY <1>1, <1>2 DEF Sound, TagCalls
<1>4. Become(c, r)
  BY DEF Goto
<1>5. QED
  BY <1>2, <1>3, <1>4, BecomeOrdinary

(* A request of a caller that has a token.                                *)
LEMMA CallTInv ==
  ASSUME TInv, NEW c \in Callers, NEW answer \in {"ok", "legacy", "auth", "error"},
         NEW ok \in {"idle", "add"}, NEW retry \in {"none", "reremove", "readd", "recharge"},
         NEW dead \in {"idle", "add", "purge", "flag"},
         call[c].pc \in Using, Call(c, answer, ok, retry, dead),
         ok = "add" \/ retry \in TagCalls \/ dead = "add" => call[c].kind \in {"status", "label"}
  PROVE  TInv'
<1> USE DEF Steps, Using, TagCalls, rows, shopify
<1>1. call[c] \in CallRecords /\ Sound(call[c]) /\ call[c].tok # NoToken
  BY DEF TInv, TokenTypeOK, CallRecords, Sound, TagCalls
<1>2. UNCHANGED <<session, fallback, flagged, grant, spent, forgotten>> /\ flagged \in BOOLEAN
  BY DEF Call, TInv, TokenTypeOK
<1>3. CASE answer = "legacy" /\ retry # "none"
  <2> DEFINE r == [call[c] EXCEPT !.pc = "migrate", !.then = retry]
  <2>1. call[c].tok \in Grants
    BY <1>1, <1>3 DEF Call, Answers, tok, CallRecords, Tokens, Held
  <2>2. /\ r \in CallRecords /\ r.pc = "migrate" /\ r.then = retry
        /\ r.tok = call[c].tok /\ r.got = call[c].got
        /\ r.kind = call[c].kind /\ r.about = call[c].about
    BY <1>1, <1>3 DEF CallRecords
  <2>3. Sound(r)
    BY <1>1, <1>3, <2>1, <2>2 DEF Sound, After, TagCalls
  <2>4. Become(c, r)
    BY <1>3 DEF Call
  <2>5. QED
    BY <1>2, <2>2, <2>3, <2>4, BecomeOrdinary
<1>4. CASE ~(answer = "legacy" /\ retry # "none")
  <2>1. PICK p \in {"idle", "add", "purge", "flag"} :
              Goto(c, p) /\ (p = "add" => call[c].kind \in {"status", "label"})
    BY <1>4 DEF Call
  <2>2. QED
    BY <1>1, <1>2, <2>1, GotoOrdinary
<1>5. QED
  BY <1>3, <1>4

(* Where a caller begins is a step that needs a token.                    *)
LEMMA FirstUses ==
  ASSUME NEW k
  PROVE  /\ FirstUse(k) \in {"remove", "add", "fetch", "charge", "idle"}
         /\ FirstUse(k) \in TagCalls => k \in {"status", "label"}
         /\ k = "status" => FirstUse(k) = "remove"
BY DEF FirstUse, TagCalls

LEMMA StartTInv ==
  ASSUME TInv, NEW c \in Callers, NEW k \in Kinds, NEW t \in AboutFor(k), Start(c, k, t)
  PROVE  TInv'
<1> DEFINE r == [Idle EXCEPT !.pc = Entry(k), !.kind = k, !.about = t]
<1>1. Entry(k) \in {"signin", "drop", "load"} /\ (Entry(k) = "signin" => k = "visit")
  BY DEF Entry
<1>2. /\ t \in Status \cup {NoTag} /\ (k = "status" => t \in Status)
      /\ k \notin {"status", "retag"} => t = NoTag
  <2>1. CASE k = "status"
    BY <2>1 DEF AboutFor
  <2>2. CASE k = "retag"
    BY <2>2 DEF AboutFor
  <2>3. CASE k \notin {"status", "retag"}
    BY <2>3 DEF AboutFor
  <2>4. QED
    BY <2>1, <2>2, <2>3
<1>3. Idle \in CallRecords
  BY DEF Idle, CallRecords, Steps, Kinds, Tokens, Held
<1>4. /\ r \in CallRecords /\ r.pc = Entry(k) /\ r.kind = k /\ r.about = t
      /\ r.tok = NoToken /\ r.got = NoToken /\ r.then = "idle"
  BY <1>1, <1>2, <1>3 DEF CallRecords, Steps, Idle
<1>5. Sound(r) /\ r.pc # "store" /\ r.tok = NoToken /\ r.got = NoToken
  BY <1>1, <1>2, <1>4 DEF Sound, Using, After, TagCalls
<1>6. /\ Become(c, r) /\ call[c].pc # "store" /\ flagged \in BOOLEAN
      /\ UNCHANGED <<session, fallback, flagged, grant, spent, forgotten>>
  BY DEF Start, pc, rows, shopify, TInv, TokenTypeOK
<1>7. QED
  BY <1>4, <1>5, <1>6, BecomeOrdinary

(* The steps of GetShopToken and of a visit that issue no grant.          *)
LEMMA LoadTInv ==
  ASSUME TInv, NEW c \in Callers,
         \/ SignInFails(c) \/ Register(c) \/ LoadSession(c) \/ LoadFallback(c) \/ Reload(c)
  PROVE  TInv'
<1> USE TokenAssumption DEF rows, shopify, pc, kind
<1>1. /\ call[c] \in CallRecords /\ Sound(call[c]) /\ call[c].kind \in Kinds
      /\ session \in Held /\ fallback \in Tokens /\ flagged \in BOOLEAN
  BY DEF TInv, TokenTypeOK, CallRecords
<1>2. CASE SignInFails(c)
  BY <1>1, <1>2, GotoOrdinary DEF SignInFails, Steps, Using, TagCalls
<1>3. CASE Register(c)
  BY <1>1, <1>3, GotoOrdinary DEF Register, Steps, Using, TagCalls
<1>4. CASE LoadSession(c) /\ session = NoToken
  BY <1>1, <1>4, GotoOrdinary DEF LoadSession, Steps, Using, TagCalls
<1>5. CASE LoadSession(c) /\ session # NoToken
  <2> DEFINE p == IF NeedsRefresh(session) THEN "reload" ELSE FirstUse(kind(c))
             r == [call[c] EXCEPT !.tok = session, !.pc = p]
  <2>1. /\ p \in {"reload", "remove", "add", "fetch", "charge", "idle"}
        /\ p \in TagCalls => kind(c) \in {"status", "label"}
    BY FirstUses DEF TagCalls
  <2>2. /\ r \in CallRecords /\ r.pc = p /\ r.tok = session
        /\ r.got = call[c].got /\ r.then = call[c].then
        /\ r.kind = call[c].kind /\ r.about = call[c].about
    BY <1>1, <2>1 DEF CallRecords, Steps, Tokens
  <2>3. Sound(r) /\ r.pc # "store"
    BY <1>1, <1>5, <2>1, <2>2 DEF Sound, TagCalls
  <2>4. Become(c, r) /\ call[c].pc # "store" /\ UNCHANGED <<session, fallback, flagged, grant, spent, forgotten>>
    BY <1>5 DEF LoadSession
  <2>5. QED
    BY <1>1, <2>2, <2>3, <2>4, BecomeOrdinary
<1>6. CASE LoadFallback(c) /\ kind(c) = "visit"
  BY <1>1, <1>6, GotoOrdinary DEF LoadFallback, Steps, Using, TagCalls
<1>7. CASE LoadFallback(c) /\ kind(c) # "visit"
  <2> DEFINE p == IF fallback # NoToken THEN FirstUse(kind(c))
                  ELSE IF kind(c) \in {"status", "label"} THEN "flag"
                  ELSE "idle"
             r == [call[c] EXCEPT !.tok = fallback, !.pc = p]
  <2>1. /\ p \in {"flag", "remove", "add", "fetch", "charge", "idle"}
        /\ fallback = NoToken => p \in {"flag", "idle"}
        /\ p \in TagCalls => kind(c) \in {"status", "label"}
    BY FirstUses DEF TagCalls
  <2>2. /\ r \in CallRecords /\ r.pc = p /\ r.tok = fallback
        /\ r.got = call[c].got /\ r.then = call[c].then
        /\ r.kind = call[c].kind /\ r.about = call[c].about
    BY <1>1, <2>1 DEF CallRecords, Steps
  <2>3. Sound(r) /\ r.pc # "store"
    BY <1>1, <2>1, <2>2 DEF Sound, Using, TagCalls
  <2>4. Become(c, r) /\ call[c].pc # "store" /\ UNCHANGED <<session, fallback, flagged, grant, spent, forgotten>>
    BY <1>7 DEF LoadFallback
  <2>5. QED
    BY <1>1, <2>2, <2>3, <2>4, BecomeOrdinary
<1>8. CASE Reload(c) /\ session # NoToken /\ HasRefresh(session)
  <2> DEFINE r == [call[c] EXCEPT !.got = session, !.pc = "refresh"]
  <2>1. /\ r \in CallRecords /\ r.pc = "refresh" /\ r.got = session
        /\ r.tok = call[c].tok /\ r.then = call[c].then
        /\ r.kind = call[c].kind /\ r.about = call[c].about
    BY <1>1 DEF CallRecords, Steps
  <2>2. Sound(r) /\ r.pc # "store"
    BY <1>1, <1>8, <2>1 DEF Sound, Using, Held, Reload, TagCalls
  <2>3. Become(c, r) /\ call[c].pc # "store" /\ UNCHANGED <<session, fallback, flagged, grant, spent, forgotten>>
    BY <1>8 DEF Reload
  <2>4. QED
    BY <1>1, <2>1, <2>2, <2>3, BecomeOrdinary
<1>9. CASE Reload(c) /\ ~(session # NoToken /\ HasRefresh(session))
  <2>1. call[c].pc = "reload" /\ call[c].tok # NoToken
    BY <1>1, <1>9 DEF Reload, Sound, Using, TagCalls
  <2>2. PICK p \in {"remove", "add", "fetch", "charge", "idle"} :
              Goto(c, p) /\ (p \in TagCalls => kind(c) \in {"status", "label"})
    BY <1>9, FirstUses DEF Reload
  <2>3. QED
    BY <1>1, <1>9, <2>1, <2>2, GotoOrdinary DEF Reload, Steps, Using, TagCalls
<1>10. QED
  BY <1>2, <1>3, <1>4, <1>5, <1>6, <1>7, <1>8, <1>9

(* The statements that follow a stored grant or a rejected token.         *)
LEMMA StatementTInv ==
  ASSUME TInv, NEW c \in Callers,
         \/ SetShopToken(c) \/ ClearShopReauth(c) \/ PurgeSession(c) \/ EmptyFallback(c)
         \/ FlagShopReauth(c) \/ DropSession(c) \/ Charge(c)
  PROVE  TInv'
<1> USE TokenAssumption DEF rows, shopify, pc, kind, got
<1>1. /\ call[c] \in CallRecords /\ Sound(call[c])
      /\ session \in Held /\ fallback \in Tokens /\ flagged \in BOOLEAN
  BY DEF TInv, TokenTypeOK, CallRecords
<1>2. CASE SetShopToken(c)
  BY <1>1, <1>2, GotoOrdinary DEF SetShopToken, Steps, Using, TagCalls, Sound
<1>3. CASE ClearShopReauth(c)
  <2> DEFINE r == [call[c] EXCEPT !.pc = then(c), !.tok = got(c), !.got = NoToken, !.then = "idle"]
  <2>1. call[c].pc = "clear" /\ call[c].got \in Grants /\ then(c) \in After
    BY <1>1, <1>3 DEF ClearShopReauth, Sound, then, TagCalls
  <2>2. /\ r \in CallRecords /\ r.pc = then(c) /\ r.tok = call[c].got
        /\ r.got = NoToken /\ r.then = "idle"
        /\ r.kind = call[c].kind /\ r.about = call[c].about
    BY <1>1, <2>1 DEF CallRecords, Steps, Tokens, Held, After
  <2>3. Sound(r) /\ r.pc # "store"
    BY <1>1, <2>1, <2>2 DEF Sound, After, TagCalls, then
  <2>4. /\ Become(c, r) /\ UNCHANGED <<session, fallback, grant, spent, forgotten>>
        /\ flagged' \in {FALSE, flagged}
    BY <1>3 DEF ClearShopReauth
  <2>5. flagged' \in BOOLEAN
    BY <1>1, <2>4
  <2>6. QED
    BY <2>1, <2>2, <2>3, <2>4, <2>5, BecomeOrdinary
<1>4. CASE PurgeSession(c)
  BY <1>1, <1>4, GotoOrdinary DEF PurgeSession, Steps, Using, TagCalls
<1>5. CASE EmptyFallback(c)
  BY <1>1, <1>5, GotoOrdinary DEF EmptyFallback, Steps, Using, TagCalls
<1>6. CASE FlagShopReauth(c)
  BY <1>1, <1>6, GotoOrdinary DEF FlagShopReauth, Steps, Using, TagCalls
<1>7. CASE DropSession(c)
  BY <1>1, <1>7, GotoOrdinary DEF DropSession, Steps, Using, TagCalls
<1>8. CASE Charge(c)
  BY <1>8, CallTInv DEF Charge, Using, TagCalls
<1>9. QED
  BY <1>2, <1>3, <1>4, <1>5, <1>6, <1>7, <1>8

(* A caller turns to storing a grant: one issued just now, or, on a visit,*)
(* the one that is stored already.                                        *)
LEMMA ToStoreTInv ==
  ASSUME TInv, NEW c \in Callers, NEW n \in Grants, NEW next \in After,
         call[c].pc # "store",
         next \in TagCalls => call[c].kind \in {"status", "label"},
         call[c].kind = "status" => next # "add",
         Become(c, [call[c] EXCEPT !.pc = "store", !.got = n, !.then = next]),
         n \in Fresh \/ (call[c].kind = "visit" /\ n = session),
         spent' \in {spent, spent \cup {call[c].got}, spent \cup {call[c].tok}},
         spent' \subseteq Grants,
         session \in spent' \ spent => n # session,
         \A g \in spent' \ spent : g \in {call[c].got, call[c].tok},
         grant' \in [Grants -> GrantStates], grant'[n] # "none",
         \A g \in Grants : grant[g] # "none" => grant'[g] # "none",
         UNCHANGED <<rows, forgotten>>
  PROVE  TInv'
<1> USE TokenAssumption DEF rows
<1> DEFINE r == [call[c] EXCEPT !.pc = "store", !.got = n, !.then = next]
<1>1. call \in [Callers -> CallRecords] /\ call[c] \in CallRecords /\ Sound(call[c])
  BY DEF TInv, TokenTypeOK, CallRecords
<1>2. /\ r \in CallRecords /\ r.pc = "store" /\ r.got = n /\ r.then = next
      /\ r.tok = call[c].tok /\ r.kind = call[c].kind /\ r.about = call[c].about
  BY <1>1 DEF CallRecords, Steps, Held, After
<1>3. call' = [call EXCEPT ![c] = r]
  BY <1>2 DEF Become
<1>4. call'[c] = r /\ \A d \in Callers \ {c} : call'[d] = call[d]
  BY <1>1, <1>3
<1> HIDE DEF r
<1>5. TokenTypeOK'
  <2>1. call' \in [Callers -> CallRecords]
    BY <1>1, <1>2, <1>3
  <2>2. QED
    BY <2>1 DEF TInv, TokenTypeOK, CallRecords
<1>6. \A d \in Callers : Sound(call'[d])
  <2>1. Sound(r)
    BY <1>1, <1>2 DEF Sound, Using, TagCalls
  <2>2. QED
    BY <1>4, <2>1 DEF TInv
<1>7. n \in Fresh => /\ n \notin spent /\ n \notin {session, fallback}
                     /\ \A d \in Callers : n \notin {call[d].tok, call[d].got}
  BY DEF Fresh, TInv, Issued, Known
<1>8. ASSUME NEW d \in Callers PROVE Own(d)'
  <2>1. CASE d = c
    <3> SUFFICES ASSUME n \in Fresh PROVE Own(d)'
      BY <1>2, <1>4, <2>1 DEF Own
    <3>1. n \notin spent' /\ n \notin {session', fallback'}
      BY <1>7
    <3>2. \A e \in Callers \ {d} : n \notin {call'[e].tok, call'[e].got}
      BY <1>4, <1>7, <2>1
    <3>3. call'[d].got = n
      BY <1>2, <1>4, <2>1
    <3>4. QED
      BY <3>1, <3>2, <3>3 DEF Own
  <2>2. CASE d # c
    <3> SUFFICES ASSUME call[d].pc = "store", call[d].kind # "visit" PROVE Own(d)'
      BY <1>4, <2>2 DEF Own
    <3>1. /\ call[d].got \notin spent /\ call[d].got \notin {session, fallback}
          /\ \A e \in Callers \ {d} : call[d].got \notin {call[e].tok, call[e].got}
      BY DEF Own, TInv
    <3>2. call[d].got # n
      BY <1>7, <3>1
    <3>3. call[d].got \notin spent'
      BY <2>2, <3>1
    <3>4. \A e \in Callers \ {d} : call[d].got \notin {call'[e].tok, call'[e].got}
      <4>1. call[d].got \notin {call'[c].tok, call'[c].got}
        BY <1>2, <1>4, <2>2, <3>1, <3>2
      <4>2. QED
        BY <1>4, <3>1, <4>1
    <3>5. session' = session /\ fallback' = fallback /\ call'[d] = call[d]
      BY <1>4, <2>2
    <3>6. QED
      BY <3>1, <3>3, <3>4, <3>5 DEF Own
  <2>3. QED
    BY <2>1, <2>2
<1>9. Issued'
  <2>1. \A x : Known(grant, x) => Known(grant', x)
    BY DEF Known
  <2>2. /\ Known(grant', session) /\ Known(grant', fallback)
        /\ \A d \in Callers : Known(grant', call[d].tok) /\ Known(grant', call[d].got)
    BY <2>1 DEF TInv, Issued
  <2>3. Known(grant', r.tok) /\ Known(grant', r.got)
    BY <1>2, <2>2 DEF Known
  <2>4. \A d \in Callers : Known(grant', call'[d].tok) /\ Known(grant', call'[d].got)
    BY <1>4, <2>2, <2>3
  <2>5. \A g \in spent' : Known(grant', g)
    BY <2>1, <2>2 DEF TInv, Issued
  <2>6. QED
    BY <2>2, <2>4, <2>5 DEF Issued
<1>10. RotationKept'
  <2>1. CASE n # session
    BY <1>2, <1>4, <2>1 DEF RotationKept, pc, got
  <2>2. CASE n = session
    <3> SUFFICES ASSUME session \in spent, session \notin forgotten
                 PROVE  \E d \in Callers : call'[d].pc = "store" /\ call'[d].got # session
      BY <2>2 DEF RotationKept, pc, got
    <3>1. PICK d \in Callers : call[d].pc = "store" /\ call[d].got # session
      BY DEF TInv, RotationKept, pc, got
    <3>2. QED
      BY <1>4, <3>1
  <2>3. QED
    BY <2>1, <2>2
<1>11. QED
  BY <1>5, <1>6, <1>8, <1>9, <1>10 DEF TInv

(* A visit's grant, and the exchanges of a refresh and of a migration.    *)
LEMMA SignInTInv ==
  ASSUME TInv, NEW c \in Callers, SignIn(c)
  PROVE  TInv'
<1> USE TokenAssumption
<1>1. PICK g \in IF Acceptable(session) THEN {session} ELSE Fresh :
         /\ grant' = IF g = session THEN grant ELSE [grant EXCEPT ![g] = "live"]
         /\ Become(c, [call[c] EXCEPT !.pc = "store", !.got = g, !.then = "register"])
  BY DEF SignIn
<1>2. /\ grant \in [Grants -> GrantStates] /\ session \in Held /\ spent \subseteq Grants
      /\ UNCHANGED <<rows, spent, forgotten>> /\ call[c].pc = "signin" /\ call[c].kind = "visit"
  BY DEF TInv, TokenTypeOK, SignIn, pc, Sound, TagCalls
<1>3. /\ g \in Grants /\ (g \in Fresh \/ g = session)
      /\ session \in Grants => grant[session] # "none"
  BY <1>1, <1>2 DEF Fresh, Acceptable, Held, TInv, Issued, Known
<1>4. /\ grant' \in [Grants -> GrantStates] /\ grant'[g] # "none"
      /\ \A h \in Grants : grant[h] # "none" => grant'[h] # "none"
  BY <1>1, <1>2, <1>3 DEF GrantStates
<1>5. QED
  BY <1>1, <1>2, <1>3, <1>4, ToStoreTInv DEF After, TagCalls

LEMMA ExchangeTInv ==
  ASSUME TInv, NEW c \in Callers, call[c].pc \in {"refresh", "migrate"},
         NEW g \in {call[c].tok, call[c].got} \cap Grants,
         NEW next \in After, NEW failed \in {"remove", "add", "fetch", "charge", "idle", "purge", "flag"},
         next \in TagCalls \/ failed \in TagCalls => call[c].kind \in {"status", "label"},
         call[c].kind = "status" => next # "add",
         Exchange(c, g, next, failed)
  PROVE  TInv'
<1> USE TokenAssumption
<1>1. PICK n \in Fresh :
         /\ grant' = [grant EXCEPT ![n] = "live", ![g] = IF @ = "legacy" THEN "revoked" ELSE @]
         /\ \/ /\ Become(c, [call[c] EXCEPT !.pc = "store", !.got = n, !.then = next])
               /\ UNCHANGED forgotten
            \/ /\ Goto(c, failed)
               /\ forgotten' = forgotten \cup {g}
  BY DEF Exchange
<1>2. /\ grant \in [Grants -> GrantStates] /\ spent \subseteq Grants /\ n \in Grants
      /\ flagged \in BOOLEAN /\ grant[n] = "none" /\ grant[g] # "none" /\ n # session
      /\ spent' = spent \cup {g} /\ UNCHANGED rows
  BY DEF TInv, TokenTypeOK, Issued, Known, Exchange, Fresh
<1>3. /\ grant' \in [Grants -> GrantStates] /\ grant'[n] # "none"
      /\ \A h \in Grants : grant[h] # "none" => grant'[h] # "none"
  BY <1>1, <1>2 DEF GrantStates
<1>4. CASE Become(c, [call[c] EXCEPT !.pc = "store", !.got = n, !.then = next]) /\ UNCHANGED forgotten
  BY <1>2, <1>3, <1>4, ToStoreTInv
<1>5. CASE Goto(c, failed) /\ forgotten' = forgotten \cup {g}
  <2> DEFINE r == [call[c] EXCEPT !.pc = failed]
             q == IF r.pc = "idle" THEN Idle ELSE r
  <2>1. call[c] \in CallRecords /\ Sound(call[c]) /\ call[c].tok # NoToken
    BY DEF TInv, TokenTypeOK, CallRecords, Sound, Using, TagCalls
  <2>2. /\ r \in CallRecords /\ r.pc = failed
        /\ r.tok = call[c].tok /\ r.got = call[c].got /\ r.then = call[c].then
        /\ r.kind = call[c].kind /\ r.about = call[c].about
    BY <2>1 DEF CallRecords, Steps
  <2>3. Sound(r)
    BY <2>1, <2>2 DEF Sound, TagCalls
  <2>4. Idle \in CallRecords /\ Idle.pc # "store" /\ Sound(Idle)
        /\ Idle.tok = NoToken /\ Idle.got = NoToken
    BY DEF CallRecords, Idle, Steps, Kinds, Tokens, Held, Sound, Using, After, TagCalls
  <2>5. /\ q \in CallRecords /\ q.pc # "store" /\ Sound(q)
        /\ q.tok \in {NoToken, call[c].tok} /\ q.got \in {NoToken, call[c].got}
    BY <2>2, <2>3, <2>4
  <2>6. call' = [call EXCEPT ![c] = q]
    BY <1>5 DEF Goto, Become
  <2>7. Lost(c)
    BY <1>2, <1>3, <1>5 DEF Lost
  <2>8. Ordinary(c)
    BY <1>2, <2>5, <2>6, <2>7 DEF Ordinary, rows
  <2>9. QED
    BY <2>8, OrdinaryTInv
<1>6. QED
  BY <1>1, <1>4, <1>5

LEMMA RefreshTInv ==
  ASSUME TInv, NEW c \in Callers, Refresh(c) \/ Migrate(c)
  PROVE  TInv'
<1> USE TokenAssumption DEF pc, kind, tok, got
<1>1. call[c] \in CallRecords /\ Sound(call[c]) /\ flagged \in BOOLEAN
  BY DEF TInv, TokenTypeOK, CallRecords
<1>2. /\ FirstUse(kind(c)) \in After /\ FirstUse(kind(c)) \in {"remove", "add", "fetch", "charge", "idle"}
      /\ FirstUse(kind(c)) \in TagCalls => kind(c) \in {"status", "label"}
      /\ kind(c) = "status" => FirstUse(kind(c)) # "add"
  BY FirstUses DEF After
<1>3. ASSUME NEW p \in {"remove", "add", "fetch", "charge", "idle", "purge", "flag"},
             p \in TagCalls => call[c].kind \in {"status", "label"},
             call[c].pc \in {"refresh", "migrate"}, ExchangeFails(c, p)
      PROVE  TInv'
  <2>1. call[c].tok # NoToken
    BY <1>1, <1>3 DEF Sound, Using, TagCalls
  <2>2. QED
    BY <1>1, <1>3, <2>1, GotoOrdinary DEF ExchangeFails, Steps, rows, shopify
<1>4. CASE Refresh(c)
  <2>1. call[c].pc = "refresh" /\ call[c].got \in Grants
    BY <1>1, <1>4 DEF Refresh, Sound, TagCalls
  <2>2. CASE Exchange(c, got(c), FirstUse(kind(c)), FirstUse(kind(c)))
    BY <1>2, <2>1, <2>2, ExchangeTInv
  <2>3. CASE ExchangeFails(c, FirstUse(kind(c)))
    BY <1>2, <1>3, <2>1, <2>3
  <2>4. QED
    BY <1>4, <2>2, <2>3 DEF Refresh
<1>5. CASE Migrate(c)
  <2> DEFINE failed == IF then(c) = "reremove" THEN "add" ELSE Rejected(kind(c))
  <2>1. call[c].pc = "migrate" /\ call[c].tok \in Grants /\ then(c) \in After
    BY <1>1, <1>5 DEF Migrate, Sound, then, TagCalls
  <2>2. failed \in {"add", "purge", "flag"} /\ (failed \in TagCalls => then(c) = "reremove")
    BY DEF Rejected, TagCalls
  <2>3. /\ then(c) \in TagCalls \/ failed \in TagCalls => call[c].kind \in {"status", "label"}
        /\ call[c].kind = "status" => then(c) # "add"
    BY <1>1, <2>2 DEF Sound, TagCalls, then
  <2>4. CASE Exchange(c, tok(c), then(c), failed)
    BY <2>1, <2>2, <2>4, <2>3, ExchangeTInv
  <2>5. CASE ExchangeFails(c, failed)
    BY <1>3, <2>1, <2>2, <2>5, <2>3
  <2>6. QED
    BY <1>5, <2>4, <2>5 DEF Migrate
<1>6. QED
  BY <1>4, <1>5

(* The grant becomes the session.  Nobody but a visit stores one that was *)
(* exchanged meanwhile.                                                   *)
LEMMA StoreTInv ==
  ASSUME TInv, NEW c \in Callers, StoreSession(c)
  PROVE  TInv'
<1> USE TokenAssumption DEF pc, got, kind
<1> DEFINE r == [call[c] EXCEPT !.pc = "mirror"]
<1>1. call \in [Callers -> CallRecords] /\ call[c] \in CallRecords /\ Sound(call[c])
  BY DEF TInv, TokenTypeOK, CallRecords
<1>2. /\ r \in CallRecords /\ r.pc = "mirror" /\ r.got = call[c].got /\ r.tok = call[c].tok
      /\ r.then = call[c].then /\ r.kind = call[c].kind /\ r.about = call[c].about
  BY <1>1 DEF CallRecords, Steps
<1>3. call' = [call EXCEPT ![c] = r]
  BY <1>2 DEF StoreSession, Goto, Become
<1>4. call'[c] = r /\ \A d \in Callers \ {c} : call'[d] = call[d]
  BY <1>1, <1>3
<1> HIDE DEF r
<1>5. /\ call[c].pc = "store" /\ call[c].got \in Grants /\ session' = call[c].got
      /\ UNCHANGED <<fallback, flagged, grant, spent>>
      /\ forgotten' = IF call[c].kind = "visit" /\ call[c].got \in spent
                        THEN forgotten \cup {call[c].got} ELSE forgotten
  BY <1>1 DEF StoreSession, NewSession, Sound, shopify, TagCalls
<1>6. TokenTypeOK'
  <2>1. call' \in [Callers -> CallRecords]
    BY <1>1, <1>2, <1>3
  <2>2. QED
    BY <1>5, <2>1 DEF TInv, TokenTypeOK, CallRecords, Held
<1>7. \A d \in Callers : Sound(call'[d])
  BY <1>1, <1>2, <1>4, <1>5 DEF TInv, Sound, Using, TagCalls
<1>8. ASSUME NEW d \in Callers PROVE Own(d)'
  <2>1. CASE d = c
    BY <1>2, <1>4, <2>1 DEF Own
  <2>2. CASE d # c
    <3> SUFFICES ASSUME call[d].pc = "store", call[d].kind # "visit" PROVE Own(d)'
      BY <1>4, <2>2 DEF Own
    <3>1. /\ call[d].got \notin spent /\ call[d].got \notin {session, fallback}
          /\ \A e \in Callers \ {d} : call[d].got \notin {call[e].tok, call[e].got}
      BY DEF Own, TInv
    <3>2. call[d].got # session' /\ call[d].got \notin {r.tok, r.got}
      BY <1>2, <1>5, <2>2, <3>1
    <3>3. \A e \in Callers \ {d} : call[d].got \notin {call'[e].tok, call'[e].got}
      BY <1>4, <3>1, <3>2
    <3>4. QED
      BY <1>4, <1>5, <2>2, <3>1, <3>2, <3>3 DEF Own
  <2>3. QED
    BY <2>1, <2>2
<1>9. Issued'
  <2>1. Known(grant, r.tok) /\ Known(grant, r.got) /\ Known(grant, session')
    BY <1>2, <1>5 DEF TInv, Issued
  <2>2. \A d \in Callers : Known(grant, call'[d].tok) /\ Known(grant, call'[d].got)
    BY <1>4, <2>1 DEF TInv, Issued
  <2>3. QED
    BY <1>5, <2>1, <2>2 DEF TInv, Issued
<1>10. RotationKept'
  <2>1. call[c].kind # "visit" => call[c].got \notin spent
    BY <1>5 DEF TInv, Own
  <2>2. session' \in spent' => session' \in forgotten'
    BY <1>5, <2>1
  <2>3. QED
    BY <2>2 DEF RotationKept
<1>11. QED
  BY <1>6, <1>7, <1>8, <1>9, <1>10 DEF TInv

(* Time passes, and the app is uninstalled.                               *)
LEMMA AgeTInv ==
  ASSUME TInv, NEW g \in Grants, Age(g)
  PROVE  TInv'
<1> USE TokenAssumption DEF rows, shopify
<1>1. /\ grant' \in [Grants -> GrantStates] /\ UNCHANGED <<rows, spent, call, forgotten>>
      /\ \A h \in Grants : grant[h] # "none" => grant'[h] # "none"
  BY DEF Age, TInv, TokenTypeOK, GrantStates
<1>2. \A x : Known(grant, x) => Known(grant', x)
  BY <1>1 DEF Known
<1>3. TokenTypeOK' /\ Issued'
  BY <1>1, <1>2 DEF TInv, TokenTypeOK, Issued
<1>4. (\A c \in Callers : Sound(call[c]) /\ Own(c))' /\ RotationKept'
  BY <1>1 DEF TInv, Own, RotationKept, pc, got
<1>5. QED
  BY <1>3, <1>4 DEF TInv

LEMMA PurgeTInv ==
  ASSUME TInv, Revoke \/ PurgeShop
  PROVE  TInv'
<1> USE TokenAssumption DEF rows, shopify
<1>1. CASE Revoke
  <2>1. /\ grant' \in [Grants -> GrantStates] /\ UNCHANGED <<rows, spent, call, forgotten>>
        /\ \A h \in Grants : grant[h] # "none" => grant'[h] # "none"
    BY <1>1 DEF Revoke, TInv, TokenTypeOK, GrantStates
  <2>2. \A x : Known(grant, x) => Known(grant', x)
    BY <2>1 DEF Known
  <2>3. TokenTypeOK' /\ Issued'
    BY <2>1, <2>2 DEF TInv, TokenTypeOK, Issued
  <2>4. (\A c \in Callers : Sound(call[c]) /\ Own(c))' /\ RotationKept'
    BY <2>1 DEF TInv, Own, RotationKept, pc, got
  <2>5. QED
    BY <2>3, <2>4 DEF TInv
<1>2. CASE PurgeShop
  <2>1. /\ session' = NoToken /\ fallback' = NoToken /\ flagged' = FALSE
        /\ UNCHANGED <<grant, spent, call, forgotten>>
    BY <1>2 DEF PurgeShop
  <2>2. Known(grant', NoToken)
    BY DEF Known
  <2>3. TokenTypeOK' /\ Issued'
    BY <2>1, <2>2 DEF TInv, TokenTypeOK, Issued, Held, Tokens
  <2>4. \A c \in Callers : Sound(call[c])' /\ Own(c)'
    <3> SUFFICES ASSUME NEW c \in Callers PROVE Own(c)'
      BY <2>1 DEF TInv, Sound
    <3>1. call[c].pc = "store" => call[c].got # NoToken
      BY DEF TInv, Sound
    <3>2. QED
      BY <2>1, <3>1 DEF TInv, Own
  <2>5. RotationKept'
    BY <2>1 DEF TInv, TokenTypeOK, RotationKept
  <2>6. QED
    BY <2>3, <2>4, <2>5 DEF TInv
<1>3. QED
  BY <1>1, <1>2

(* A caller between its removal and its addition.                         *)
Between(r) ==
    /\ r.kind = "status"
    /\ \/ r.pc \in {"add", "readd", "reremove"}
       \/ r.pc \in {"migrate", "store", "mirror", "clear"} /\ r.then \in {"reremove", "readd"}

(* Nobody gets between them by this step.                                 *)
NobodyEnters ==
    \A d \in Callers : Between(call'[d]) => Between(call[d]) /\ call'[d].about = call[d].about

LEMMA BecomeEnters ==
  ASSUME TInv, NEW c \in Callers, NEW r \in CallRecords, Become(c, r),
         Between(r) => Between(call[c]) /\ r.about = call[c].about
  PROVE  NobodyEnters
<1>1. call \in [Callers -> CallRecords]
  BY DEF TInv, TokenTypeOK, CallRecords
<1>2. \A d \in Callers \ {c} : call'[d] = call[d]
  BY <1>1 DEF Become
<1>3. call'[c] = IF r.pc = "idle" THEN Idle ELSE r
  BY <1>1 DEF Become
<1>4. ~Between(Idle)
  BY DEF Between, Idle
<1>5. Between(call'[c]) => Between(call[c]) /\ call'[c].about = call[c].about
  BY <1>3, <1>4
<1>6. QED
  BY <1>2, <1>5 DEF NobodyEnters

LEMMA GotoEnters ==
  ASSUME TInv, NEW c \in Callers, NEW p \in Steps, Goto(c, p),
         p \in {"add", "readd", "reremove", "migrate", "store", "mirror", "clear"} =>
             \/ Between(call[c]) /\ p \in {"add", "readd", "reremove"}
             \/ call[c].pc \in {"store", "mirror"} /\ p \in {"mirror", "clear"}
             \/ call[c].kind # "status"
  PROVE  NobodyEnters
<1> DEFINE r == [call[c] EXCEPT !.pc = p]
<1>1. call[c] \in CallRecords
  BY DEF TInv, TokenTypeOK, CallRecords
<1>2. /\ r \in CallRecords /\ r.pc = p /\ r.then = call[c].then
      /\ r.kind = call[c].kind /\ r.about = call[c].about
  BY <1>1 DEF CallRecords
<1>3. Between(r) => Between(call[c]) /\ r.about = call[c].about
  BY <1>2 DEF Between
<1>4. QED
  BY <1>2, <1>3, BecomeEnters DEF Goto

(* Nor by an exchange.                                                    *)
LEMMA ExchangeEnters ==
  ASSUME TInv, NEW c \in Callers, NEW g \in Grants, NEW next \in After,
         NEW failed \in {"remove", "add", "fetch", "charge", "idle", "purge", "flag"},
         next \in {"reremove", "readd"} => Between(call[c]) \/ call[c].kind # "status",
         failed = "add" => Between(call[c]) \/ call[c].kind # "status",
         Exchange(c, g, next, failed) \/ ExchangeFails(c, failed)
  PROVE  NobodyEnters
<1>1. next \in Steps /\ "store" \in Steps /\ failed \in Steps
  BY DEF After, Steps
<1>2. ASSUME NEW n \in Grants, Become(c, [call[c] EXCEPT !.pc = "store", !.got = n, !.then = next])
      PROVE  NobodyEnters
  <2> DEFINE r == [call[c] EXCEPT !.pc = "store", !.got = n, !.then = next]
  <2>1. call[c] \in CallRecords
    BY DEF TInv, TokenTypeOK, CallRecords
  <2>2. /\ r \in CallRecords /\ r.pc = "store" /\ r.then = next
        /\ r.kind = call[c].kind /\ r.about = call[c].about
    BY <1>1, <2>1 DEF CallRecords, Held
  <2>3. Between(r) => Between(call[c]) /\ r.about = call[c].about
    BY <2>2 DEF Between
  <2>4. QED
    BY <1>2, <2>2, <2>3, BecomeEnters
<1>3. ASSUME Goto(c, failed) PROVE NobodyEnters
  BY <1>1, <1>3, GotoEnters
<1>4. QED
  BY <1>2, <1>3 DEF Exchange, ExchangeFails, Fresh

LEMMA TokenStepEnters ==
  ASSUME TInv, NEW c \in Callers, TokenStep(c)
  PROVE  NobodyEnters
<1> USE DEF pc, kind, tok, got, then
<1>1. /\ call[c] \in CallRecords /\ Sound(call[c])
      /\ session \in Held /\ fallback \in Tokens
  BY DEF TInv, TokenTypeOK, CallRecords
<1>2. CASE SignIn(c)
  <2>1. PICK g \in Grants : Become(c, [call[c] EXCEPT !.pc = "store", !.got = g, !.then = "register"])
    BY <1>1, <1>2 DEF SignIn, Fresh, Acceptable, Held
  <2> DEFINE r == [call[c] EXCEPT !.pc = "store", !.got = g, !.then = "register"]
  <2>2. r \in CallRecords /\ r.pc = "store" /\ r.then = "register"
    BY <1>1 DEF CallRecords, Held, Steps
  <2>3. QED
    BY <2>1, <2>2, BecomeEnters DEF Between
<1>3. CASE SignInFails(c) \/ Register(c)
  BY <1>3, GotoEnters DEF SignInFails, Register, Steps
<1>4. CASE LoadSession(c)
  <2> DEFINE p == IF NeedsRefresh(session) THEN "reload" ELSE FirstUse(kind(c))
             r == [call[c] EXCEPT !.tok = session, !.pc = p]
  <2>1. /\ p \in {"reload", "remove", "add", "fetch", "charge", "idle"}
        /\ kind(c) = "status" => p # "add"
    BY FirstUses
  <2>2. r \in CallRecords /\ r.pc = p /\ r.kind = call[c].kind
    BY <1>1, <2>1 DEF CallRecords, Steps, Tokens
  <2>3. ~Between(r)
    BY <2>1, <2>2 DEF Between
  <2>4. CASE Become(c, r)
    BY <2>2, <2>3, <2>4, BecomeEnters
  <2>5. CASE Goto(c, "fallback")
    BY <2>5, GotoEnters DEF Steps
  <2>6. QED
    BY <1>4, <2>4, <2>5 DEF LoadSession
<1>5. CASE LoadFallback(c)
  <2> DEFINE p == IF fallback # NoToken THEN FirstUse(kind(c))
                  ELSE IF kind(c) \in {"status", "label"} THEN "flag"
                  ELSE "idle"
             r == [call[c] EXCEPT !.tok = fallback, !.pc = p]
  <2>1. /\ p \in {"flag", "remove", "add", "fetch", "charge", "idle"}
        /\ kind(c) = "status" => p # "add"
    BY FirstUses
  <2>2. r \in CallRecords /\ r.pc = p /\ r.kind = call[c].kind
    BY <1>1, <2>1 DEF CallRecords, Steps
  <2>3. ~Between(r)
    BY <2>1, <2>2 DEF Between
  <2>4. CASE Become(c, r)
    BY <2>2, <2>3, <2>4, BecomeEnters
  <2>5. CASE Goto(c, "idle")
    BY <2>5, GotoEnters DEF Steps
  <2>6. QED
    BY <1>5, <2>4, <2>5 DEF LoadFallback
<1>6. CASE Reload(c)
  <2> DEFINE r == [call[c] EXCEPT !.got = session, !.pc = "refresh"]
  <2>1. r \in CallRecords /\ r.pc = "refresh"
    BY <1>1 DEF CallRecords, Steps
  <2>2. CASE Become(c, r)
    BY <2>1, <2>2, BecomeEnters DEF Between
  <2>3. CASE Goto(c, FirstUse(kind(c)))
    BY <2>3, FirstUses, GotoEnters DEF Steps
  <2>4. QED
    BY <1>6, <2>2, <2>3 DEF Reload
<1>7. CASE Refresh(c)
  <2>1. call[c].pc = "refresh" /\ call[c].got \in Grants
    BY <1>1, <1>7 DEF Refresh, Sound, TagCalls
  <2>2. FirstUse(kind(c)) \in After /\ FirstUse(kind(c)) \notin {"reremove", "readd"}
    BY FirstUses DEF After
  <2>3. QED
    BY <1>7, <2>1, <2>2, FirstUses, ExchangeEnters DEF Refresh
<1>8. CASE Migrate(c)
  <2> DEFINE failed == IF then(c) = "reremove" THEN "add" ELSE Rejected(kind(c))
  <2>1. call[c].pc = "migrate" /\ call[c].tok \in Grants /\ then(c) \in After
    BY <1>1, <1>8 DEF Migrate, Sound, TagCalls
  <2>2. /\ failed \in {"add", "purge", "flag"}
        /\ failed = "add" => then(c) = "reremove"
        /\ then(c) \in {"reremove", "readd"} => Between(call[c]) \/ call[c].kind # "status"
    BY <2>1 DEF Rejected, Between
  <2>3. QED
    BY <1>8, <2>1, <2>2, ExchangeEnters DEF Migrate
<1>9. CASE StoreSession(c) \/ SetShopToken(c)
  BY <1>9, GotoEnters DEF StoreSession, SetShopToken, Steps
<1>10. CASE ClearShopReauth(c)
  <2> DEFINE r == [call[c] EXCEPT !.pc = then(c), !.tok = got(c), !.got = NoToken, !.then = "idle"]
  <2>1. call[c].pc = "clear" /\ call[c].got \in Grants /\ then(c) \in After
        /\ (call[c].kind = "status" => then(c) # "add")
    BY <1>1, <1>10 DEF ClearShopReauth, Sound, TagCalls
  <2>2. /\ r \in CallRecords /\ r.pc = then(c)
        /\ r.kind = call[c].kind /\ r.about = call[c].about
    BY <1>1, <2>1 DEF CallRecords, Steps, Tokens, Held, After
  <2>3. Between(r) => Between(call[c]) /\ r.about = call[c].about
    BY <2>1, <2>2 DEF Between, After
  <2>4. QED
    BY <1>10, <2>2, <2>3, BecomeEnters DEF ClearShopReauth
<1>11. CASE PurgeSession(c) \/ EmptyFallback(c) \/ FlagShopReauth(c) \/ DropSession(c)
  BY <1>11, GotoEnters DEF PurgeSession, EmptyFallback, FlagShopReauth, DropSession, Steps
<1>12. CASE Charge(c)
  <2> DEFINE r == [call[c] EXCEPT !.pc = "migrate", !.then = "recharge"]
  <2>1. r \in CallRecords /\ r.pc = "migrate" /\ r.then = "recharge"
    BY <1>1 DEF CallRecords, Steps
  <2>2. CASE Become(c, r)
    BY <2>1, <2>2, BecomeEnters DEF Between
  <2>3. CASE Goto(c, "idle") \/ Goto(c, "flag")
    BY <2>3, GotoEnters DEF Steps
  <2>4. QED
    BY <1>12, <2>2, <2>3 DEF Charge, Call
<1>13. QED
  BY <1>2, <1>3, <1>4, <1>5, <1>6, <1>7, <1>8, <1>9, <1>10, <1>11, <1>12 DEF TokenStep

(* While every removal got through alone, the order has no status tag but *)
(* the one that is about to be added.                                     *)
TagInv ==
    /\ tags \subseteq Status /\ calls \in 0..MaxCalls /\ mixed \in BOOLEAN
    /\ OneStatus
    /\ ~mixed => \A c \in Callers : Between(call[c]) =>
                    /\ tags \subseteq {call[c].about}
                    /\ \A d \in Callers : Between(call[d]) => d = c

OInv == TInv /\ TagInv

LEMMA AddingBetween == Adding = {c \in Callers : Between(call[c])}
BY DEF Adding, Between, kind, pc, then

LEMMA FewTags ==
  ASSUME NEW S, NEW x, S \subseteq {x}
  PROVE  ~(Cardinality(S) > 1)
<1>1. S = {} \/ S = {x}
  OBVIOUS
<1>2. Cardinality({}) = 0 /\ Cardinality({x}) = 1
  BY FS_EmptySet, FS_Singleton
<1>3. QED
  BY <1>1, <1>2

LEMMA EnterTagInv ==
  ASSUME TagInv, NobodyEnters, UNCHANGED <<tags, mixed>>, calls' \in 0..MaxCalls
  PROVE  TagInv'
BY DEF TagInv, OneStatus, NobodyEnters

LEMMA StartEnters ==
  ASSUME TInv, NEW c \in Callers, NEW k \in Kinds, NEW t \in AboutFor(k), Start(c, k, t)
  PROVE  NobodyEnters
<1> DEFINE r == [Idle EXCEPT !.pc = Entry(k), !.kind = k, !.about = t]
<1>1. call \in [Callers -> CallRecords]
  BY DEF TInv, TokenTypeOK, CallRecords
<1>2. Entry(k) \in {"signin", "drop", "load"}
  BY DEF Entry
<1>3. r.pc = Entry(k)
  BY DEF Idle
<1>4. call' = [call EXCEPT ![c] = r]
  BY <1>2, <1>3 DEF Start, Become
<1>5. ~Between(r)
  BY <1>2, <1>3 DEF Between
<1> HIDE DEF r
<1>6. QED
  BY <1>1, <1>4, <1>5 DEF NobodyEnters

(* What a request does to its caller.                                     *)
LEMMA CallMoves ==
  ASSUME TInv, NEW c \in Callers, NEW answer, NEW ok \in {"idle", "add"},
         NEW retry \in {"none", "reremove", "readd"}, NEW dead \in {"idle", "add", "purge", "flag"},
         Call(c, answer, ok, retry, dead)
  PROVE  /\ \A d \in Callers \ {c} : call'[d] = call[d]
         /\ Between(call'[c]) => call'[c].about = call[c].about /\ call[c].kind = "status"
<1>1. call \in [Callers -> CallRecords] /\ call[c] \in CallRecords
  BY DEF TInv, TokenTypeOK, CallRecords
<1>2. \A d \in Callers \ {c} : call'[d] = call[d]
  BY <1>1 DEF Call, Goto, Become
<1>3. ASSUME NEW r \in CallRecords, Become(c, r), r.about = call[c].about, r.kind = call[c].kind
      PROVE  Between(call'[c]) => call'[c].about = call[c].about /\ call[c].kind = "status"
  <2>1. call'[c] = IF r.pc = "idle" THEN Idle ELSE r
    BY <1>1, <1>3 DEF Become
  <2>2. ~Between(Idle)
    BY DEF Between, Idle
  <2>3. QED
    BY <1>3, <2>1, <2>2 DEF Between
<1>4. CASE Become(c, [call[c] EXCEPT !.pc = "migrate", !.then = retry]) /\ retry # "none"
  <2>1. /\ [call[c] EXCEPT !.pc = "migrate", !.then = retry] \in CallRecords
        /\ [call[c] EXCEPT !.pc = "migrate", !.then = retry].about = call[c].about
        /\ [call[c] EXCEPT !.pc = "migrate", !.then = retry].kind = call[c].kind
    BY <1>1, <1>4 DEF CallRecords, Steps
  <2>2. QED
    BY <1>2, <1>3, <1>4, <2>1
<1>5. ASSUME NEW p \in {"idle", "add", "purge", "flag"}, Goto(c, p)
      PROVE  Between(call'[c]) => call'[c].about = call[c].about /\ call[c].kind = "status"
  <2>1. /\ [call[c] EXCEPT !.pc = p] \in CallRecords
        /\ [call[c] EXCEPT !.pc = p].about = call[c].about
        /\ [call[c] EXCEPT !.pc = p].kind = call[c].kind
    BY <1>1, <1>5 DEF CallRecords, Steps
  <2>2. QED
    BY <1>3, <1>5, <2>1 DEF Goto
<1>6. QED
  BY <1>2, <1>4, <1>5 DEF Call

LEMMA RemoveOInv ==
  ASSUME OInv, NEW c \in Callers, Remove(c)
  PROVE  OInv'
<1> USE DEF OInv, pc, kind, tok
<1>1. PICK answer \in {"ok", "legacy", "auth", "error"} :
         /\ \/ call[c].pc = "remove"   /\ Call(c, answer, "add", "reremove", "add")
            \/ call[c].pc = "reremove" /\ Call(c, answer, "add", "none", "add")
         /\ \E done \in Executed(c, answer), old \in SUBSET Configured :
              IF done THEN /\ tags' = tags \ Removed(c, old)
                           /\ mixed' = (Adding \ {c} # {} \/ (tags \cap old) \ {call[c].about} # {})
                      ELSE tags' = tags /\ mixed' = TRUE
         /\ UNCHANGED calls
  BY DEF Remove
<1>2. call[c].kind \in {"status", "label"}
  BY <1>1 DEF TInv, Sound, TagCalls
<1>3. TInv'
  BY <1>1, <1>2, CallTInv DEF Using, TagCalls
<1>4. /\ \A d \in Callers \ {c} : call'[d] = call[d]
      /\ Between(call'[c]) => call'[c].about = call[c].about /\ call[c].kind = "status"
  BY <1>1, CallMoves
<1>5. tags' \subseteq Status /\ calls' \in 0..MaxCalls /\ mixed' \in BOOLEAN
  BY <1>1 DEF TagInv
<1>6. ASSUME ~mixed' PROVE Adding \ {c} = {} /\ tags' \subseteq {call[c].about}
  <2>1. PICK old \in SUBSET Configured :
               /\ tags' = tags \ Removed(c, old)
               /\ mixed' = (Adding \ {c} # {} \/ (tags \cap old) \ {call[c].about} # {})
    BY <1>1, <1>6
  <2>2. Adding \ {c} = {} /\ (tags \cap old) \ {call[c].about} = {}
    BY <1>6, <2>1
  <2>3. tags \subseteq Status
    BY DEF TagInv
  <2>4. tags' \subseteq {call[c].about}
    BY <2>1, <2>2, <2>3 DEF Removed
  <2>5. QED
    BY <2>2, <2>4
<1>7. ASSUME ~mixed', NEW d \in Callers, Between(call'[d]) PROVE d = c
  BY <1>4, <1>6, <1>7, AddingBetween
<1>8. OneStatus'
  BY <1>5, <1>6, FewTags DEF OneStatus
<1>9. ASSUME ~mixed', NEW d \in Callers, Between(call'[d])
      PROVE  /\ tags' \subseteq {call'[d].about}
             /\ \A e \in Callers : Between(call'[e]) => e = d
  BY <1>4, <1>6, <1>7, <1>9
<1>10. TagInv'
  BY <1>5, <1>8, <1>9 DEF TagInv
<1>11. QED
  BY <1>3, <1>10

LEMMA AddOInv ==
  ASSUME OInv, NEW c \in Callers, Add(c)
  PROVE  OInv'
<1> USE TagAssumption DEF OInv, pc, kind, tok
<1>1. PICK answer \in {"ok", "legacy", "auth", "error"} :
         /\ \/ call[c].pc = "add"   /\ Call(c, answer, "idle", "readd", Rejected(call[c].kind))
            \/ call[c].pc = "readd" /\ Call(c, answer, "idle", "none", "idle")
         /\ \E done \in Executed(c, answer) :
              tags' = IF done THEN tags \cup Added(c) ELSE tags
         /\ UNCHANGED <<mixed, calls>>
  BY DEF Add
<1>2. call[c].kind \in {"status", "label"} /\ Rejected(call[c].kind) \in {"purge", "flag"}
  BY <1>1 DEF TInv, Sound, TagCalls, Rejected
<1>3. TInv'
  BY <1>1, <1>2, CallTInv DEF Using, TagCalls
<1>4. /\ \A d \in Callers \ {c} : call'[d] = call[d]
      /\ Between(call'[c]) => call'[c].about = call[c].about /\ call[c].kind = "status"
  BY <1>1, <1>2, CallMoves
<1>5. NobodyEnters
  BY <1>1, <1>4 DEF NobodyEnters, Between
<1>6. /\ tags' \subseteq tags \cup ({call[c].about} \cap Status)
      /\ tags' \subseteq Status /\ calls' \in 0..MaxCalls /\ mixed' \in BOOLEAN
  BY <1>1 DEF Added, TagInv
<1>7. CASE call[c].kind = "status"
  <2>1. Between(call[c])
    BY <1>1, <1>7 DEF Between
  <2>2. ~mixed => tags' \subseteq {call[c].about} /\ \A d \in Callers : Between(call[d]) => d = c
    BY <1>6, <2>1 DEF TagInv
  <2>3. OneStatus'
    BY <1>1, <2>2, FewTags DEF OneStatus
  <2>4. ASSUME ~mixed', NEW d \in Callers, Between(call'[d])
        PROVE  /\ tags' \subseteq {call'[d].about}
               /\ \A e \in Callers : Between(call'[e]) => e = d
    BY <1>1, <1>5, <2>2, <2>4 DEF NobodyEnters
  <2>5. QED
    BY <1>3, <1>6, <2>3, <2>4 DEF TagInv
<1>8. CASE call[c].kind = "label"
  <2>1. call[c].about = NoTag
    BY <1>8 DEF TInv, Sound
  <2>2. tags' = tags
    BY <1>1, <2>1 DEF Added
  <2>3. QED
    BY <1>1, <1>3, <1>5, <1>6, <2>2, EnterTagInv
<1>9. QED
  BY <1>2, <1>7, <1>8

LEMMA RetagOInv ==
  ASSUME OInv, NEW c \in Callers, FetchOrders(c) \/ Retag(c)
  PROVE  OInv'
<1> USE DEF OInv, pc, tok
<1>1. call[c].pc \in {"fetch", "retag"} /\ call[c].tok # NoToken /\ flagged \in BOOLEAN
  BY DEF FetchOrders, Retag, TInv, TokenTypeOK, Sound, Using
<1>2. PICK p \in {"retag", "idle"} : Goto(c, p)
  BY DEF FetchOrders, Retag
<1>3. UNCHANGED <<rows, shopify, forgotten>>
  BY DEF FetchOrders, Retag
<1>4. TInv' /\ NobodyEnters
  BY <1>1, <1>2, <1>3, GotoOrdinary, GotoEnters DEF Steps, TagCalls, rows, shopify
<1>5. CASE UNCHANGED <<tags, mixed, calls>>
  BY <1>4, <1>5, EnterTagInv DEF TagInv
<1>6. CASE mixed' = TRUE /\ tags' = tags \cup Added(c) /\ UNCHANGED calls
  BY <1>4, <1>6 DEF TagInv, OneStatus, Added
<1>7. QED
  BY <1>5, <1>6 DEF FetchOrders, Retag, tagVars

LEMMA InitOInv == Init => OInv
<1> SUFFICES ASSUME Init PROVE OInv
  OBVIOUS
<1> USE TokenAssumption, TagAssumption DEF Init, TokenInit
<1>1. call \in [Callers -> CallRecords] /\ \A c \in Callers : call[c] = Idle /\ Sound(Idle) /\ ~Between(Idle)
  BY DEF Idle, CallRecords, Steps, Kinds, Tokens, Held, Sound, Using, After, TagCalls, Between
<1>2. 1 \in Grants /\ grant \in [Grants -> GrantStates] /\ grant[1] # "none"
  BY DEF Grants, GrantStates
<1>3. Idle.tok = NoToken /\ Idle.got = NoToken /\ Idle.pc = "idle"
  BY DEF Idle
<1>4. TokenTypeOK
  BY <1>1, <1>2 DEF TokenTypeOK, CallRecords, Held, Tokens
<1>5. Issued /\ RotationKept /\ \A c \in Callers : Own(c)
  BY <1>1, <1>2, <1>3 DEF Issued, Known, RotationKept, Own
<1>6. OneStatus
  BY FS_EmptySet DEF OneStatus
<1>7. TagInv
  <2>1. tags \subseteq Status /\ calls \in 0..MaxCalls
    OBVIOUS
  <2>2. mixed \in BOOLEAN
    BY Zenon
  <2>3. \A c \in Callers : ~Between(call[c])
    BY <1>1
  <2>4. QED
    BY <1>6, <2>1, <2>2, <2>3 DEF TagInv
<1>8. QED
  BY <1>1, <1>4, <1>5, <1>7 DEF OInv, TInv

LEMMA NextOInv == OInv /\ [Next]_vars => OInv'
<1> SUFFICES ASSUME OInv, [Next]_vars PROVE OInv'
  OBVIOUS
<1> USE TagAssumption DEF OInv
<1>1. ASSUME NEW c \in Callers, Step(c) PROVE OInv'
  <2>1. CASE Remove(c)
    BY <2>1, RemoveOInv
  <2>2. CASE Add(c)
    BY <2>2, AddOInv
  <2>3. CASE FetchOrders(c) \/ Retag(c)
    BY <2>3, RetagOInv
  <2>4. CASE TokenStep(c) /\ UNCHANGED tagVars
    <3>1. TInv'
      BY <2>4, SignInTInv, LoadTInv, RefreshTInv, StoreTInv, StatementTInv DEF TokenStep
    <3>2. NobodyEnters
      BY <2>4, TokenStepEnters
    <3>3. QED
      BY <2>4, <3>1, <3>2, EnterTagInv DEF tagVars, TagInv
  <2>5. QED
    BY <1>1, <2>1, <2>2, <2>3, <2>4 DEF Step
<1>2. ASSUME NEW c \in Callers, NEW k \in Kinds, Begin(c, k) PROVE OInv'
  <2>1. PICK t \in AboutFor(k) : Start(c, k, t)
    BY <1>2 DEF Begin
  <2>2. UNCHANGED <<tags, mixed>> /\ calls' \in 0..MaxCalls
    BY <1>2 DEF Begin, TagInv
  <2>3. QED
    BY <2>1, <2>2, StartTInv, StartEnters, EnterTagInv
<1>3. ASSUME NEW g \in Grants, Age(g) /\ UNCHANGED tagVars PROVE OInv'
  <2>1. NobodyEnters
    BY <1>3 DEF NobodyEnters, Age
  <2>2. QED
    BY <1>3, <2>1, AgeTInv, EnterTagInv DEF tagVars, TagInv
<1>4. CASE Uninstall
  <2>1. NobodyEnters /\ UNCHANGED <<tags, mixed>> /\ calls' \in 0..MaxCalls
    BY <1>4 DEF NobodyEnters, Uninstall, Revoke, PurgeShop, TagInv
  <2>2. QED
    BY <1>4, <2>1, PurgeTInv, EnterTagInv DEF Uninstall
<1>5. CASE UNCHANGED vars
  <2>1. NobodyEnters
    BY <1>5 DEF NobodyEnters, vars, tokenVars
  <2>2. TInv'
    BY <1>5 DEF vars, tokenVars, rows, shopify, TInv, TokenTypeOK, Sound, Own, Issued, Known,
                RotationKept, pc, got
  <2>3. QED
    BY <1>5, <2>1, <2>2, EnterTagInv DEF vars, tagVars, TagInv
<1>6. QED
  BY <1>1, <1>2, <1>3, <1>4, <1>5 DEF Next

(* The invariant that carries the results.                                *)
THEOREM Invariance == Spec => []OInv
BY InitOInv, NextOInv, PTL DEF Spec

(* The rows of the tokens, Shopify's grants, the callers and the order's  *)
(* tags keep their types.                                                 *)
THEOREM TagsTypeCorrect == Spec => []TypeOK
<1>1. OInv => TypeOK
  BY DEF OInv, TInv, TagInv, TypeOK
<1>2. QED
  BY <1>1, Invariance, PTL

(* Refreshes and migrations at once, in any number, leave no session that *)
(* can never be renewed, unless its successor was lost or is about to be  *)
(* stored (sessions.go:282-310).                                          *)
THEOREM SessionsRenewable == Spec => []RotationKept
<1>1. OInv => RotationKept
  BY DEF OInv, TInv
<1>2. QED
  BY <1>1, Invariance, PTL

(* An order has two status tags only when a removal failed, overlapped,   *)
(* or left a tag whose name the shop had changed, or the merchant         *)
(* retagged (order_tags.go:81), for any number of callers and tags.       *)
THEOREM StatusReplaced == Spec => []OneStatus
<1>1. OInv => OneStatus
  BY DEF OInv, TagInv
<1>2. QED
  BY <1>1, Invariance, PTL
===============================================================================
