---------------------------- MODULE PlanQuota_proofs ----------------------------
(***************************************************************************)
(* For any callers, tiers, prices and limits: the settings row, the bill  *)
(* and the callers keep their types, one expiry of the allowance resets   *)
(* the count at most once for each caller, no paid upgrade is without its *)
(* charge, what is sent over the limit was checked before, and the        *)
(* charges of a month stay within the climb to the top tier.              *)
(*                                                                         *)
(* The resets are bounded by counting the periods begun together with     *)
(* those still to begin (Paid): by a plan choice being written, and by    *)
(* callers that found the allowance expired and have not reset it.  While *)
(* it stays expired no period has been begun for it, so that even if      *)
(* every caller comes to reset it there is room for them all.  The count  *)
(* is bounded together with the messages that were allowed and are not    *)
(* counted yet (Room), and the charges by one record for each tier and    *)
(* month (OneEach), whose sum a lemma on finite sums bounds.              *)
(***************************************************************************)
EXTENDS PlanQuota, FiniteSetTheorems, WellFoundedInduction, TLAPS

(* The type of everything but the callers.                                *)
Flags == row \in BOOLEAN /\ lineItem \in BOOLEAN

Figures ==
    /\ plan \in Tiers /\ sent \in Nat
    /\ resetAt \in {"null", "future", "past"}
    /\ charges \subseteq [tier : Tiers, month : 0..MaxMonth, amount : Nat]
    /\ upgrades \subseteq [from : Tiers, to : Tiers, charged : Nat]
    /\ choice \in [branch : {"none", "insert", "restart", "keep"}, tier : Tiers, item : BOOLEAN]
    /\ month \in 0..MaxMonth /\ expiries \in 0..MaxExpiries /\ merchant \in 0..MaxMerchant
    /\ period \in Nat /\ peak \in Tiers /\ excess \in Nat

CallerType ==
    /\ pc \in [Callers -> PCs] /\ kind \in [Callers -> AllKinds] /\ via \in [Callers -> Vias]
    /\ seen \in [Callers -> [tier : Tiers, item : BOOLEAN]]
    /\ \A c \in Callers : pc[c] \in {"charge", "upgrade", "log"} => seen[c].tier < Top

LEMMA TypeParts == TypeOK <=> Flags /\ Figures /\ CallerType
<1>1. TypeOK => Flags /\ Figures /\ CallerType
  BY Zenon DEF TypeOK, Flags, Figures, CallerType
<1>2. Flags /\ Figures /\ CallerType => TypeOK
  BY Zenon DEF TypeOK, Flags, Figures, CallerType
<1>3. QED
  BY <1>1, <1>2

LEMMA Constant ==
  /\ 0 \in Tiers /\ Tiers \subseteq Nat /\ PriceOf \in [Tiers -> Nat] /\ Kinds \subseteq AllKinds
  /\ {MaxSent, MaxMonth, MaxExpiries, MaxMerchant, Top} \subseteq Nat
  /\ \A t \in Tiers : t \in Int /\ (t < Top => t + 1 \in Tiers)
BY PlanQuotaAssumption DEF Tiers

LEMMA MaxOfTwo ==
  ASSUME NEW a \in Int, NEW b \in Int
  PROVE  Max({a, b}) \in {a, b} /\ Max({a, b}) >= a /\ Max({a, b}) >= b
<1>1. \E x \in {a, b} : \A y \in {a, b} : x >= y
  OBVIOUS
<1>2. QED
  BY <1>1 DEF Max

LEMMA AmountType ==
  ASSUME NEW t \in Tiers, t < Top
  PROVE  Amount(t + 1) \in Nat
<1>1. t + 1 \in Tiers /\ (t + 1) - 1 = t
  BY Constant
<1>2. PriceOf[t + 1] \in Nat /\ PriceOf[t] \in Nat
  BY <1>1, Constant
<1> DEFINE d == PriceOf[t + 1] - PriceOf[(t + 1) - 1]
<1>3. d \in Int
  BY <1>1, <1>2
<1>4. Amount(t + 1) = Max({0, d})
  BY DEF Amount
<1> HIDE DEF d
<1>5. QED
  BY <1>3, <1>4, MaxOfTwo

LEMMA GotoType ==
  ASSUME CallerType, NEW c \in Callers, NEW l \in PCs, Goto(c, l),
         l \in {"charge", "upgrade", "log"} => seen[c].tier < Top
  PROVE  CallerType'
BY DEF CallerType, Goto

LEMMA ReturnType ==
  ASSUME CallerType, NEW c \in Callers, Return(c)
  PROVE  CallerType'
<1>1. "idle" \in PCs /\ "view" \in AllKinds /\ "none" \in Vias
  BY DEF PCs, AllKinds, Vias
<1>2. Unread \in [tier : Tiers, item : BOOLEAN]
  BY Constant DEF Unread
<1>3. QED
  BY <1>1, <1>2 DEF CallerType, Return

LEMMA GoSendType ==
  ASSUME CallerType, NEW c \in Callers, NEW v \in Vias, GoSend(c, v)
  PROVE  CallerType'
<1>1. "send" \in PCs
  BY DEF PCs
<1>2. Unread \in [tier : Tiers, item : BOOLEAN]
  BY Constant DEF Unread
<1>3. QED
  BY <1>1, <1>2 DEF CallerType, GoSend

LEMMA AfterResetType ==
  ASSUME CallerType, NEW c \in Callers, AfterReset(c)
  PROVE  CallerType'
BY GotoType, ReturnType DEF AfterReset, PCs

LEMMA InitType == Init => TypeOK
<1> SUFFICES ASSUME Init PROVE TypeOK
  OBVIOUS
<1>1. "idle" \in PCs /\ "view" \in AllKinds /\ "none" \in Vias
  BY DEF PCs, AllKinds, Vias
<1>2. Unread \in [tier : Tiers, item : BOOLEAN]
  BY Constant DEF Unread
<1>3. CallerType
  BY <1>1, <1>2 DEF Init, CallerType
<1>4. NoChoice \in [branch : {"none", "insert", "restart", "keep"}, tier : Tiers, item : BOOLEAN]
  BY Constant DEF NoChoice
<1>5. Figures
  BY <1>4, Constant DEF Init, Figures
<1>6. Flags
  BY Zenon DEF Init, Flags
<1>7. QED
  BY <1>3, <1>5, <1>6, TypeParts

(* The merchant and the clocks leave the callers alone.                   *)
LEMMA WorldType ==
  ASSUME Flags, Figures, CallerType,
         \/ \E tier \in Tiers, item \in BOOLEAN : ChoosePlan(tier, item)
         \/ WritePlan \/ SaveSettings \/ PurgeShop \/ LimitExpires \/ NextMonth \/ UNCHANGED vars
  PROVE  Figures' /\ CallerType'
<1> USE DEF settings, billing, world, history
<1>1. Figures /\ CallerType
  OBVIOUS
<1>2. UNCHANGED caller
  BY DEF ChoosePlan, WritePlan, SaveSettings, PurgeShop, LimitExpires, NextMonth, vars
<1>3. CallerType'
  BY <1>1, <1>2 DEF CallerType, caller
<1>4. NoChoice \in [branch : {"none", "insert", "restart", "keep"}, tier : Tiers, item : BOOLEAN]
  BY Constant DEF NoChoice
<1>5. ASSUME NEW tier \in Tiers, NEW item \in BOOLEAN, ChoosePlan(tier, item) PROVE Figures'
  <2>1. choice' \in [branch : {"none", "insert", "restart", "keep"}, tier : Tiers, item : BOOLEAN]
    BY <1>5 DEF ChoosePlan
  <2>2. merchant' \in 0..MaxMerchant
    BY <1>1, <1>5, Constant DEF ChoosePlan, Figures
  <2>3. QED
    BY <1>1, <1>5, <2>1, <2>2 DEF ChoosePlan, Figures
<1>6. ASSUME WritePlan PROVE Figures'
  <2>1. choice.tier \in Tiers /\ choice.item \in BOOLEAN
    BY <1>1 DEF Figures
  <2>2. plan' \in Tiers
    BY <1>1, <1>6, <2>1 DEF WritePlan, Figures
  <2>3. resetAt' \in {"null", "future", "past"}
    BY <1>1, <1>6 DEF WritePlan, Figures
  <2>4. sent' \in Nat /\ period' \in Nat /\ excess' \in Nat
    BY <1>1, <1>6 DEF WritePlan, Figures, NewPeriod, KeepPeriod
  <2>5. peak' \in Tiers
    <3>1. choice.tier \in Int /\ peak \in Int
      BY <2>1, Constant DEF Figures
    <3>2. Max({choice.tier, peak}) \in Tiers
      BY <1>1, <2>1, <3>1, MaxOfTwo DEF Figures
    <3>3. QED
      BY <1>1, <1>6, <2>1, <3>2 DEF WritePlan, Figures, NewPeriod, KeepPeriod
  <2>6. choice' = NoChoice /\ UNCHANGED <<charges, upgrades, month, expiries, merchant>>
    BY <1>6 DEF WritePlan
  <2>7. QED
    BY <1>1, <1>4, <2>2, <2>3, <2>4, <2>5, <2>6 DEF Figures
<1>7. ASSUME SaveSettings PROVE Figures'
  BY <1>1, <1>7, Constant DEF SaveSettings, FreshRow, Figures
<1>8. ASSUME PurgeShop PROVE Figures'
  BY <1>1, <1>8, Constant DEF PurgeShop, FreshRow, Figures
<1>9. ASSUME LimitExpires PROVE Figures'
  BY <1>1, <1>9, Constant DEF LimitExpires, Figures
<1>10. ASSUME NextMonth PROVE Figures'
  BY <1>1, <1>10, Constant DEF NextMonth, Figures
<1>11. ASSUME UNCHANGED vars PROVE Figures'
  BY <1>1, <1>11 DEF vars, Figures
<1>12. QED
  BY <1>3, <1>5, <1>6, <1>7, <1>8, <1>9, <1>10, <1>11

LEMMA ChargeType ==
  ASSUME Flags, Figures, CallerType, NEW c \in Callers, Charge(c)
  PROVE  Figures' /\ CallerType'
<1> DEFINE next == seen[c].tier + 1
<1>1. Figures /\ CallerType
  OBVIOUS
<1>2. pc[c] = "charge" /\ seen[c].tier \in Tiers /\ seen[c].tier < Top
  BY <1>1 DEF Charge, CallerType
<1>3. next \in Tiers /\ Amount(next) \in Nat
  BY <1>2, Constant, AmountType
<1> HIDE DEF next
<1>4. Record(next) \/ charges' = charges
  BY DEF Charge, next
<1>5. charges' \subseteq [tier : Tiers, month : 0..MaxMonth, amount : Nat]
  BY <1>1, <1>3, <1>4 DEF Record, Figures
<1>6. Figures'
  BY <1>1, <1>5 DEF Charge, Figures, settings, world, history
<1>7. Goto(c, "upgrade") \/ AfterError(c)
  BY DEF Charge
<1>8. CallerType'
  BY <1>1, <1>2, <1>7, GotoType, GoSendType, ReturnType DEF AfterError, PCs, Vias
<1>9. QED
  BY <1>6, <1>8

LEMMA UpgradeType ==
  ASSUME Flags, Figures, CallerType, NEW c \in Callers, Upgrade(c)
  PROVE  Figures' /\ CallerType'
<1> DEFINE next == seen[c].tier + 1
<1>1. Figures /\ CallerType
  OBVIOUS
<1>2. pc[c] = "upgrade" /\ seen[c].tier \in Tiers /\ seen[c].tier < Top
  BY <1>1 DEF Upgrade, CallerType
<1>3. next \in Tiers
  BY <1>2, Constant
<1>4. (plan' = next /\ KeepPeriod(next)) \/ UNCHANGED <<plan, sent, history>>
  BY DEF Upgrade
<1> HIDE DEF next
<1>5. next \in Int /\ peak \in Int /\ peak \in Tiers
  BY <1>1, <1>3, Constant DEF Figures
<1>6. Max({next, peak}) \in Tiers
  BY <1>3, <1>5, MaxOfTwo
<1>7. plan' \in Tiers /\ sent' \in Nat /\ period' \in Nat /\ excess' \in Nat /\ peak' \in Tiers
  BY <1>1, <1>3, <1>4, <1>6 DEF KeepPeriod, Figures, history
<1>8. Figures'
  BY <1>1, <1>7 DEF Upgrade, Figures, world, billing
<1>9. CallerType'
  BY <1>1, <1>2, GotoType DEF Upgrade, PCs
<1>10. QED
  BY <1>8, <1>9

LEMMA LogUpgradeType ==
  ASSUME Flags, Figures, CallerType, NEW c \in Callers, LogUpgrade(c)
  PROVE  Figures' /\ CallerType'
<1> DEFINE next == seen[c].tier + 1
           entry == [from |-> seen[c].tier, to |-> next, charged |-> Amount(next)]
<1>1. Figures /\ CallerType
  OBVIOUS
<1>2. seen[c].tier \in Tiers /\ seen[c].tier < Top
  BY <1>1 DEF LogUpgrade, CallerType
<1>3. next \in Tiers /\ Amount(next) \in Nat
  BY <1>2, Constant, AmountType
<1>4. entry \in [from : Tiers, to : Tiers, charged : Nat]
  BY <1>2, <1>3
<1>5. upgrades' = upgrades \cup {entry} \/ upgrades' = upgrades
  BY DEF LogUpgrade
<1> HIDE DEF entry
<1>6. upgrades' \subseteq [from : Tiers, to : Tiers, charged : Nat]
  BY <1>1, <1>4, <1>5 DEF Figures
<1>7. Figures'
  BY <1>1, <1>6 DEF LogUpgrade, Figures, settings, world, history
<1>8. CallerType'
  BY <1>1, GoSendType DEF LogUpgrade, Vias
<1>9. QED
  BY <1>7, <1>8

LEMMA CallerStepType ==
  ASSUME Flags, Figures, CallerType, NEW c \in Callers, Step(c)
  PROVE  Figures' /\ CallerType'
<1> USE DEF settings, billing, world, history
<1>1. Figures /\ CallerType
  OBVIOUS
<1>2. ASSUME NEW k \in Kinds, Start(c, k) PROVE Figures' /\ CallerType'
  <2>1. k \in AllKinds /\ {"send", "check"} \subseteq PCs /\ {"unchecked", "none"} \subseteq Vias
    BY Constant DEF PCs, Vias
  <2>2. CallerType'
    BY <1>1, <1>2, <2>1 DEF Start, CallerType
  <2>3. QED
    BY <1>1, <1>2, <2>2 DEF Start, Figures
<1>3. CASE CheckReset(c)
  <2>1. CallerType'
    BY <1>1, <1>3, GotoType, AfterResetType DEF CheckReset, PCs
  <2>2. QED
    BY <1>1, <1>3, <2>1 DEF CheckReset, Figures
<1>4. CASE ResetLimits(c)
  <2>1. CallerType'
    BY <1>1, <1>4, AfterResetType DEF ResetLimits
  <2>2. QED
    BY <1>1, <1>4, <2>1 DEF ResetLimits, NewPeriod, NextReset, Figures
<1>5. CASE QueryLimit(c)
  <2>1. CASE GoSend(c, "allowed") \/ Return(c) \/ AfterError(c)
    <3>1. CallerType'
      BY <1>1, <2>1, GoSendType, ReturnType DEF Vias, AfterError
    <3>2. QED
      BY <1>1, <1>5, <3>1 DEF QueryLimit, Figures
  <2>2. CASE HasNext /\ pc' = [pc EXCEPT ![c] = IF lineItem THEN "charge" ELSE "upgrade"]
             /\ seen' = [seen EXCEPT ![c] = [tier |-> plan, item |-> lineItem]]
             /\ UNCHANGED <<kind, via>>
    <3>1. [tier |-> plan, item |-> lineItem] \in [tier : Tiers, item : BOOLEAN] /\ plan < Top
      BY <1>1, <2>2 DEF Flags, Figures, HasNext
    <3>2. {"charge", "upgrade"} \subseteq PCs
      BY DEF PCs
    <3>3. CallerType'
      BY <1>1, <2>2, <3>1, <3>2 DEF CallerType
    <3>4. QED
      BY <1>1, <1>5, <3>3 DEF QueryLimit, Figures
  <2>3. QED
    BY <1>5, <2>1, <2>2 DEF QueryLimit
<1>6. CASE Send(c)
  <2>1. CallerType'
    BY <1>1, <1>6, GotoType, ReturnType DEF Send, PCs
  <2>2. QED
    BY <1>1, <1>6, <2>1 DEF Send, Figures
<1>7. CASE Count(c)
  <2>1. CallerType'
    BY <1>1, <1>7, ReturnType DEF Count
  <2>2. QED
    BY <1>1, <1>7, <2>1 DEF Count, Figures
<1>8. QED
  BY <1>2, <1>3, <1>4, <1>5, <1>6, <1>7, ChargeType, UpgradeType, LogUpgradeType DEF Step

LEMMA NextFlags ==
  ASSUME Flags, Figures, [Next]_vars
  PROVE  Flags'
<1>1. ASSUME UNCHANGED <<row, lineItem>> PROVE Flags'
  BY <1>1, Zenon DEF Flags
<1>2. CASE WritePlan
  <2>1. choice.item \in BOOLEAN
    BY DEF Figures
  <2>2. row' \in BOOLEAN /\ lineItem' \in BOOLEAN
    BY <1>2, <2>1, Zenon DEF WritePlan, Flags, settings
  <2>3. QED
    BY <2>2, Zenon DEF Flags
<1>3. ASSUME NEW b \in BOOLEAN, FreshRow(b) PROVE Flags'
  BY <1>3, Zenon DEF FreshRow, Flags
<1>4. ASSUME NEW c \in Callers, Step(c) PROVE Flags'
  <2>1. UNCHANGED <<row, lineItem>>
    BY <1>4 DEF Step, Start, CheckReset, ResetLimits, QueryLimit, Charge, Upgrade, LogUpgrade, Send, Count, settings
  <2>2. QED
    BY <1>1, <2>1
<1>5. ASSUME NEW tier \in Tiers, NEW item \in BOOLEAN, ChoosePlan(tier, item) PROVE Flags'
  BY <1>1, <1>5 DEF ChoosePlan, settings
<1>6. CASE SaveSettings \/ PurgeShop
  BY <1>3, <1>6 DEF SaveSettings, PurgeShop
<1>7. CASE LimitExpires \/ NextMonth \/ UNCHANGED vars
  BY <1>1, <1>7 DEF LimitExpires, NextMonth, vars, settings
<1>8. QED
  BY <1>2, <1>4, <1>5, <1>6, <1>7 DEF Next

LEMMA NextType == TypeOK /\ [Next]_vars => TypeOK'
<1> SUFFICES ASSUME TypeOK, [Next]_vars PROVE TypeOK'
  OBVIOUS
<1>1. Flags /\ Figures /\ CallerType
  BY TypeParts
<1>2. Flags'
  BY <1>1, NextFlags
<1>3. Figures' /\ CallerType'
  BY <1>1, WorldType, CallerStepType DEF Next
<1>4. (TypeOK <=> Flags /\ Figures /\ CallerType)'
  BY TypeParts, PTL
<1>5. QED
  BY <1>2, <1>3, <1>4

LEMMA TypeInvariance == Spec => []TypeOK
BY InitType, NextType, PTL DEF Spec

(* The settings row, the bill and the callers keep their types; no caller *)
(* upgrades past the top tier.                                            *)
THEOREM QuotaTypeCorrect == Spec => []TypeOK
BY TypeInvariance
-----------------------------------------------------------------------------
(* The callers that found the allowance expired and are still to reset.   *)
Late == {c \in Callers : pc[c] \in {"reset", "countReset"}}

Chosen == IF choice = NoChoice THEN 0 ELSE 1

(* While the allowance is expired there is room for all callers.          *)
Paid ==
    /\ period + Cardinality(Late) + Chosen <= merchant + expiries * Cardinality(Callers)
    /\ resetAt = "past" =>
         period + Cardinality(Callers) + Chosen <= merchant + expiries * Cardinality(Callers)

LEMMA Callers1 == IsFiniteSet(Callers) /\ Cardinality(Callers) \in Nat
BY PlanQuotaAssumption, FS_CardinalityType

LEMMA LateCount ==
  ASSUME NEW S \in SUBSET Callers
  PROVE  IsFiniteSet(S) /\ Cardinality(S) \in Nat /\ Cardinality(S) <= Cardinality(Callers)
BY Callers1, FS_Subset, FS_CardinalityType

LEMMA Product ==
  ASSUME NEW e \in Nat, NEW n \in Nat
  PROVE  e * n \in Nat /\ (e + 1) * n = e * n + n
OBVIOUS

(* A caller that goes on elsewhere is not late.                           *)
LEMMA NotLate ==
  ASSUME CallerType, NEW c \in Callers, NEW l, l \notin {"reset", "countReset"},
         pc' = [pc EXCEPT ![c] = l]
  PROVE  Late' \subseteq Late \ {c}
BY DEF CallerType, Late

(* A step on which no caller becomes late, nothing expires and each new   *)
(* period is one that was chosen.                                         *)
LEMMA KeepsPaid ==
  ASSUME Figures, Figures', Paid, Late' \subseteq Late, expiries' = expiries,
         period' + Chosen' - merchant' <= period + Chosen - merchant,
         resetAt' = "past" => resetAt = "past"
  PROVE  Paid'
<1> DEFINE n == Cardinality(Callers)
<1>1. n \in Nat /\ expiries \in Nat /\ expiries * n \in Nat
  BY Callers1, Constant, Product DEF Figures
<1>2. /\ {period, merchant, period', merchant'} \subseteq Int
      /\ Chosen \in Int /\ Chosen' \in Int
  BY Constant DEF Figures, Chosen
<1>3. Late \subseteq Callers /\ Late' \subseteq Callers
  BY DEF Late
<1>4. Cardinality(Late) \in Nat /\ Cardinality(Late') \in Nat /\ Cardinality(Late') <= Cardinality(Late)
  BY <1>3, LateCount, FS_Subset
<1> DEFINE product == expiries * n
<1>5. /\ product \in Nat
      /\ period + Cardinality(Late) + Chosen <= merchant + product
      /\ resetAt = "past" => period + n + Chosen <= merchant + product
  BY <1>1 DEF Paid
<1> HIDE DEF product, n
<1>6. /\ period' + Cardinality(Late') + Chosen' <= merchant' + product
      /\ resetAt' = "past" => period' + n + Chosen' <= merchant' + product
  BY <1>1, <1>2, <1>4, <1>5
<1>7. QED
  BY <1>6 DEF Paid, product, n

LEMMA WorldPaid ==
  ASSUME Figures, Figures', Paid,
         \/ \E tier \in Tiers, item \in BOOLEAN : ChoosePlan(tier, item)
         \/ WritePlan \/ SaveSettings \/ PurgeShop \/ NextMonth \/ UNCHANGED vars
  PROVE  Paid'
<1> USE DEF settings, billing, world, history, caller
<1>1. pc' = pc /\ expiries' = expiries
  BY DEF ChoosePlan, WritePlan, SaveSettings, PurgeShop, NextMonth, vars
<1>2. Late' \subseteq Late
  BY <1>1 DEF Late
<1>3. {period, merchant, period', merchant'} \subseteq Int /\ Chosen \in 0..1 /\ Chosen' \in 0..1
  BY Constant DEF Figures, Chosen
<1>4. ASSUME NEW tier \in Tiers, NEW item \in BOOLEAN, ChoosePlan(tier, item) PROVE Paid'
  <2>1. Chosen = 0 /\ merchant' = merchant + 1 /\ period' = period /\ resetAt' = resetAt
    BY <1>4 DEF ChoosePlan, Chosen
  <2>2. QED
    BY <1>1, <1>2, <1>3, <2>1, KeepsPaid
<1>5. CASE WritePlan
  <2>1. Chosen = 1 /\ Chosen' = 0 /\ merchant' = merchant
    BY <1>5 DEF WritePlan, Chosen
  <2>2. period' \in {period, period + 1}
    BY <1>5 DEF WritePlan, NewPeriod, KeepPeriod
  <2>3. resetAt' \in {resetAt, "future"}
    BY <1>5 DEF WritePlan
  <2>4. QED
    BY <1>1, <1>2, <1>3, <2>1, <2>2, <2>3, KeepsPaid
<1>6. CASE SaveSettings \/ PurgeShop
  <2>1. Chosen' = Chosen /\ merchant' \in {merchant, merchant + 1} /\ period' = period /\ resetAt' = "null"
    BY <1>6 DEF SaveSettings, PurgeShop, FreshRow, Chosen
  <2>2. QED
    BY <1>1, <1>2, <1>3, <2>1, KeepsPaid
<1>7. CASE NextMonth \/ UNCHANGED vars
  <2>1. Chosen' = Chosen /\ merchant' = merchant /\ period' = period /\ resetAt' = resetAt
    BY <1>7 DEF NextMonth, vars, Chosen
  <2>2. QED
    BY <1>1, <1>2, <1>3, <2>1, KeepsPaid
<1>8. QED
  BY <1>4, <1>5, <1>6, <1>7

(* An expiry makes room for one period for each caller.                   *)
LEMMA ExpiresPaid ==
  ASSUME Figures, Paid, LimitExpires
  PROVE  Paid'
<1> DEFINE n == Cardinality(Callers)
<1>1. n \in Nat /\ expiries \in Nat
  BY Callers1, Constant DEF Figures
<1>2. (expiries + 1) * n = expiries * n + n /\ expiries * n \in Nat
  BY <1>1, Product
<1>3. /\ period' = period /\ merchant' = merchant /\ expiries' = expiries + 1
      /\ Chosen' = Chosen /\ Late' = Late
  BY DEF LimitExpires, Chosen, Late, history, caller
<1>4. period \in Int /\ merchant \in Int /\ Chosen \in Int /\ Cardinality(Late) \in Nat
  <2>1. Late \subseteq Callers
    BY DEF Late
  <2>2. QED
    BY <2>1, LateCount, Constant DEF Figures, Chosen
<1> DEFINE product == expiries * n
<1>5. expiries' * n = product + n /\ product \in Nat
  BY <1>2, <1>3
<1>6. period + Cardinality(Late) + Chosen <= merchant + product
  BY DEF Paid
<1> HIDE DEF product, n
<1>7. /\ period' + Cardinality(Late') + Chosen' <= merchant' + (product + n)
      /\ period' + n + Chosen' <= merchant' + (product + n)
  BY <1>1, <1>3, <1>4, <1>5, <1>6
<1>8. QED
  BY <1>5, <1>7 DEF Paid, n

(* A caller becomes late only while there is room for all.                *)
LEMMA CheckResetPaid ==
  ASSUME Figures, Figures', CallerType, Paid, NEW c \in Callers, CheckReset(c)
  PROVE  Paid'
<1> DEFINE n == Cardinality(Callers)
<1>1. /\ period' = period /\ merchant' = merchant /\ expiries' = expiries
      /\ resetAt' = resetAt /\ Chosen' = Chosen
  BY DEF CheckReset, settings, world, history, Chosen
<1>2. {period, merchant} \subseteq Int /\ Chosen \in Int /\ n \in Nat /\ expiries * n \in Nat
  BY Callers1, Constant, Product DEF Figures, Chosen
<1>3. CASE AfterReset(c)
  <2>1. PICK l \in {"count", "idle", "query"} : pc' = [pc EXCEPT ![c] = l]
    BY <1>3 DEF AfterReset, Goto, Return
  <2>2. Late' \subseteq Late
    BY <2>1, NotLate
  <2>3. QED
    BY <1>1, <1>2, <2>2, KeepsPaid
<1>4. CASE resetAt = "past"
  <2>1. Late' \subseteq Callers
    BY DEF Late
  <2>2. Cardinality(Late') \in Nat /\ Cardinality(Late') <= n
    BY <2>1, LateCount
  <2> DEFINE product == expiries * n
  <2>3. period + n + Chosen <= merchant + product /\ product \in Nat
    BY <1>2, <1>4 DEF Paid
  <2> HIDE DEF product, n
  <2>4. /\ period' + Cardinality(Late') + Chosen' <= merchant' + product
        /\ period' + n + Chosen' <= merchant' + product
    BY <1>1, <1>2, <2>2, <2>3
  <2>5. expiries' * n = product
    BY <1>1 DEF product
  <2>6. QED
    BY <2>4, <2>5 DEF Paid, n
<1>5. QED
  BY <1>3, <1>4 DEF CheckReset

(* Its reset takes the place that was kept for it.                        *)
LEMMA ResetLimitsPaid ==
  ASSUME Figures, Figures', CallerType, Paid, NEW c \in Callers, ResetLimits(c)
  PROVE  Paid'
<1> DEFINE n == Cardinality(Callers)
<1>1. merchant' = merchant /\ expiries' = expiries /\ Chosen' = Chosen
  BY DEF ResetLimits, world, Chosen
<1>2. {period, period', merchant} \subseteq Int /\ Chosen \in Int /\ n \in Nat /\ expiries * n \in Nat
  BY Callers1, Constant, Product DEF Figures, Chosen
<1>3. PICK l \in {"count", "idle", "query"} : pc' = [pc EXCEPT ![c] = l]
  BY DEF ResetLimits, AfterReset, Goto, Return
<1>4. Late' \subseteq Late \ {c}
  BY <1>3, NotLate
<1>5. c \in Late /\ Late \subseteq Callers
  BY DEF ResetLimits, Late
<1>6. /\ IsFiniteSet(Late) /\ Cardinality(Late) \in Nat
      /\ Cardinality(Late \ {c}) = Cardinality(Late) - 1 /\ IsFiniteSet(Late \ {c})
  BY <1>5, LateCount, FS_RemoveElement
<1>7. Cardinality(Late') \in Nat /\ Cardinality(Late') <= Cardinality(Late) - 1
  BY <1>4, <1>6, FS_Subset, FS_CardinalityType
<1>8. \/ period' = period + 1 /\ resetAt' = "future"
      \/ period' = period /\ resetAt' = resetAt
  BY DEF ResetLimits, NewPeriod, NextReset, history
<1>9. CASE period' = period /\ resetAt' = resetAt
  BY <1>1, <1>2, <1>4, <1>9, KeepsPaid
<1>10. CASE period' = period + 1 /\ resetAt' = "future"
  <2> DEFINE product == expiries * n
  <2>1. period + Cardinality(Late) + Chosen <= merchant + product /\ product \in Nat
    BY <1>2 DEF Paid
  <2> HIDE DEF product
  <2>2. period' + Cardinality(Late') + Chosen' <= merchant' + product
    BY <1>1, <1>2, <1>6, <1>7, <1>10, <2>1
  <2>3. expiries' * n = product
    BY <1>1 DEF product
  <2>4. QED
    BY <1>10, <2>2, <2>3 DEF Paid
<1>11. QED
  BY <1>8, <1>9, <1>10

LEMMA StepPaid ==
  ASSUME Figures, Figures', CallerType, Paid, NEW c \in Callers, Step(c)
  PROVE  Paid'
<1> USE DEF settings, billing, world, history
<1>1. period \in Int /\ merchant \in Int /\ Chosen \in Int
  BY Constant DEF Figures, Chosen
<1>2. ASSUME NEW l \in {"idle", "send", "check", "charge", "upgrade", "log", "countCheck"},
             pc' = [pc EXCEPT ![c] = l],
             UNCHANGED <<period, choice, merchant, expiries, resetAt>>
      PROVE  Paid'
  <2>1. Late' \subseteq Late
    BY <1>2, NotLate
  <2>2. Chosen' = Chosen
    BY <1>2 DEF Chosen
  <2>3. QED
    BY <1>1, <1>2, <2>1, <2>2, KeepsPaid
<1>3. ASSUME NEW k \in Kinds, Start(c, k) PROVE Paid'
  BY <1>2, <1>3 DEF Start
<1>4. CASE QueryLimit(c)
  BY <1>2, <1>4 DEF QueryLimit, GoSend, Return, AfterError
<1>5. CASE Charge(c)
  BY <1>2, <1>5 DEF Charge, AfterError, Goto, GoSend, Return
<1>6. CASE Upgrade(c) \/ LogUpgrade(c)
  BY <1>2, <1>6 DEF Upgrade, LogUpgrade, Goto, GoSend, KeepPeriod
<1>7. CASE Send(c)
  BY <1>2, <1>7 DEF Send, Goto, Return
<1>8. CASE Count(c)
  BY <1>2, <1>8 DEF Count, Return
<1>9. QED
  BY <1>3, <1>4, <1>5, <1>6, <1>7, <1>8, CheckResetPaid, ResetLimitsPaid DEF Step

(* However many callers see the same expiry, each of them resets the      *)
(* count at most once for it; every other period is begun by the merchant *)
(* (CheckAndResetPlanLimits reads, and resets without another look).      *)
THEOREM ResetsBounded == Spec => []ResetsPerExpiry
<1>1. Init => Paid
  <2> SUFFICES ASSUME Init PROVE Paid
    OBVIOUS
  <2>1. Late = {} /\ Chosen = 0 /\ resetAt # "past"
    BY DEF Init, Late, Chosen
  <2>2. Cardinality(Late) = 0 /\ 0 * Cardinality(Callers) = 0
    BY <2>1, Callers1, FS_EmptySet
  <2>3. QED
    BY <2>1, <2>2 DEF Init, Paid
<1>2. TypeOK /\ TypeOK' /\ Paid /\ [Next]_vars => Paid'
  <2> SUFFICES ASSUME TypeOK, TypeOK', Paid, [Next]_vars PROVE Paid'
    OBVIOUS
  <2>1. Figures /\ CallerType
    BY TypeParts
  <2>2. (TypeOK <=> Flags /\ Figures /\ CallerType)'
    BY TypeParts, PTL
  <2>3. Figures'
    BY <2>2
  <2>4. QED
    BY <2>1, <2>3, WorldPaid, ExpiresPaid, StepPaid DEF Next
<1>3. TypeOK /\ Paid => ResetsPerExpiry
  <2> SUFFICES ASSUME TypeOK, Paid PROVE ResetsPerExpiry
    OBVIOUS
  <2>1. Figures
    BY TypeParts
  <2>2. Late \subseteq Callers
    BY DEF Late
  <2>3. {period, merchant} \subseteq Int /\ Chosen \in 0..1 /\ Cardinality(Late) \in Nat
    BY <2>1, <2>2, LateCount, Constant DEF Figures, Chosen
  <2>4. expiries * Cardinality(Callers) \in Nat
    BY <2>1, Callers1, Constant, Product DEF Figures
  <2>5. QED
    BY <2>3, <2>4 DEF Paid, ResetsPerExpiry
<1>4. QED
  BY <1>1, <1>2, <1>3, TypeInvariance, PTL DEF Spec
-----------------------------------------------------------------------------
(* A caller that is about to write or log a paid upgrade has its charge.  *)
ChargedFirst ==
    \A c \in Callers :
        pc[c] \in {"upgrade", "log"} /\ seen[c].item /\ Amount(seen[c].tier + 1) > 0
          => \E r \in charges : r.tier = seen[c].tier + 1

Billed == PaidUpgradeIsCharged /\ ChargedFirst

(* A caller goes on, and to the upgrade or its log only with the charge.  *)
LEMMA KeepsBilled ==
  ASSUME CallerType, Billed, NEW c \in Callers, NEW l, NEW s,
         pc' = [pc EXCEPT ![c] = l], seen' \in {seen, [seen EXCEPT ![c] = s]},
         l \in {"upgrade", "log"} /\ seen'[c].item /\ Amount(seen'[c].tier + 1) > 0
           => \E r \in charges' : r.tier = seen'[c].tier + 1,
         charges \subseteq charges', upgrades' = upgrades
  PROVE  Billed'
<1>1. PaidUpgradeIsCharged'
  BY DEF Billed, PaidUpgradeIsCharged
<1>2. ASSUME NEW d \in Callers, d # c
      PROVE  pc'[d] = pc[d] /\ seen'[d] = seen[d]
  BY <1>2 DEF CallerType
<1>3. pc'[c] = l
  BY DEF CallerType
<1>4. ASSUME NEW d \in Callers, pc'[d] \in {"upgrade", "log"}, seen'[d].item,
             Amount(seen'[d].tier + 1) > 0
      PROVE  \E r \in charges' : r.tier = seen'[d].tier + 1
  <2>1. CASE d = c
    BY <1>3, <1>4, <2>1
  <2>2. CASE d # c
    BY <1>2, <1>4, <2>2 DEF Billed, ChargedFirst
  <2>3. QED
    BY <2>1, <2>2
<1>5. ChargedFirst'
  BY <1>4 DEF ChargedFirst, Amount
<1>6. QED
  BY <1>1, <1>5 DEF Billed

LEMMA ChargeBilled ==
  ASSUME CallerType, Billed, NEW c \in Callers, Charge(c)
  PROVE  Billed'
<1> DEFINE next == seen[c].tier + 1
<1>1. Record(next) => charges \subseteq charges' /\ \E r \in charges' : r.tier = next
  <2>1. CASE \E r \in charges : r.tier = next /\ r.month = month
    BY <2>1 DEF Record
  <2>2. CASE ~\E r \in charges : r.tier = next /\ r.month = month
    <3>1. Record(next) => charges' = charges \cup {[tier |-> next, month |-> month, amount |-> Amount(next)]}
      BY <2>2 DEF Record
    <3>2. [tier |-> next, month |-> month, amount |-> Amount(next)].tier = next
      OBVIOUS
    <3>3. QED
      BY <3>1, <3>2
  <2>3. QED
    BY <2>1, <2>2
<1>2. charges \subseteq charges' /\ upgrades' = upgrades
  BY <1>1 DEF Charge
<1>3. CASE AfterError(c)
  <2>1. PICK l \in {"send", "idle"} : pc' = [pc EXCEPT ![c] = l] /\ seen' = [seen EXCEPT ![c] = Unread]
    BY <1>3 DEF AfterError, GoSend, Return
  <2>2. QED
    BY <1>2, <2>1, KeepsBilled
<1>4. CASE /\ IF Amount(next) > 0 THEN Record(next) ELSE UNCHANGED charges
           /\ Goto(c, "upgrade")
  <2>1. Amount(next) > 0 => \E r \in charges' : r.tier = next
    BY <1>1, <1>4
  <2>2. pc' = [pc EXCEPT ![c] = "upgrade"] /\ seen' = seen
    BY <1>4 DEF Goto
  <2>3. QED
    BY <1>2, <2>1, <2>2, KeepsBilled
<1>5. QED
  BY <1>3, <1>4 DEF Charge

LEMMA UpgradeBilled ==
  ASSUME CallerType, Billed, NEW c \in Callers, Upgrade(c)
  PROVE  Billed'
<1>1. /\ pc[c] = "upgrade" /\ pc' = [pc EXCEPT ![c] = "log"] /\ seen' = seen
      /\ charges' = charges /\ upgrades' = upgrades
  BY DEF Upgrade, Goto, billing
<1>2. seen[c].item /\ Amount(seen[c].tier + 1) > 0 => \E r \in charges : r.tier = seen[c].tier + 1
  BY <1>1 DEF Billed, ChargedFirst
<1>3. QED
  BY <1>1, <1>2, KeepsBilled

LEMMA LogUpgradeBilled ==
  ASSUME CallerType, Billed, NEW c \in Callers, LogUpgrade(c)
  PROVE  Billed'
<1> DEFINE next == seen[c].tier + 1
           u == [from |-> seen[c].tier, to |-> next, charged |-> Amount(next)]
<1>1. /\ pc[c] = "log" /\ charges' = charges
      /\ pc' = [pc EXCEPT ![c] = "send"] /\ seen' = [seen EXCEPT ![c] = Unread]
      /\ \/ upgrades' = upgrades \cup {u} /\ seen[c].item /\ Amount(next) > 0
         \/ upgrades' = upgrades
  BY DEF LogUpgrade, GoSend
<1>2. u.to = next
  OBVIOUS
<1>3. seen[c].item /\ Amount(next) > 0 => \E r \in charges : r.tier = next
  BY <1>1 DEF Billed, ChargedFirst
<1> HIDE DEF u, next
<1>4. PaidUpgradeIsCharged'
  BY <1>1, <1>2, <1>3 DEF Billed, PaidUpgradeIsCharged
<1>5. ASSUME NEW d \in Callers, pc'[d] \in {"upgrade", "log"}
      PROVE  pc[d] \in {"upgrade", "log"} /\ seen'[d] = seen[d]
  BY <1>1, <1>5 DEF CallerType
<1>6. ChargedFirst'
  BY <1>1, <1>5 DEF Billed, ChargedFirst, Amount
<1>7. QED
  BY <1>4, <1>6 DEF Billed

LEMMA QueryLimitBilled ==
  ASSUME CallerType, Billed, NEW c \in Callers, QueryLimit(c)
  PROVE  Billed'
<1>1. charges' = charges /\ upgrades' = upgrades
  BY DEF QueryLimit, billing
<1>2. CASE GoSend(c, "allowed") \/ Return(c) \/ AfterError(c)
  <2>1. PICK l \in {"send", "idle"} : pc' = [pc EXCEPT ![c] = l] /\ seen' = [seen EXCEPT ![c] = Unread]
    BY <1>2 DEF GoSend, Return, AfterError
  <2>2. QED
    BY <1>1, <2>1, KeepsBilled
<1>3. CASE /\ pc' = [pc EXCEPT ![c] = IF lineItem THEN "charge" ELSE "upgrade"]
           /\ seen' = [seen EXCEPT ![c] = [tier |-> plan, item |-> lineItem]]
  <2>1. PaidUpgradeIsCharged'
    BY <1>1 DEF Billed, PaidUpgradeIsCharged
  <2>2. ASSUME NEW d \in Callers, pc'[d] \in {"upgrade", "log"}, seen'[d].item
        PROVE  pc[d] \in {"upgrade", "log"} /\ seen'[d] = seen[d]
    <3>1. CASE d = c
      <4>1. pc'[c] = (IF lineItem THEN "charge" ELSE "upgrade") /\ (seen'[c].item <=> lineItem)
        BY <1>3 DEF CallerType
      <4>2. QED
        BY <2>2, <3>1, <4>1
    <3>2. CASE d # c
      BY <1>3, <2>2, <3>2 DEF CallerType
    <3>3. QED
      BY <3>1, <3>2
  <2>3. ChargedFirst'
    BY <1>1, <2>2 DEF Billed, ChargedFirst, Amount
  <2>4. QED
    BY <2>1, <2>3 DEF Billed
<1>4. QED
  BY <1>2, <1>3 DEF QueryLimit

LEMMA NextBilled == CallerType /\ Billed /\ [Next]_vars => Billed'
<1> SUFFICES ASSUME CallerType, Billed, [Next]_vars PROVE Billed'
  OBVIOUS
<1>1. ASSUME UNCHANGED <<billing, caller>> PROVE Billed'
  BY <1>1 DEF Billed, PaidUpgradeIsCharged, ChargedFirst, Amount, billing, caller
<1>2. ASSUME NEW c \in Callers,
             (\E k \in Kinds : Start(c, k)) \/ CheckReset(c) \/ ResetLimits(c)
               \/ Send(c) \/ Count(c)
      PROVE  Billed'
  <2>1. charges' = charges /\ upgrades' = upgrades
    BY <1>2 DEF Start, CheckReset, ResetLimits, Send, Count, billing
  <2>2. \E l \in PCs \ {"upgrade", "log"} : pc' = [pc EXCEPT ![c] = l]
    BY <1>2 DEF Start, CheckReset, ResetLimits, AfterReset, Send, Count, Goto, Return, PCs
  <2>3. seen' \in {seen, [seen EXCEPT ![c] = Unread]}
    BY <1>2 DEF Start, CheckReset, ResetLimits, AfterReset, Send, Count, Goto, Return
  <2>4. QED
    BY <2>1, <2>2, <2>3, KeepsBilled
<1>3. ASSUME NEW c \in Callers, Step(c) PROVE Billed'
  BY <1>2, <1>3, QueryLimitBilled, ChargeBilled, UpgradeBilled, LogUpgradeBilled DEF Step
<1>4. ASSUME NEW tier \in Tiers, NEW item \in BOOLEAN, ChoosePlan(tier, item) PROVE Billed'
  BY <1>1, <1>4 DEF ChoosePlan
<1>5. CASE WritePlan \/ SaveSettings \/ PurgeShop \/ LimitExpires \/ NextMonth
  BY <1>1, <1>5 DEF WritePlan, SaveSettings, PurgeShop, LimitExpires, NextMonth
<1>6. CASE UNCHANGED vars
  BY <1>1, <1>6 DEF vars
<1>7. QED
  BY <1>3, <1>4, <1>5, <1>6 DEF Next

(* Every upgrade that the log calls paid has its charge on record, for    *)
(* any callers that upgrade at once and any charges that fail             *)
(* (autoUpgradeOnLimit charges before it writes).                         *)
THEOREM NoUnchargedUpgrade == Spec => []PaidUpgradeIsCharged
<1>1. Init => Billed
  BY DEF Init, Billed, PaidUpgradeIsCharged, ChargedFirst
<1>2. TypeOK => CallerType
  BY TypeParts
<1>3. Billed => PaidUpgradeIsCharged
  BY DEF Billed
<1>4. QED
  BY <1>1, <1>2, <1>3, NextBilled, TypeInvariance, PTL DEF Spec
-----------------------------------------------------------------------------
(* The callers whose message was checked and allowed, and is not counted. *)
Allowed == {c \in Callers : via[c] = "allowed"}

(* The count, were they all to be counted, is within the allowance of t.  *)
Room(t) ==
    LimitOf[t] = -1 \/ sent + Cardinality(Allowed) < Max({1, LimitOf[t]}) + Cardinality(Callers) + excess

WithinRoom ==
    /\ plan <= peak
    /\ row \/ sent = 0
    /\ \E t \in 0..peak : Room(t)

LEMMA LimitType ==
  ASSUME NEW t \in Tiers
  PROVE  /\ LimitOf[t] \in Int /\ Max({1, LimitOf[t]}) \in Int
         /\ Max({1, LimitOf[t]}) >= 1 /\ Max({1, LimitOf[t]}) >= LimitOf[t]
<1>1. LimitOf[t] \in Int /\ 1 \in Int
  BY PlanQuotaAssumption
<1>2. QED
  BY <1>1, MaxOfTwo

(* A step that adds to the count takes as much from those still to be     *)
(* counted, or from what no check allowed.                                *)
LEMMA KeepsRoom ==
  ASSUME Figures, Figures', WithinRoom, Allowed' \subseteq Allowed,
         peak' >= peak, plan' <= peak', row' \/ sent' = 0,
         sent' + Cardinality(Allowed') - excess' <= sent + Cardinality(Allowed) - excess
  PROVE  WithinRoom'
<1>1. {sent, sent', excess, excess', peak, peak'} \subseteq Nat
  BY Constant DEF Figures
<1>2. PICK t \in 0..peak : Room(t)
  BY DEF WithinRoom
<1>3. t \in Tiers /\ t \in 0..peak'
  <2>1. peak \in 0..Top /\ Top \in Nat
    BY Constant DEF Figures, Tiers
  <2>2. t \in 0..Top
    BY <1>2, <2>1
  <2>3. QED
    BY <1>1, <1>2, <2>2 DEF Tiers
<1>4. Allowed \subseteq Callers /\ Allowed' \subseteq Callers
  BY DEF Allowed
<1>5. Cardinality(Allowed) \in Nat /\ Cardinality(Allowed') \in Nat /\ Cardinality(Callers) \in Nat
  BY <1>4, LateCount, Callers1
<1>6. Max({1, LimitOf[t]}) \in Int
  BY <1>3, LimitType
<1>7. Room(t)'
  BY <1>1, <1>2, <1>5, <1>6 DEF Room
<1>8. QED
  BY <1>3, <1>7 DEF WithinRoom

(* A new count has room for every caller.                                 *)
LEMMA FreshRoom ==
  ASSUME Figures', sent' = 0, excess' = 0, plan' = peak'
  PROVE  WithinRoom'
<1>1. PICK t \in Tiers : t = peak'
  BY DEF Figures
<1>2. t \in 0..peak' /\ plan' <= peak'
  BY <1>1, Constant
<1>3. Allowed' \subseteq Callers
  BY DEF Allowed
<1>4. Cardinality(Allowed') \in Nat /\ Cardinality(Allowed') <= Cardinality(Callers) /\ Cardinality(Callers) \in Nat
  BY <1>3, LateCount, Callers1
<1>5. Max({1, LimitOf[t]}) \in Int /\ Max({1, LimitOf[t]}) >= 1
  BY LimitType
<1>6. 0 + Cardinality(Allowed') < Max({1, LimitOf[t]}) + Cardinality(Callers) + 0
  BY <1>4, <1>5
<1>7. Room(t)'
  BY <1>6 DEF Room
<1>8. QED
  BY <1>2, <1>7 DEF WithinRoom

(* The callers under way and the count are left alone.                    *)
LEMMA SameRoom ==
  ASSUME Figures, Figures', WithinRoom, UNCHANGED <<row, plan, sent, excess, peak>>,
         Allowed' \subseteq Allowed
  PROVE  WithinRoom'
<1>1. Allowed \subseteq Callers
  BY DEF Allowed
<1>2. /\ Cardinality(Allowed') \in Nat /\ Cardinality(Allowed) \in Nat
      /\ Cardinality(Allowed') <= Cardinality(Allowed)
  BY <1>1, LateCount, FS_Subset, FS_CardinalityType
<1>3. {sent, excess, peak} \subseteq Int
  BY Constant DEF Figures
<1>4. plan' <= peak' /\ (row' \/ sent' = 0)
  BY DEF WithinRoom
<1>5. QED
  BY <1>2, <1>3, <1>4, KeepsRoom

(* A tier is written and the count goes on.                               *)
LEMMA KeepPeriodRoom ==
  ASSUME Figures, Figures', WithinRoom, NEW tier \in Tiers,
         KeepPeriod(tier), plan' = tier, row', Allowed' \subseteq Allowed
  PROVE  WithinRoom'
<1>1. tier \in Int /\ peak \in Int /\ sent \in Int /\ excess \in Int
  BY Constant DEF Figures
<1>2. peak' >= peak /\ plan' <= peak' /\ sent' = sent /\ excess' = excess
  BY <1>1, MaxOfTwo DEF KeepPeriod
<1>3. Allowed \subseteq Callers
  BY DEF Allowed
<1>4. /\ Cardinality(Allowed') \in Nat /\ Cardinality(Allowed) \in Nat
      /\ Cardinality(Allowed') <= Cardinality(Allowed)
  BY <1>3, LateCount, FS_Subset, FS_CardinalityType
<1>5. QED
  BY <1>1, <1>2, <1>4, KeepsRoom

(* The check that allows a message: there is room for one from each       *)
(* caller, this one included.                                             *)
LEMMA AllowedRoom ==
  ASSUME Figures, Figures', WithinRoom, UnderLimit, UNCHANGED <<row, plan, sent, excess, peak>>
  PROVE  WithinRoom'
<1>1. plan \in Tiers /\ {sent, excess, plan, peak} \subseteq Nat
  BY Constant DEF Figures
<1>2. plan \in 0..peak
  BY <1>1 DEF WithinRoom
<1>3. LimitOf[plan] = -1 \/ sent < Max({1, LimitOf[plan]})
  <2>1. sent = 0 \/ LimitOf[plan] = -1 \/ sent < LimitOf[plan]
    BY DEF UnderLimit, WithinRoom
  <2>2. QED
    BY <1>1, <2>1, LimitType
<1>4. Allowed' \subseteq Callers
  BY DEF Allowed
<1>5. Cardinality(Allowed') \in Nat /\ Cardinality(Allowed') <= Cardinality(Callers) /\ Cardinality(Callers) \in Nat
  BY <1>4, LateCount, Callers1
<1>6. Max({1, LimitOf[plan]}) \in Int
  BY <1>1, LimitType
<1>7. LimitOf[plan] = -1 \/ sent + Cardinality(Allowed') < Max({1, LimitOf[plan]}) + Cardinality(Callers) + excess
  BY <1>1, <1>3, <1>5, <1>6
<1>8. Room(plan)'
  BY <1>7 DEF Room
<1>9. plan' \in 0..peak' /\ plan' <= peak' /\ (row' \/ sent' = 0)
  BY <1>2 DEF WithinRoom
<1>10. QED
  BY <1>8, <1>9 DEF WithinRoom

(* One more message is counted.                                           *)
LEMMA CountRoom ==
  ASSUME Figures, Figures', CallerType, WithinRoom, NEW c \in Callers, Count(c)
  PROVE  WithinRoom'
<1>1. via' = [via EXCEPT ![c] = "none"] /\ UNCHANGED <<row, plan, peak>>
  BY DEF Count, Return
<1>2. Allowed' = Allowed \ {c}
  BY <1>1 DEF CallerType, Allowed
<1>3. Allowed \subseteq Callers /\ (c \in Allowed <=> via[c] = "allowed")
  BY DEF Allowed
<1>4. /\ IsFiniteSet(Allowed) /\ Cardinality(Allowed) \in Nat /\ Cardinality(Allowed') \in Nat
      /\ Cardinality(Allowed') <= Cardinality(Allowed)
      /\ c \in Allowed => Cardinality(Allowed') = Cardinality(Allowed) - 1
  BY <1>2, <1>3, LateCount, FS_Subset, FS_CardinalityType, FS_RemoveElement
<1>5. {sent, excess, peak} \subseteq Int
  BY Constant DEF Figures
<1>6. CASE sent' = sent /\ excess' = excess
  BY <1>1, <1>2, <1>6, SameRoom
<1>7. CASE row /\ sent' = sent + 1 /\ excess' = (IF via[c] = "allowed" THEN excess ELSE excess + 1)
  <2>1. sent' = sent + 1 /\ excess' = (IF c \in Allowed THEN excess ELSE excess + 1)
    BY <1>3, <1>7
  <2>2. sent' + Cardinality(Allowed') - excess' <= sent + Cardinality(Allowed) - excess
    BY <1>4, <1>5, <2>1
  <2>3. plan' <= peak' /\ peak' >= peak /\ row'
    BY <1>1, <1>5, <1>7 DEF WithinRoom
  <2>4. QED
    BY <1>2, <2>2, <2>3, KeepsRoom
<1>8. QED
  BY <1>6, <1>7 DEF Count

LEMMA WorldRoom ==
  ASSUME Figures, Figures', WithinRoom,
         \/ \E tier \in Tiers, item \in BOOLEAN : ChoosePlan(tier, item)
         \/ WritePlan \/ SaveSettings \/ PurgeShop \/ LimitExpires \/ NextMonth \/ UNCHANGED vars
  PROVE  WithinRoom'
<1> USE DEF settings, history
<1>1. via' = via
  BY DEF ChoosePlan, WritePlan, SaveSettings, PurgeShop, LimitExpires, NextMonth, vars, caller
<1>2. Allowed' \subseteq Allowed
  BY <1>1 DEF Allowed
<1>3. ASSUME UNCHANGED <<row, plan, sent, history>> PROVE WithinRoom'
  BY <1>2, <1>3, SameRoom
<1>4. CASE WritePlan
  <2>1. CASE UNCHANGED <<settings, history>>
    BY <1>3, <2>1
  <2>2. CASE row' = TRUE /\ plan' = choice.tier /\ KeepPeriod(choice.tier)
    <3>1. choice.tier \in Tiers
      BY DEF Figures
    <3>2. QED
      BY <1>2, <2>2, <3>1, KeepPeriodRoom
  <2>3. CASE plan' = choice.tier /\ NewPeriod(choice.tier)
    BY <2>3, FreshRoom DEF NewPeriod
  <2>4. QED
    BY <1>4, <2>1, <2>2, <2>3, Zenon DEF WritePlan
<1>5. CASE SaveSettings \/ PurgeShop
  BY <1>5, FreshRoom DEF SaveSettings, PurgeShop, FreshRow
<1>6. QED
  BY <1>3, <1>4, <1>5 DEF ChoosePlan, LimitExpires, NextMonth, vars

LEMMA StepRoom ==
  ASSUME Figures, Figures', CallerType, WithinRoom, NEW c \in Callers, Step(c)
  PROVE  WithinRoom'
<1> USE DEF settings, history
<1>1. ASSUME NEW v \in Vias \ {"allowed"}, via' \in {via, [via EXCEPT ![c] = v]}
      PROVE  Allowed' \subseteq Allowed
  BY <1>1 DEF CallerType, Allowed
<1>2. {"none", "unchecked", "error", "upgraded"} \subseteq Vias \ {"allowed"}
  BY DEF Vias
<1>3. ASSUME NEW k \in Kinds, Start(c, k) PROVE WithinRoom'
  <2>1. Allowed' \subseteq Allowed
    BY <1>1, <1>2, <1>3 DEF Start
  <2>2. QED
    BY <1>3, <2>1, SameRoom DEF Start
<1>4. ASSUME AfterReset(c) PROVE Allowed' \subseteq Allowed
  BY <1>1, <1>2, <1>4 DEF AfterReset, Goto, Return
<1>5. CASE CheckReset(c)
  <2>1. Allowed' \subseteq Allowed
    BY <1>1, <1>2, <1>4, <1>5 DEF CheckReset, Goto
  <2>2. QED
    BY <1>5, <2>1, SameRoom DEF CheckReset
<1>6. CASE ResetLimits(c)
  <2>1. CASE NewPeriod(plan) /\ plan' = plan
    BY <2>1, FreshRoom DEF NewPeriod
  <2>2. CASE UNCHANGED <<row, plan, sent, history>>
    <3>1. Allowed' \subseteq Allowed
      BY <1>4, <1>6 DEF ResetLimits
    <3>2. QED
      BY <2>2, <3>1, SameRoom
  <2>3. QED
    BY <1>6, <2>1, <2>2 DEF ResetLimits
<1>7. CASE QueryLimit(c)
  <2>1. UNCHANGED <<row, plan, sent, history>>
    BY <1>7 DEF QueryLimit
  <2>2. CASE UnderLimit
    BY <2>1, <2>2, AllowedRoom
  <2>3. CASE ~UnderLimit
    <3>1. \E v \in {"none", "error"} : via' \in {via, [via EXCEPT ![c] = v]}
      BY <1>7, <2>3 DEF QueryLimit, Return, AfterError, GoSend
    <3>2. QED
      BY <1>1, <1>2, <2>1, <3>1, SameRoom
  <2>4. QED
    BY <2>2, <2>3
<1>8. CASE Charge(c)
  <2>1. \E v \in {"none", "error"} : via' \in {via, [via EXCEPT ![c] = v]}
    BY <1>8 DEF Charge, AfterError, Goto, GoSend, Return
  <2>2. Allowed' \subseteq Allowed
    BY <1>1, <1>2, <2>1
  <2>3. QED
    BY <1>8, <2>2, SameRoom DEF Charge
<1>9. CASE Upgrade(c)
  <2> DEFINE next == seen[c].tier + 1
  <2>1. Allowed' \subseteq Allowed
    BY <1>1, <1>2, <1>9 DEF Upgrade, Goto
  <2>2. next \in Tiers
    BY <1>9, Constant DEF Upgrade, CallerType
  <2>3. UNCHANGED row
    BY <1>9 DEF Upgrade
  <2> HIDE DEF next
  <2>4. CASE row /\ plan' = next /\ KeepPeriod(next)
    BY <2>1, <2>2, <2>3, <2>4, KeepPeriodRoom
  <2>5. CASE UNCHANGED <<plan, sent, history>>
    BY <2>1, <2>3, <2>5, SameRoom
  <2>6. QED
    BY <1>9, <2>4, <2>5, Zenon DEF Upgrade, next
<1>10. CASE Send(c)
  <2>1. Allowed' \subseteq Allowed
    BY <1>1, <1>2, <1>10 DEF Send, Goto, Return
  <2>2. QED
    BY <1>10, <2>1, SameRoom DEF Send
<1>11. CASE LogUpgrade(c)
  <2>1. Allowed' \subseteq Allowed
    BY <1>1, <1>2, <1>11 DEF LogUpgrade, GoSend
  <2>2. QED
    BY <1>11, <2>1, SameRoom DEF LogUpgrade
<1>12. QED
  BY <1>3, <1>5, <1>6, <1>7, <1>8, <1>9, <1>10, <1>11, CountRoom DEF Step

(* The count passes the allowance only by messages that no check allowed  *)
(* and by checks that overlapped, fewer than the callers                  *)
(* (CanSendWhatsAppMessage, IncrementSentMessages).                       *)
THEOREM OvershootBounded == Spec => []OvershootExplained
<1>1. Init /\ TypeOK => WithinRoom
  <2> SUFFICES ASSUME Init, TypeOK PROVE WithinRoom
    OBVIOUS
  <2>1. Allowed = {}
    BY DEF Init, Allowed
  <2>2. Cardinality(Allowed) = 0
    BY <2>1, FS_EmptySet
  <2>3. Max({1, LimitOf[0]}) \in Int /\ Max({1, LimitOf[0]}) >= 1
    BY Constant, LimitType
  <2>4. Room(0)
    BY <2>2, <2>3, Callers1 DEF Init, Room
  <2>5. QED
    BY <2>4 DEF Init, WithinRoom
<1>2. TypeOK /\ TypeOK' /\ WithinRoom /\ [Next]_vars => WithinRoom'
  <2> SUFFICES ASSUME TypeOK, TypeOK', WithinRoom, [Next]_vars PROVE WithinRoom'
    OBVIOUS
  <2>1. Figures /\ CallerType
    BY TypeParts
  <2>2. (TypeOK <=> Flags /\ Figures /\ CallerType)'
    BY TypeParts, PTL
  <2>3. Figures'
    BY <2>2
  <2>4. QED
    BY <2>1, <2>3, WorldRoom, StepRoom DEF Next
<1>3. TypeOK /\ WithinRoom => OvershootExplained
  <2> SUFFICES ASSUME TypeOK, WithinRoom PROVE OvershootExplained
    OBVIOUS
  <2>1. PICK t \in 0..peak : Room(t)
    BY DEF WithinRoom
  <2>2. Figures
    BY TypeParts
  <2>3. t \in Tiers /\ sent \in Nat /\ excess \in Nat
    BY <2>2, Constant DEF Figures, Tiers
  <2>4. Allowed \subseteq Callers
    BY DEF Allowed
  <2>5. Cardinality(Allowed) \in Nat /\ Cardinality(Callers) \in Nat /\ Max({1, LimitOf[t]}) \in Int
    BY <2>3, <2>4, LateCount, LimitType, Callers1
  <2>6. LimitOf[t] = -1 \/ sent < Max({1, LimitOf[t]}) + Cardinality(Callers) + excess
    BY <2>1, <2>3, <2>5 DEF Room
  <2>7. QED
    BY <2>6 DEF OvershootExplained
<1>4. QED
  BY <1>1, <1>2, <1>3, InitType, TypeInvariance, PTL DEF Spec
-----------------------------------------------------------------------------
(* Sums.  The library's theorems on induction take a predicate as their   *)
(* parameter; here it is a set, so that they can be used.                  *)

(* Induction over the naturals.                                           *)
LEMMA NatInduct ==
  ASSUME NEW G, 0 \in G, \A n \in Nat : n \in G => n + 1 \in G
  PROVE  Nat \subseteq G
<1> DEFINE bad == Nat \ G
           less == OpToRel(<, Nat)
<1>1. ASSUME bad # {} PROVE FALSE
  <2>1. IsWellFoundedOn(less, Nat) /\ bad \subseteq Nat
    BY NatLessThanWellFounded
  <2>2. \A m, n \in Nat : <<m, n>> \in less <=> m < n
    BY DEF OpToRel
  <2> HIDE DEF less, bad
  <2>3. PICK n \in bad : \A m \in bad : ~ (<<m, n>> \in less)
    BY <1>1, <2>1, WFMin
  <2>4. n \in Nat /\ n \notin G /\ \A m \in Nat : m < n => m \in G
    BY <2>1, <2>2, <2>3 DEF bad
  <2>5. n # 0
    BY <2>4
  <2>6. n - 1 \in Nat /\ n - 1 < n /\ (n - 1) + 1 = n
    BY <2>4, <2>5
  <2>7. QED
    BY <2>4, <2>6
<1>2. QED
  BY <1>1

(* ... and over the subsets of a finite set.                              *)
LEMMA SubsetInduct ==
  ASSUME NEW S, IsFiniteSet(S), NEW G, {} \in G,
         \A s \in SUBSET S : s # {} /\ (\A x \in s : s \ {x} \in G) => s \in G
  PROVE  SUBSET S \subseteq G
<1> DEFINE N == {n \in Nat : \A s \in SUBSET S : Cardinality(s) = n => s \in G}
<1>1. \A s \in SUBSET S : IsFiniteSet(s) /\ Cardinality(s) \in Nat
  BY FS_Subset, FS_CardinalityType
<1>2. 0 \in N
  BY <1>1, FS_EmptySet
<1>3. ASSUME NEW n \in Nat, n \in N PROVE n + 1 \in N
  <2>1. ASSUME NEW s \in SUBSET S, Cardinality(s) = n + 1 PROVE s \in G
    <3>1. s # {}
      BY <2>1, FS_EmptySet
    <3>2. ASSUME NEW x \in s PROVE s \ {x} \in G
      <4>1. Cardinality(s \ {x}) = Cardinality(s) - 1
        BY <1>1, FS_RemoveElement
      <4>2. Cardinality(s \ {x}) = n /\ s \ {x} \in SUBSET S
        BY <2>1, <4>1
      <4>3. QED
        BY <1>3, <4>2
    <3>3. QED
      BY <3>1, <3>2
  <2>2. QED
    BY <2>1
<1>4. Nat \subseteq N
  <2> HIDE DEF N
  <2>1. QED
    BY <1>2, <1>3, NatInduct
<1>5. QED
  BY <1>1, <1>4
-----------------------------------------------------------------------------
(* The recursive function behind a sum of f over the subsets of S.        *)
Some(s) == CHOOSE x \in s : TRUE
Adds(g, f, S) == g = [s \in SUBSET S |-> IF s = {} THEN 0 ELSE f[Some(s)] + g[s \ {Some(s)}]]
Partial(f, S) == CHOOSE g : Adds(g, f, S)
SumOf(f, S) == Partial(f, S)[S]

LEMMA AddsExists ==
  ASSUME NEW S, IsFiniteSet(S), NEW f
  PROVE  \E g : Adds(g, f, S)
<1> DEFINE Small(n) == {s \in SUBSET S : Cardinality(s) <= n}
           Sum(g, s) == IF s = {} THEN 0 ELSE f[Some(s)] + g[s \ {Some(s)}]
           G == {n \in Nat : \E g : g = [s \in Small(n) |-> Sum(g, s)]}
<1>1. \A s \in SUBSET S : IsFiniteSet(s) /\ Cardinality(s) \in Nat
  BY FS_Subset, FS_CardinalityType
<1>2. ASSUME NEW n \in Nat, NEW s \in Small(n + 1), s # {}
      PROVE  s \ {Some(s)} \in Small(n)
  <2>1. Some(s) \in s
    BY <1>2 DEF Some
  <2>2. Cardinality(s \ {Some(s)}) = Cardinality(s) - 1
    BY <1>1, <2>1, FS_RemoveElement
  <2>3. QED
    BY <1>1, <2>2
<1>3. 0 \in G
  <2> DEFINE g == [s \in Small(0) |-> 0]
  <2>1. \A s \in Small(0) : s = {}
    BY <1>1, FS_EmptySet
  <2>2. g = [s \in Small(0) |-> Sum(g, s)]
    BY <2>1
  <2>3. QED
    BY <2>2
<1>4. ASSUME NEW n \in Nat, n \in G PROVE n + 1 \in G
  <2>1. PICK g : g = [s \in Small(n) |-> Sum(g, s)]
    BY <1>4
  <2> DEFINE h == [s \in Small(n + 1) |-> Sum(g, s)]
  <2>2. Small(n) \subseteq Small(n + 1)
    BY <1>1
  <2>3. ASSUME NEW t \in Small(n) PROVE h[t] = g[t]
    <3>1. h[t] = Sum(g, t)
      BY <2>2
    <3>2. g[t] = Sum(g, t)
      <4> HIDE DEF Sum, Small
      <4>1. QED
        BY <2>1
    <3>3. QED
      BY <3>1, <3>2
  <2>4. ASSUME NEW s \in Small(n + 1) PROVE Sum(h, s) = Sum(g, s)
    <3>1. s # {} => h[s \ {Some(s)}] = g[s \ {Some(s)}]
      <4> HIDE DEF h
      <4>1. QED
        BY <1>2, <2>3
    <3> HIDE DEF h
    <3>2. QED
      BY <3>1
  <2>5. h = [s \in Small(n + 1) |-> Sum(h, s)]
    <3> HIDE DEF Sum, Small
    <3>1. \A s \in Small(n + 1) : Sum(h, s) = Sum(g, s)
      BY <2>4
    <3>2. QED
      BY <3>1
  <2> HIDE DEF h, Sum, Small
  <2>6. \E k : k = [s \in Small(n + 1) |-> Sum(k, s)]
    BY <2>5
  <2>7. QED
    BY <2>6
<1>5. Nat \subseteq G
  <2> HIDE DEF G
  <2>1. QED
    BY <1>3, <1>4, NatInduct
<1>6. Cardinality(S) \in G
  BY <1>5, FS_CardinalityType
<1>7. Small(Cardinality(S)) = SUBSET S
  BY <1>1, FS_Subset
<1>8. QED
  BY <1>6, <1>7 DEF Adds

LEMMA SumEquation ==
  ASSUME NEW S, IsFiniteSet(S), NEW f
  PROVE  \E g : Adds(g, f, S) /\ SumOf(f, S) = g[S]
<1>1. Adds(Partial(f, S), f, S)
  BY AddsExists DEF Partial
<1>2. QED
  BY <1>1 DEF SumOf

LEMMA AddsTerms ==
  ASSUME NEW g, NEW f, NEW S, Adds(g, f, S)
  PROVE  /\ g[{}] = 0
         /\ \A s \in SUBSET S : s # {} => Some(s) \in s /\ g[s] = f[Some(s)] + g[s \ {Some(s)}]
<1>1. \A s \in SUBSET S : s # {} => Some(s) \in s
  BY DEF Some
<1>2. \A s \in SUBSET S : g[s] = IF s = {} THEN 0 ELSE f[Some(s)] + g[s \ {Some(s)}]
  BY Zenon DEF Adds
<1>3. QED
  BY <1>1, <1>2

(* Any element can be taken out of a sum first.                           *)
Takes(g, f, S) == \A s \in SUBSET S : g[s] \in Int /\ \A x \in s : g[s] = f[x] + g[s \ {x}]

LEMMA SumTakes ==
  ASSUME NEW g, NEW f, NEW S, IsFiniteSet(S), \A x \in S : f[x] \in Int, Adds(g, f, S)
  PROVE  Takes(g, f, S)
<1>1. /\ g[{}] = 0
      /\ \A s \in SUBSET S : s # {} => Some(s) \in s /\ g[s] = f[Some(s)] + g[s \ {Some(s)}]
  BY AddsTerms
<1>2. \A s \in SUBSET S : g[s] \in Int
  <2> DEFINE T == {s \in SUBSET S : g[s] \in Int}
  <2>1. {} \in T
    BY <1>1
  <2>2. ASSUME NEW s \in SUBSET S, s # {}, \A x \in s : s \ {x} \in T PROVE s \in T
    <3>1. PICK x \in s : g[s] = f[x] + g[s \ {x}]
      BY <1>1, <2>2
    <3>2. f[x] \in Int /\ g[s \ {x}] \in Int
      BY <2>2
    <3>3. QED
      BY <3>1, <3>2
  <2>3. SUBSET S \subseteq T
    <3> HIDE DEF T
    <3>1. QED
      BY <2>1, <2>2, SubsetInduct
  <2>4. QED
    BY <2>3
<1> DEFINE G == {s \in SUBSET S : \A x \in s : g[s] = f[x] + g[s \ {x}]}
<1>3. {} \in G
  OBVIOUS
<1>4. ASSUME NEW s \in SUBSET S, s # {}, \A x \in s : s \ {x} \in G PROVE s \in G
  <2> DEFINE c == Some(s)
  <2>1. c \in s /\ g[s] = f[c] + g[s \ {c}]
    BY <1>1, <1>4
  <2> HIDE DEF c
  <2>2. ASSUME NEW x \in s, x # c PROVE g[s] = f[x] + g[s \ {x}]
    <3> DEFINE rest == (s \ {c}) \ {x}
    <3>1. x \in s \ {c} /\ c \in s \ {x} /\ (s \ {x}) \ {c} = rest /\ rest \in SUBSET S
      BY <2>1, <2>2
    <3>2. g[s \ {c}] = f[x] + g[rest]
      BY <1>4, <2>1, <3>1
    <3>3. g[s \ {x}] = f[c] + g[rest]
      BY <1>4, <3>1
    <3>4. f[x] \in Int /\ f[c] \in Int /\ g[rest] \in Int
      BY <1>2, <2>1, <3>1
    <3>5. QED
      BY <2>1, <3>2, <3>3, <3>4
  <2>3. QED
    BY <2>1, <2>2
<1>5. SUBSET S \subseteq G
  <2> HIDE DEF G
  <2>1. QED
    BY <1>3, <1>4, SubsetInduct
<1>6. QED
  BY <1>2, <1>5 DEF Takes

(* The sum of the amounts of a set of records.                            *)
LEMMA MapThenSum ==
  ASSUME NEW S
  PROVE  MapThenSumSet(LAMBDA r : r.amount, S) = SumOf([r \in S |-> r.amount], S)
<1> DEFINE f == [r \in S |-> r.amount]
           Direct(g) == g = [s \in SUBSET S |-> IF s = {} THEN 0 ELSE Some(s).amount + g[s \ {Some(s)}]]
<1>1. MapThenSumSet(LAMBDA r : r.amount, S) = (CHOOSE g : Direct(g))[S]
  BY DEF MapThenSumSet, MapThenFoldSet, Some
<1>2. ASSUME NEW s \in SUBSET S, s # {} PROVE f[Some(s)] = Some(s).amount
  BY <1>2 DEF Some
<1>3. ASSUME NEW g PROVE Direct(g) <=> Adds(g, f, S)
  <2> HIDE DEF f
  <2>1. QED
    BY <1>2 DEF Adds
<1>4. (CHOOSE g : Direct(g)) = (CHOOSE g : Adds(g, f, S))
  <2> HIDE DEF Direct, f
  <2>1. QED
    BY <1>3
<1>5. QED
  BY <1>1, <1>4 DEF SumOf, Partial
-----------------------------------------------------------------------------
(* A month has one record of a tier, and it is the step up to it.         *)
OneEach ==
    /\ IsFiniteSet(charges)
    /\ \A r \in charges : r.tier >= 1 /\ r.amount = Amount(r.tier)
    /\ \A r, s \in charges : r.tier = s.tier /\ r.month = s.month => r = s

(* The catalogue of plans: a higher tier is never cheaper.                *)
PricesRise == \A t \in Tiers : t < Top => PriceOf[t] <= PriceOf[t + 1]

LEMMA RecordOneEach ==
  ASSUME Figures, OneEach, NEW next \in Tiers, next >= 1, Record(next)
  PROVE  OneEach'
<1>1. CASE \E r \in charges : r.tier = next /\ r.month = month
  <2>1. charges' = charges
    BY <1>1 DEF Record
  <2>2. QED
    BY <2>1 DEF OneEach, Amount
<1>2. CASE ~\E r \in charges : r.tier = next /\ r.month = month
  <2> DEFINE new == [tier |-> next, month |-> month, amount |-> Amount(next)]
  <2>1. charges' = charges \cup {new}
    BY <1>2 DEF Record
  <2>2. new.tier = next /\ new.month = month /\ new.amount = Amount(next)
    OBVIOUS
  <2> HIDE DEF new
  <2>3. IsFiniteSet(charges')
    BY <2>1, FS_AddElement DEF OneEach
  <2>4. \A r \in charges' : r.tier >= 1 /\ r.amount = Amount(r.tier)
    BY <2>1, <2>2 DEF OneEach
  <2>5. \A r, s \in charges' : r.tier = s.tier /\ r.month = s.month => r = s
    BY <1>2, <2>1, <2>2 DEF OneEach
  <2>6. QED
    BY <2>3, <2>4, <2>5 DEF OneEach, Amount
<1>3. QED
  BY <1>1, <1>2

LEMMA NextOneEach ==
  ASSUME Figures, CallerType, OneEach, [Next]_vars
  PROVE  OneEach'
<1>1. ASSUME charges' = charges PROVE OneEach'
  BY <1>1 DEF OneEach, Amount
<1>2. ASSUME NEW c \in Callers, Charge(c) PROVE OneEach'
  <2> DEFINE next == seen[c].tier + 1
  <2>1. seen[c].tier \in Tiers /\ seen[c].tier < Top
    BY <1>2 DEF Charge, CallerType
  <2>2. next \in Tiers /\ next >= 1
    <3>1. seen[c].tier \in Nat
      BY <2>1, Constant
    <3>2. QED
      BY <2>1, <3>1, Constant
  <2> HIDE DEF next
  <2>3. Record(next) \/ charges' = charges
    BY <1>2 DEF Charge, next
  <2>4. QED
    BY <1>1, <2>2, <2>3, RecordOneEach
<1>3. ASSUME NEW c \in Callers, Step(c) PROVE OneEach'
  <2>1. CASE Charge(c)
    BY <1>2, <2>1
  <2>2. CASE ~Charge(c)
    <3>1. charges' = charges
      BY <1>3, <2>2 DEF Step, Start, CheckReset, ResetLimits, QueryLimit, Upgrade, LogUpgrade, Send, Count, billing
    <3>2. QED
      BY <1>1, <3>1
  <2>3. QED
    BY <2>1, <2>2
<1>4. CASE \/ \E tier \in Tiers, item \in BOOLEAN : ChoosePlan(tier, item)
           \/ WritePlan \/ SaveSettings \/ PurgeShop \/ LimitExpires \/ NextMonth \/ UNCHANGED vars
  <2>1. charges' = charges
    BY <1>4 DEF ChoosePlan, WritePlan, SaveSettings, PurgeShop, LimitExpires, NextMonth, vars, billing
  <2>2. QED
    BY <1>1, <2>1
<1>5. QED
  BY <1>3, <1>4 DEF Next

LEMMA AmountOfStep ==
  ASSUME PricesRise, NEW n \in Nat, n + 1 <= Top
  PROVE  /\ PriceOf[n] \in Nat /\ PriceOf[n + 1] \in Nat /\ PriceOf[n] <= PriceOf[n + 1]
         /\ Amount(n + 1) = PriceOf[n + 1] - PriceOf[n]
<1>1. n \in Tiers /\ n + 1 \in Tiers /\ n < Top /\ (n + 1) - 1 = n
  <2>1. Top \in Nat
    BY Constant
  <2>2. n \in 0..Top /\ n + 1 \in 0..Top /\ n < Top /\ (n + 1) - 1 = n
    BY <2>1
  <2>3. QED
    BY <2>2 DEF Tiers
<1>2. PriceOf[n] \in Nat /\ PriceOf[n + 1] \in Nat /\ PriceOf[n] <= PriceOf[n + 1]
  BY <1>1, Constant DEF PricesRise
<1> DEFINE d == PriceOf[n + 1] - PriceOf[n]
<1>3. Amount(n + 1) = Max({0, d}) /\ d \in Nat
  BY <1>1, <1>2 DEF Amount
<1> HIDE DEF d
<1>4. Max({0, d}) \in {0, d} /\ Max({0, d}) >= d
  BY <1>3, MaxOfTwo
<1>5. Amount(n + 1) = d
  BY <1>3, <1>4
<1>6. QED
  BY <1>2, <1>5 DEF d

(* The records of a month up to tier n add up to no more than its price:  *)
(* one record a tier, each the difference to the tier below.              *)
LEMMA ClimbOfMonth ==
  ASSUME PricesRise, Figures, OneEach, NEW m \in 0..MaxMonth,
         NEW S, S \subseteq charges, \A r \in S : r.month = m,
         NEW f, \A r \in S : f[r] = r.amount
  PROVE  SumOf(f, S) <= PriceOf[Top]
<1>1. IsFiniteSet(S)
  BY FS_Subset DEF OneEach
<1>2. PICK g : Adds(g, f, S) /\ SumOf(f, S) = g[S]
  BY <1>1, SumEquation
<1> DEFINE G == {n \in Nat : n <= Top =>
             \A s \in SUBSET S : (\A r \in s : r.tier <= n) => g[s] <= PriceOf[n]}
<1>3. ASSUME NEW r \in S
      PROVE  /\ r \in charges /\ r.tier \in Tiers /\ r.tier \in Int
             /\ f[r] = r.amount /\ f[r] \in Int
  <2>1. r \in [tier : Tiers, month : 0..MaxMonth, amount : Nat]
    BY DEF Figures
  <2>2. r.tier \in Tiers /\ r.amount \in Nat
    BY <2>1
  <2>3. r.tier \in Int
    BY <2>2, Constant
  <2>4. QED
    BY <2>2, <2>3
<1>4. SumOf(f, S) = g[S] /\ g[{}] = 0
  BY <1>2, AddsTerms
<1>5. \A s \in SUBSET S : g[s] \in Int /\ \A x \in s : g[s] = f[x] + g[s \ {x}]
  <2>1. \A x \in S : f[x] \in Int
    BY <1>3
  <2> HIDE DEF G
  <2>2. QED
    <3>1. Takes(g, f, S)
      BY <1>2, <1>1, <2>1, SumTakes
    <3>2. QED
      BY <3>1 DEF Takes
<1>6. 0 \in G
  <2>1. ASSUME NEW s \in SUBSET S, \A r \in s : r.tier <= 0 PROVE s = {}
    BY <1>3, <2>1 DEF OneEach
  <2>2. PriceOf[0] \in Nat
    BY Constant
  <2>3. ASSUME NEW s \in SUBSET S, \A r \in s : r.tier <= 0 PROVE g[s] <= PriceOf[0]
    <3>1. s = {}
      BY <2>1, <2>3
    <3>2. QED
      BY <1>4, <2>2, <3>1
  <2>4. QED
    BY <2>3
<1>7. ASSUME NEW n \in Nat, n \in G PROVE n + 1 \in G
  <2> SUFFICES ASSUME n + 1 <= Top, NEW s \in SUBSET S, \A r \in s : r.tier <= n + 1
               PROVE  g[s] <= PriceOf[n + 1]
    OBVIOUS
  <2>1. n <= Top /\ Top \in Nat
    BY Constant
  <2>2. \A t \in SUBSET S : (\A r \in t : r.tier <= n) => g[t] <= PriceOf[n]
    BY <1>7, <2>1
  <2>3. /\ PriceOf[n] \in Nat /\ PriceOf[n + 1] \in Nat /\ PriceOf[n] <= PriceOf[n + 1]
        /\ Amount(n + 1) = PriceOf[n + 1] - PriceOf[n]
    BY AmountOfStep
  <2>4. CASE \A r \in s : r.tier <= n
    BY <1>5, <2>2, <2>3, <2>4
  <2>5. ASSUME NEW x \in s, ~(x.tier <= n) PROVE g[s] <= PriceOf[n + 1]
    <3>1. x.tier = n + 1 /\ x \in S
      BY <1>3, <2>5
    <3>2. \A r \in s \ {x} : r.tier # n + 1
      BY <1>3, <3>1 DEF OneEach
    <3>3. ASSUME NEW r \in s \ {x} PROVE r.tier <= n
      <4>1. r.tier \in Int /\ r.tier <= n + 1 /\ r.tier # n + 1
        BY <1>3, <3>2
      <4>2. QED
        BY <4>1
    <3>4. s \ {x} \in SUBSET S
      OBVIOUS
    <3>5. g[s \ {x}] <= PriceOf[n] /\ g[s \ {x}] \in Int
      BY <1>5, <2>2, <3>3, <3>4
    <3>6. f[x] = Amount(n + 1)
      BY <1>3, <3>1 DEF OneEach
    <3>7. g[s] = f[x] + g[s \ {x}]
      BY <1>5
    <3>8. QED
      BY <2>3, <3>5, <3>6, <3>7
  <2>6. QED
    BY <2>4, <2>5
<1>8. Nat \subseteq G
  <2> HIDE DEF G
  <2>1. QED
    BY <1>6, <1>7, NatInduct
<1>9. Top \in Nat /\ \A r \in S : r.tier <= Top
  <2>1. \A t \in Tiers : t <= Top
    BY DEF Tiers
  <2> HIDE DEF G
  <2>2. QED
    BY <1>3, <2>1, Constant
<1>10. g[S] <= PriceOf[Top]
  BY <1>8, <1>9
<1>11. QED
  BY <1>4, <1>10

(* When no tier is cheaper than the one below, as in the catalogue, the   *)
(* charges of a month never exceed the climb from free to the top, for    *)
(* any callers that charge at once, charges that fail and plans that are  *)
(* chosen anew (autoUpgradeOnLimit, createUsageCharge, billing.go:29-31). *)
THEOREM ChargesWithinClimb ==
  ASSUME PricesRise
  PROVE  Spec => []UsageWithinClimb
<1>1. Init => OneEach
  BY FS_EmptySet DEF Init, OneEach
<1>2. TypeOK => Figures /\ CallerType
  BY TypeParts
<1>3. TypeOK /\ OneEach => UsageWithinClimb
  <2> SUFFICES ASSUME TypeOK, OneEach, NEW m \in 0..MaxMonth
               PROVE  MapThenSumSet(LAMBDA r : r.amount, {r \in charges : r.month = m}) <= PriceOf[Top]
    BY DEF UsageWithinClimb
  <2> DEFINE S == {r \in charges : r.month = m}
  <2>1. MapThenSumSet(LAMBDA r : r.amount, S) = SumOf([r \in S |-> r.amount], S)
    BY MapThenSum
  <2>2. SumOf([r \in S |-> r.amount], S) <= PriceOf[Top]
    BY <1>2, ClimbOfMonth
  <2>3. QED
    BY <2>1, <2>2
<1>4. QED
  BY <1>1, <1>2, <1>3, NextOneEach, TypeInvariance, PTL DEF Spec
=============================================================================
