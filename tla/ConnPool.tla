------------------------------ MODULE ConnPool ------------------------------
(***************************************************************************)
(* The database handle of store/db.go.  SetMaxOpenConns(1) leaves one     *)
(* connection, which every statement of every goroutine takes, and which  *)
(* an open Rows or transaction keeps until it is closed or read to its    *)
(* end.  No statement has a context, so a goroutine waits for ever.       *)
(*                                                                         *)
(* An operation is the order in which it takes and gives back connections.*)
(***************************************************************************)
EXTENDS Naturals, Sequences

CONSTANTS
    Goroutines,     \* goroutines: requests, worker jobs, background runs
    Nobody,
    PayingPlans     \* how many paid plans may be in use among all shops

ASSUME PoolAssumption == Nobody \notin Goroutines /\ PayingPlans \subseteq Nat

VARIABLES
    holder,     \* the goroutine that has the connection
    todo,       \* what each goroutine still takes and gives back
    revenue     \* goroutines whose latest call is GetRevenueStats, and met a paid plan

poolVars == <<holder, todo, revenue>>

Programs == Seq({"get", "put"})

Wants(g)   == todo[g] # <<>> /\ Head(todo[g]) = "get"
Returns(g) == todo[g] # <<>> /\ Head(todo[g]) = "put"

(* A goroutine about to give a connection back has the only one.          *)
PoolTypeOK ==
    /\ holder \in Goroutines \cup {Nobody}
    /\ todo \in [Goroutines -> Programs]
    /\ revenue \subseteq Goroutines
    /\ \A g \in Goroutines : Returns(g) => holder = g

PoolInit ==
    /\ holder = Nobody
    /\ todo = [g \in Goroutines |-> <<>>]
    /\ revenue = {}

-----------------------------------------------------------------------------
(* Exec, QueryRow with its Scan, a Query whose rows are read to the end   *)
(* or closed, a transaction: each takes the connection and gives it back. *)
Statements(n) == [i \in 1..(2 * n) |-> IF i % 2 = 1 THEN "get" ELSE "put"]

PurgeShop      == Statements(1)
PurgeCustomer  == Statements(1)
GetGlobalStats == Statements(5)
GetAnalytics   == Statements(5)

\* mutant: the rows stay open over the second query
OpenTokenHealth == <<"get", "get", "put", "put">>
OfflineTokenHealth == Statements(2)

GetMerchantDetail == Statements(6) \o OfflineTokenHealth \o Statements(1)

(* CheckAndResetPlanLimits reads, and writes when the period is over.     *)
GetStats(reset) == Statements(IF reset THEN 7 ELSE 6)

OtherOperations ==
    {PurgeShop, PurgeCustomer, GetGlobalStats, GetAnalytics, OfflineTokenHealth, GetMerchantDetail}
    \cup {GetStats(reset) : reset \in BOOLEAN}

(* planInfo is called for each row of a paid plan, with the rows open.    *)
GetRevenueStats(n) == <<"get">> \o Statements(n) \o <<"put">> \o Statements(1)

-----------------------------------------------------------------------------
Call(g) ==
    /\ todo[g] = <<>>
    /\ \/ \E p \in OtherOperations :
             /\ todo' = [todo EXCEPT ![g] = p]
             /\ revenue' = revenue \ {g}
       \/ \E n \in PayingPlans :
             /\ todo' = [todo EXCEPT ![g] = GetRevenueStats(n)]
             /\ revenue' = IF n = 0 THEN revenue \ {g} ELSE revenue \cup {g}
    /\ UNCHANGED holder

Unlimited == TRUE         \* mutant: SetMaxOpenConns is not called
Free == holder = Nobody

Get(g) ==
    /\ Wants(g)
    /\ Free
    /\ holder' = g
    /\ todo' = [todo EXCEPT ![g] = Tail(@)]
    /\ UNCHANGED revenue

Put(g) ==
    /\ Returns(g)
    /\ holder' = Nobody
    /\ todo' = [todo EXCEPT ![g] = Tail(@)]
    /\ UNCHANGED revenue

PoolNext == \E g \in Goroutines : Call(g) \/ Get(g) \/ Put(g)

(* The scheduler runs the goroutine that has the connection, and database/*)
(* sql hands a free one to each that waits, sooner or later.              *)
PoolFairness == \A g \in Goroutines : SF_poolVars(Get(g)) /\ WF_poolVars(Put(g))

PoolSpec == PoolInit /\ [][PoolNext]_poolVars /\ PoolFairness

-----------------------------------------------------------------------------
(* The goroutine that has the connection is about to give it back, and no *)
(* cause of its own wait, unless it computes the revenue of paid plans:   *)
(* no other operation queries the database with its rows open.            *)
HolderGivesBack == holder # Nobody => Returns(holder) \/ holder \in revenue

(* The revenue page waits for the connection that it has.                 *)
Stalled == \E g \in revenue : holder = g /\ Wants(g)

(* Every call returns, however many share the connection, until a revenue *)
(* page has stalled: nothing else stops the server's queries.             *)
ReturnsUnlessStalled ==
    \A g \in Goroutines : todo[g] # <<>> ~> (todo[g] = <<>> \/ Stalled)

(* One connection is enough, "one writer at a time" (db.go:27): every     *)
(* operation returns.                                                     *)
EveryCallReturns == \A g \in Goroutines : todo[g] # <<>> ~> todo[g] = <<>>
=============================================================================
