--------------------------- MODULE Pairing_proofs ---------------------------
(***************************************************************************)
(* Theorems about Pairing, for any number of flows, reconnect goroutines  *)
(* and lost connections.                                                   *)
(*                                                                         *)
(* CodeIsServed is not inductive: that no other flow runs beside the one  *)
(* whose code is shown follows only from the mutual exclusion of flows.   *)
(***************************************************************************)
EXTENDS Pairing, TLAPS

\* pairingMu: no two flows are between its Lock and its Unlock.
OneFlowRuns ==
    \A f, g \in Flows : pc[f] \in Running /\ pc[g] \in Running => f = g

\* reconnect sleeps only before an attempt it still has.
SleepersHaveTries == \A r \in Loops : loop[r] = "sleep" => tries[r] > 0

IInv == TypeOK /\ SleepersHaveTries /\ OneFlowRuns /\ CodeIsServed

LEMMA InitTypeOK == Init => TypeOK
BY PairingAssumption DEF Init, TypeOK, Statuses, Running, Clients

\* Every step keeps the types.
LEMMA NextTypeOK == TypeOK /\ SleepersHaveTries /\ [Next]_vars => TypeOK'
<1>. SUFFICES ASSUME TypeOK, SleepersHaveTries, [Next]_vars PROVE TypeOK'
  OBVIOUS
<1>. USE PairingAssumption DEF TypeOK, Statuses, Running, Clients
<1>1. ASSUME NEW f \in Flows, StartPairing(f) PROVE TypeOK'
  BY <1>1 DEF StartPairing, flow, display, loops, library
<1>2. ASSUME NEW f \in Flows, Expire(f) PROVE TypeOK'
  BY <1>2 DEF Expire, flow, display, loops, library
<1>3. ASSUME NEW f \in Flows, ReceiveQR(f) PROVE TypeOK'
  BY <1>3 DEF ReceiveQR, Goto, flow, display, loops, library
<1>4. ASSUME NEW f \in Flows, Enter(f) PROVE TypeOK'
  BY <1>4 DEF Enter, Goto, Return, SlotFree, flow, display, loops, library
<1>5. ASSUME NEW f \in Flows, ClearDevice(f) PROVE TypeOK'
  BY <1>5 DEF ClearDevice, Goto, GiveUp, Return, Forget, flow, display, loops, library
<1>6. ASSUME NEW f \in Flows, BuildClient(f) PROVE TypeOK'
  BY <1>6 DEF BuildClient, Goto, flow, display, loops, library
<1>7. ASSUME NEW f \in Flows, Connect(f) PROVE TypeOK'
  BY <1>7 DEF Connect, Goto, GiveUp, Return, flow, display, loops, library
<1>8. ASSUME NEW f \in Flows, ShowQR(f) PROVE TypeOK'
  BY <1>8 DEF ShowQR, Goto, flow, display, loops, library
<1>9. ASSUME NEW f \in Flows, EndScan(f) PROVE TypeOK'
  BY <1>9 DEF EndScan, Return, AtTimeout, flow, display, loops, library
<1>10. ASSUME NEW f \in Flows, Settle(f) PROVE TypeOK'
  BY <1>10 DEF Settle, Goto, Return, flow, display, loops, library
<1>11. ASSUME NEW f \in Flows, RequestCode(f) PROVE TypeOK'
  BY <1>11 DEF RequestCode, Goto, GiveUp, Return, flow, display, loops, library
<1>12. ASSUME NEW f \in Flows, Expired(f) PROVE TypeOK'
  BY <1>12 DEF Expired, Return, AtTimeout, TimeIsUp, flow, display, loops, library
<1>13. ASSUME NEW f \in Flows, SeesConnected(f) PROVE TypeOK'
  BY <1>13 DEF SeesConnected, Return, CodeCleared, flow, display, loops, library
<1>14. ASSUME NEW f \in Flows, Pair(f) PROVE TypeOK'
  BY <1>14 DEF Pair, flow, display, loops, library
<1>15. CASE Disconnect
  BY <1>15 DEF Disconnect, DropClient, flow, display, loops, library
<1>16. CASE Logout
  BY <1>16 DEF Logout, DropClient, Forget, flow, display, loops, library
<1>17. CASE Remove
  BY <1>17 DEF Remove, DropClient, flow, display, loops, library
<1>18. CASE HandleEvent
  BY <1>18 DEF HandleEvent, flow, display, loops, library
<1>19. ASSUME NEW c \in Clients, RaiseConnected(c) PROVE TypeOK'
  BY <1>19 DEF RaiseConnected, flow, display, loops, library
<1>20. ASSUME NEW c \in Clients, LoseConnection(c) PROVE TypeOK'
  BY <1>20 DEF LoseConnection, flow, display, loops, library
<1>21. ASSUME NEW c \in Clients, Unlink(c) PROVE TypeOK'
  BY <1>21 DEF Unlink, Forget, flow, display, loops, library
<1>22. ASSUME NEW r \in Loops, Wake(r) PROVE TypeOK'
  BY <1>22 DEF Wake, SleepersHaveTries, flow, display, loops, library
<1>23. ASSUME NEW r \in Loops, ReadDevice(r) PROVE TypeOK'
  BY <1>23 DEF ReadDevice, AfterFailure, flow, display, loops, library
<1>24. ASSUME NEW r \in Loops, Rebuild(r) PROVE TypeOK'
  BY <1>24 DEF Rebuild, flow, display, loops, library
<1>25. ASSUME NEW r \in Loops, Dial(r) PROVE TypeOK'
  BY <1>25 DEF Dial, AfterFailure, flow, display, loops, library
<1>26. CASE UNCHANGED vars
  BY <1>26 DEF vars, flow, display, loops, library
<1>. QED
  BY <1>1, <1>2, <1>3, <1>4, <1>5, <1>6, <1>7, <1>8, <1>9, <1>10, <1>11, <1>12, <1>13, <1>14, <1>15, <1>16, <1>17, <1>18, <1>19, <1>20, <1>21, <1>22, <1>23, <1>24, <1>25, <1>26 DEF Next, Step, Reconnect

\* A loop goes to sleep with an attempt left.
LEMMA NextSleepers == TypeOK /\ SleepersHaveTries /\ [Next]_vars => SleepersHaveTries'
<1>. SUFFICES ASSUME TypeOK, SleepersHaveTries, [Next]_vars PROVE SleepersHaveTries'
  OBVIOUS
<1>. USE PairingAssumption DEF TypeOK, SleepersHaveTries
<1>1. ASSUME NEW f \in Flows, StartPairing(f) PROVE SleepersHaveTries'
  BY <1>1 DEF StartPairing, flow, display, loops, library
<1>2. ASSUME NEW f \in Flows, Expire(f) PROVE SleepersHaveTries'
  BY <1>2 DEF Expire, flow, display, loops, library
<1>3. ASSUME NEW f \in Flows, ReceiveQR(f) PROVE SleepersHaveTries'
  BY <1>3 DEF ReceiveQR, Goto, flow, display, loops, library
<1>4. ASSUME NEW f \in Flows, Enter(f) PROVE SleepersHaveTries'
  BY <1>4 DEF Enter, Goto, Return, SlotFree, flow, display, loops, library
<1>5. ASSUME NEW f \in Flows, ClearDevice(f) PROVE SleepersHaveTries'
  BY <1>5 DEF ClearDevice, Goto, GiveUp, Return, Forget, flow, display, loops, library
<1>6. ASSUME NEW f \in Flows, BuildClient(f) PROVE SleepersHaveTries'
  BY <1>6 DEF BuildClient, Goto, flow, display, loops, library
<1>7. ASSUME NEW f \in Flows, Connect(f) PROVE SleepersHaveTries'
  BY <1>7 DEF Connect, Goto, GiveUp, Return, flow, display, loops, library
<1>8. ASSUME NEW f \in Flows, ShowQR(f) PROVE SleepersHaveTries'
  BY <1>8 DEF ShowQR, Goto, flow, display, loops, library
<1>9. ASSUME NEW f \in Flows, EndScan(f) PROVE SleepersHaveTries'
  BY <1>9 DEF EndScan, Return, AtTimeout, flow, display, loops, library
<1>10. ASSUME NEW f \in Flows, Settle(f) PROVE SleepersHaveTries'
  BY <1>10 DEF Settle, Goto, Return, flow, display, loops, library
<1>11. ASSUME NEW f \in Flows, RequestCode(f) PROVE SleepersHaveTries'
  BY <1>11 DEF RequestCode, Goto, GiveUp, Return, flow, display, loops, library
<1>12. ASSUME NEW f \in Flows, Expired(f) PROVE SleepersHaveTries'
  BY <1>12 DEF Expired, Return, AtTimeout, TimeIsUp, flow, display, loops, library
<1>13. ASSUME NEW f \in Flows, SeesConnected(f) PROVE SleepersHaveTries'
  BY <1>13 DEF SeesConnected, Return, CodeCleared, flow, display, loops, library
<1>14. ASSUME NEW f \in Flows, Pair(f) PROVE SleepersHaveTries'
  BY <1>14 DEF Pair, flow, display, loops, library
<1>15. CASE Disconnect
  BY <1>15 DEF Disconnect, DropClient, flow, display, loops, library
<1>16. CASE Logout
  BY <1>16 DEF Logout, DropClient, Forget, flow, display, loops, library
<1>17. CASE Remove
  BY <1>17 DEF Remove, DropClient, flow, display, loops, library
<1>18. CASE HandleEvent
  BY <1>18 DEF HandleEvent, flow, display, loops, library
<1>19. ASSUME NEW c \in Clients, RaiseConnected(c) PROVE SleepersHaveTries'
  BY <1>19 DEF RaiseConnected, flow, display, loops, library
<1>20. ASSUME NEW c \in Clients, LoseConnection(c) PROVE SleepersHaveTries'
  BY <1>20 DEF LoseConnection, flow, display, loops, library
<1>21. ASSUME NEW c \in Clients, Unlink(c) PROVE SleepersHaveTries'
  BY <1>21 DEF Unlink, Forget, flow, display, loops, library
<1>22. ASSUME NEW r \in Loops, Wake(r) PROVE SleepersHaveTries'
  BY <1>22 DEF Wake, flow, display, loops, library
<1>23. ASSUME NEW r \in Loops, ReadDevice(r) PROVE SleepersHaveTries'
  BY <1>23 DEF ReadDevice, AfterFailure, flow, display, loops, library
<1>24. ASSUME NEW r \in Loops, Rebuild(r) PROVE SleepersHaveTries'
  BY <1>24 DEF Rebuild, flow, display, loops, library
<1>25. ASSUME NEW r \in Loops, Dial(r) PROVE SleepersHaveTries'
  BY <1>25 DEF Dial, AfterFailure, flow, display, loops, library
<1>26. CASE UNCHANGED vars
  BY <1>26 DEF vars, flow, display, loops, library
<1>. QED
  BY <1>1, <1>2, <1>3, <1>4, <1>5, <1>6, <1>7, <1>8, <1>9, <1>10, <1>11, <1>12, <1>13, <1>14, <1>15, <1>16, <1>17, <1>18, <1>19, <1>20, <1>21, <1>22, <1>23, <1>24, <1>25, <1>26 DEF Next, Step, Reconnect

\* A flow enters only when no other runs, and a running one stays the only one.
LEMMA NextOneFlowRuns == TypeOK /\ OneFlowRuns /\ [Next]_vars => OneFlowRuns'
<1>. SUFFICES ASSUME TypeOK, OneFlowRuns, [Next]_vars PROVE OneFlowRuns'
  OBVIOUS
<1>. USE PairingAssumption DEF TypeOK, OneFlowRuns, Running
<1>1. ASSUME NEW f \in Flows, StartPairing(f) PROVE OneFlowRuns'
  BY <1>1 DEF StartPairing, flow, display, loops, library
<1>2. ASSUME NEW f \in Flows, Expire(f) PROVE OneFlowRuns'
  BY <1>2 DEF Expire, flow, display, loops, library
<1>3. ASSUME NEW f \in Flows, ReceiveQR(f) PROVE OneFlowRuns'
  BY <1>3 DEF ReceiveQR, Goto, flow, display, loops, library
<1>4. ASSUME NEW f \in Flows, Enter(f) PROVE OneFlowRuns'
  BY <1>4 DEF Enter, Goto, Return, SlotFree, flow, display, loops, library
<1>5. ASSUME NEW f \in Flows, ClearDevice(f) PROVE OneFlowRuns'
  BY <1>5 DEF ClearDevice, Goto, GiveUp, Return, Forget, flow, display, loops, library
<1>6. ASSUME NEW f \in Flows, BuildClient(f) PROVE OneFlowRuns'
  BY <1>6 DEF BuildClient, Goto, flow, display, loops, library
<1>7. ASSUME NEW f \in Flows, Connect(f) PROVE OneFlowRuns'
  BY <1>7 DEF Connect, Goto, GiveUp, Return, flow, display, loops, library
<1>8. ASSUME NEW f \in Flows, ShowQR(f) PROVE OneFlowRuns'
  BY <1>8 DEF ShowQR, Goto, flow, display, loops, library
<1>9. ASSUME NEW f \in Flows, EndScan(f) PROVE OneFlowRuns'
  BY <1>9 DEF EndScan, Return, AtTimeout, flow, display, loops, library
<1>10. ASSUME NEW f \in Flows, Settle(f) PROVE OneFlowRuns'
  BY <1>10 DEF Settle, Goto, Return, flow, display, loops, library
<1>11. ASSUME NEW f \in Flows, RequestCode(f) PROVE OneFlowRuns'
  BY <1>11 DEF RequestCode, Goto, GiveUp, Return, flow, display, loops, library
<1>12. ASSUME NEW f \in Flows, Expired(f) PROVE OneFlowRuns'
  BY <1>12 DEF Expired, Return, AtTimeout, TimeIsUp, flow, display, loops, library
<1>13. ASSUME NEW f \in Flows, SeesConnected(f) PROVE OneFlowRuns'
  BY <1>13 DEF SeesConnected, Return, CodeCleared, flow, display, loops, library
<1>14. ASSUME NEW f \in Flows, Pair(f) PROVE OneFlowRuns'
  BY <1>14 DEF Pair, flow, display, loops, library
<1>15. CASE Disconnect
  BY <1>15 DEF Disconnect, DropClient, flow, display, loops, library
<1>16. CASE Logout
  BY <1>16 DEF Logout, DropClient, Forget, flow, display, loops, library
<1>17. CASE Remove
  BY <1>17 DEF Remove, DropClient, flow, display, loops, library
<1>18. CASE HandleEvent
  BY <1>18 DEF HandleEvent, flow, display, loops, library
<1>19. ASSUME NEW c \in Clients, RaiseConnected(c) PROVE OneFlowRuns'
  BY <1>19 DEF RaiseConnected, flow, display, loops, library
<1>20. ASSUME NEW c \in Clients, LoseConnection(c) PROVE OneFlowRuns'
  BY <1>20 DEF LoseConnection, flow, display, loops, library
<1>21. ASSUME NEW c \in Clients, Unlink(c) PROVE OneFlowRuns'
  BY <1>21 DEF Unlink, Forget, flow, display, loops, library
<1>22. ASSUME NEW r \in Loops, Wake(r) PROVE OneFlowRuns'
  BY <1>22 DEF Wake, flow, display, loops, library
<1>23. ASSUME NEW r \in Loops, ReadDevice(r) PROVE OneFlowRuns'
  BY <1>23 DEF ReadDevice, AfterFailure, flow, display, loops, library
<1>24. ASSUME NEW r \in Loops, Rebuild(r) PROVE OneFlowRuns'
  BY <1>24 DEF Rebuild, flow, display, loops, library
<1>25. ASSUME NEW r \in Loops, Dial(r) PROVE OneFlowRuns'
  BY <1>25 DEF Dial, AfterFailure, flow, display, loops, library
<1>26. CASE UNCHANGED vars
  BY <1>26 DEF vars, flow, display, loops, library
<1>. QED
  BY <1>1, <1>2, <1>3, <1>4, <1>5, <1>6, <1>7, <1>8, <1>9, <1>10, <1>11, <1>12, <1>13, <1>14, <1>15, <1>16, <1>17, <1>18, <1>19, <1>20, <1>21, <1>22, <1>23, <1>24, <1>25, <1>26 DEF Next, Step, Reconnect

\* A code is set by the flow that goes on to wait, and cleared by each way out of the
\* wait and by the start of another flow.
LEMMA NextCodeIsServed == IInv /\ [Next]_vars => CodeIsServed'
<1>. SUFFICES ASSUME TypeOK, OneFlowRuns, CodeIsServed, [Next]_vars PROVE CodeIsServed'
  BY DEF IInv
<1>. USE PairingAssumption DEF TypeOK, OneFlowRuns, CodeIsServed, Running
<1>1. ASSUME NEW f \in Flows, StartPairing(f) PROVE CodeIsServed'
  BY <1>1 DEF StartPairing, flow, display, loops, library
<1>2. ASSUME NEW f \in Flows, Expire(f) PROVE CodeIsServed'
  BY <1>2 DEF Expire, flow, display, loops, library
<1>3. ASSUME NEW f \in Flows, ReceiveQR(f) PROVE CodeIsServed'
  BY <1>3 DEF ReceiveQR, Goto, flow, display, loops, library
<1>4. ASSUME NEW f \in Flows, Enter(f) PROVE CodeIsServed'
  BY <1>4 DEF Enter, Goto, Return, SlotFree, flow, display, loops, library
<1>5. ASSUME NEW f \in Flows, ClearDevice(f) PROVE CodeIsServed'
  BY <1>5 DEF ClearDevice, Goto, GiveUp, Return, Forget, flow, display, loops, library
<1>6. ASSUME NEW f \in Flows, BuildClient(f) PROVE CodeIsServed'
  BY <1>6 DEF BuildClient, Goto, flow, display, loops, library
<1>7. ASSUME NEW f \in Flows, Connect(f) PROVE CodeIsServed'
  BY <1>7 DEF Connect, Goto, GiveUp, Return, flow, display, loops, library
<1>8. ASSUME NEW f \in Flows, ShowQR(f) PROVE CodeIsServed'
  BY <1>8 DEF ShowQR, Goto, flow, display, loops, library
<1>9. ASSUME NEW f \in Flows, EndScan(f) PROVE CodeIsServed'
  BY <1>9 DEF EndScan, Return, AtTimeout, flow, display, loops, library
<1>10. ASSUME NEW f \in Flows, Settle(f) PROVE CodeIsServed'
  BY <1>10 DEF Settle, Goto, Return, flow, display, loops, library
<1>11. ASSUME NEW f \in Flows, RequestCode(f) PROVE CodeIsServed'
  BY <1>11 DEF RequestCode, Goto, GiveUp, Return, flow, display, loops, library
<1>12. ASSUME NEW f \in Flows, Expired(f) PROVE CodeIsServed'
  BY <1>12 DEF Expired, Return, AtTimeout, TimeIsUp, flow, display, loops, library
<1>13. ASSUME NEW f \in Flows, SeesConnected(f) PROVE CodeIsServed'
  BY <1>13 DEF SeesConnected, Return, CodeCleared, flow, display, loops, library
<1>14. ASSUME NEW f \in Flows, Pair(f) PROVE CodeIsServed'
  BY <1>14 DEF Pair, flow, display, loops, library
<1>15. CASE Disconnect
  BY <1>15 DEF Disconnect, DropClient, flow, display, loops, library
<1>16. CASE Logout
  BY <1>16 DEF Logout, DropClient, Forget, flow, display, loops, library
<1>17. CASE Remove
  BY <1>17 DEF Remove, DropClient, flow, display, loops, library
<1>18. CASE HandleEvent
  BY <1>18 DEF HandleEvent, flow, display, loops, library
<1>19. ASSUME NEW c \in Clients, RaiseConnected(c) PROVE CodeIsServed'
  BY <1>19 DEF RaiseConnected, flow, display, loops, library
<1>20. ASSUME NEW c \in Clients, LoseConnection(c) PROVE CodeIsServed'
  BY <1>20 DEF LoseConnection, flow, display, loops, library
<1>21. ASSUME NEW c \in Clients, Unlink(c) PROVE CodeIsServed'
  BY <1>21 DEF Unlink, Forget, flow, display, loops, library
<1>22. ASSUME NEW r \in Loops, Wake(r) PROVE CodeIsServed'
  BY <1>22 DEF Wake, flow, display, loops, library
<1>23. ASSUME NEW r \in Loops, ReadDevice(r) PROVE CodeIsServed'
  BY <1>23 DEF ReadDevice, AfterFailure, flow, display, loops, library
<1>24. ASSUME NEW r \in Loops, Rebuild(r) PROVE CodeIsServed'
  BY <1>24 DEF Rebuild, flow, display, loops, library
<1>25. ASSUME NEW r \in Loops, Dial(r) PROVE CodeIsServed'
  BY <1>25 DEF Dial, AfterFailure, flow, display, loops, library
<1>26. CASE UNCHANGED vars
  BY <1>26 DEF vars, flow, display, loops, library
<1>. QED
  BY <1>1, <1>2, <1>3, <1>4, <1>5, <1>6, <1>7, <1>8, <1>9, <1>10, <1>11, <1>12, <1>13, <1>14, <1>15, <1>16, <1>17, <1>18, <1>19, <1>20, <1>21, <1>22, <1>23, <1>24, <1>25, <1>26 DEF Next, Step, Reconnect

LEMMA Inductive == Spec => []IInv
<1>1. Init => IInv
  BY InitTypeOK, PairingAssumption
  DEF Init, IInv, SleepersHaveTries, OneFlowRuns, CodeIsServed, Running
<1>2. IInv /\ [Next]_vars => IInv'
  BY NextTypeOK, NextSleepers, NextOneFlowRuns, NextCodeIsServed DEF IInv
<1>. QED
  BY <1>1, <1>2, PTL DEF Spec

\* Every variable keeps its type.
THEOREM PairingTypeCorrect == Spec => []TypeOK
<1>1. IInv => TypeOK
  BY DEF IInv
<1>. QED
  BY <1>1, Inductive, PTL

\* A pairing code on display belongs to a flow that waits for it, alone: no code
\* outlives its flow, whatever is started, cancelled or timed out meanwhile.
THEOREM ShownCodeIsServed == Spec => []CodeIsServed
<1>1. IInv => CodeIsServed
  BY DEF IInv
<1>. QED
  BY <1>1, Inductive, PTL
=============================================================================
