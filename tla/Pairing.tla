------------------------------ MODULE Pairing ------------------------------
(***************************************************************************)
(* One shop's WhatsApp Manager (whatsapp/manager.go): pairing by QR code  *)
(* or by phone code, the connection's status, reconnection, disconnect,   *)
(* logout, and the registry's removal of the manager.                     *)
(*                                                                         *)
(* m.mu makes each critical section atomic; between two of them anything  *)
(* may happen.  pairingMu lets one pairing flow run at a time.  The       *)
(* handlers of all clients ever built write the same status.              *)
(*                                                                         *)
(* The WhatsApp library is external: a client has a socket and a device,  *)
(* and raises events when it logs in, loses its socket or is unlinked.    *)
(* An event is raised in one step and handled in a later one, after       *)
(* whatever held m.mu in between.  A client bears the name of the         *)
(* goroutine that built it.                                               *)
(***************************************************************************)
EXTENDS Naturals, FiniteSets

CONSTANTS
    Flows,       \* calls of StartPairing and StartPhonePairing
    PhoneFlows,  \* the latter
    Loops,       \* reconnect goroutines alive at once
    Nobody,      \* no client, no flow
    MaxTries,    \* attempts of reconnect, 5 in the code
    MaxLosses    \* bound on lost connections

ASSUME PairingAssumption ==
    /\ PhoneFlows \subseteq Flows
    /\ Flows \cap Loops = {}
    /\ Nobody \notin Flows \cup Loops
    /\ MaxTries \in Nat \ {0}
    /\ MaxLosses \in Nat

VARIABLES
    client,      \* m.client
    status,      \* m.status
    qr, code,    \* the flow whose lastQR and lastPairCode are on display
    pc,          \* where each flow is
    live,        \* flows whose context is neither cancelled nor expired
    loop,        \* where each reconnect goroutine is
    tries,       \* attempts it has left
    device,      \* the shop's session file holds a paired device
    auth,        \* clients whose device is that one
    up,          \* clients whose socket is open
    event,       \* the event some client has raised and handleEvent has not handled;
                 \* bound: one at a time
    losses,      \* connections lost so far
    registered   \* the registry still has the manager

Clients == Flows \cup Loops

display == <<qr, code>>
flow    == <<pc, live>>
loops   == <<loop, tries>>
library == <<device, auth, up, event, losses>>
vars    == <<client, status, display, flow, loops, library, registered>>

Statuses == {"disconnected", "connecting", "connected", "logged_out"}
Running == {"device", "build", "connect", "scan", "encode", "settle", "request", "wait"}

\* NewManager, and ConnectAll's goroutine when the shop has a session file: one
\* ConnectExisting, not repeated.
Init ==
    /\ client = Nobody /\ status = "disconnected"
    /\ qr = Nobody /\ code = Nobody
    /\ live = {}
    /\ pc = [f \in Flows |-> "unused"]
    /\ device \in BOOLEAN
    /\ loop \in {[r \in Loops |-> "idle"]} \cup
                {[r \in Loops |-> IF r = s THEN "read" ELSE "idle"] : s \in Loops}
    /\ tries = [r \in Loops |-> 0]
    /\ auth = {} /\ up = {}
    /\ event = "none"
    /\ losses = 0
    /\ registered = TRUE

-----------------------------------------------------------------------------
(* The merchant, and the registry.                                         *)

\* StartPairing and StartPhonePairing, up to the goroutine they start.  m.pairCancel
\* cancels the newest flow; the ones before it were cancelled when that one started.
StartPairing(f) ==
    /\ registered
    /\ pc[f] = "unused"
    /\ live' = {f}
    /\ qr' = Nobody /\ code' = Nobody
    /\ status' = "connecting"
    /\ pc' = [pc EXCEPT ![f] = "queued"]
    /\ UNCHANGED <<client, loops, library, registered>>

\* m.client.Disconnect closes the socket and raises nothing.
DropClient ==
    /\ up' = up \ {client}
    /\ client' = Nobody

Disconnect ==
    /\ registered
    /\ DropClient
    /\ status' = "disconnected"
    /\ UNCHANGED <<display, flow, loops, device, auth, event, losses, registered>>

\* The device is deleted from the session file.
Forget == device' = FALSE /\ auth' = {}

\* Logout returns at an error of the library's, which needs a logged-in client.
Logout ==
    /\ registered
    /\ \/ client = Nobody /\ UNCHANGED <<device, auth>>
       \/ client \in up \cap auth /\ Forget
    /\ DropClient
    /\ status' = "logged_out"
    /\ UNCHANGED <<display, flow, loops, event, losses, registered>>

\* Registry.Remove: on uninstall, on a shop's redaction, by an administrator.
Remove ==
    /\ registered
    /\ registered' = FALSE
    /\ DropClient
    /\ status' = "disconnected"
    /\ UNCHANGED <<display, flow, loops, device, auth, event, losses>>

-----------------------------------------------------------------------------
(* A pairing flow.                                                         *)

SlotFree == \A f \in Flows : pc[f] \notin Running

Goto(f, l) == pc' = [pc EXCEPT ![f] = l] /\ UNCHANGED live

\* The goroutine returns: pairingMu is unlocked, its own context is cancelled.
Return(f) ==
    /\ pc' = [pc EXCEPT ![f] = "done"]
    /\ live' = live \ {f}

GiveUp(f) ==
    /\ status' = "disconnected"
    /\ Return(f)

\* The three minutes of a flow's context pass.
Expire(f) ==
    /\ f \in live
    /\ live' = live \ {f}
    /\ UNCHANGED <<client, status, display, pc, loops, library, registered>>

\* pairingMu.Lock, then ctx.Err.
Enter(f) ==
    /\ pc[f] = "queued"
    /\ SlotFree
    /\ IF f \in live THEN Goto(f, "device") ELSE Return(f)
    /\ UNCHANGED <<client, status, display, loops, library, registered>>

\* GetFirstDevice, and Delete of a device that is already paired.  A Delete that
\* fails is logged, and GetFirstDevice finds the device again.
ClearDevice(f) ==
    /\ pc[f] = "device"
    /\ \/ Forget /\ Goto(f, "build") /\ UNCHANGED status
       \/ /\ auth' = IF device THEN auth \cup {f} ELSE auth
          /\ Goto(f, "build")
          /\ UNCHANGED <<status, device>>
       \/ GiveUp(f) /\ UNCHANGED <<device, auth>>
    /\ UNCHANGED <<client, display, loops, up, event, losses, registered>>

\* buildClient, and m.client = client: whatever client was there before is neither
\* disconnected nor freed of its event handler.
BuildClient(f) ==
    /\ pc[f] = "build"
    /\ client' = f
    /\ Goto(f, "connect")
    /\ UNCHANGED <<status, display, loops, library, registered>>

\* GetQRChannel, refused for a paired device, and Connect; or Connect alone.
Connect(f) ==
    /\ pc[f] = "connect"
    /\ \/ /\ f \in PhoneFlows \/ f \notin auth
          /\ up' = up \cup {f}
          /\ Goto(f, IF f \in PhoneFlows THEN "settle" ELSE "scan")
          /\ UNCHANGED status
       \/ GiveUp(f) /\ UNCHANGED up
    /\ UNCHANGED <<client, display, loops, device, auth, event, losses, registered>>

\* The loop over qrChan: a code is received and, once encoded, put on display, even
\* if the flow was cancelled in between.  The channel ends with "success", with "timeout", or with an
\* error or a cancelled context, for which the switch has no case.
ReceiveQR(f) ==
    /\ pc[f] = "scan" /\ f \in live
    /\ Goto(f, "encode")
    /\ UNCHANGED <<client, status, display, loops, library, registered>>

ShowQR(f) ==
    /\ pc[f] = "encode"
    /\ \/ qr' = f /\ status' = "connecting"
       \/ UNCHANGED <<qr, status>>          \* qrcode.Encode fails: continue
    /\ Goto(f, "scan")
    /\ UNCHANGED <<client, code, loops, library, registered>>

\* The status a flow leaves behind when its time is up.
AtTimeout == IF status = "connected" THEN status ELSE "disconnected"

EndScan(f) ==
    /\ pc[f] = "scan"
    /\ \/ /\ f \in auth
          /\ qr' = Nobody /\ status' = "connected"
          /\ UNCHANGED up
       \/ /\ qr' = Nobody /\ status' = AtTimeout
          /\ up' = up \ {f}
       \/ /\ UNCHANGED <<qr, status>>
          /\ up' \in {up, up \ {f}}
    /\ Return(f)
    /\ UNCHANGED <<client, code, loops, device, auth, event, losses, registered>>

\* The wait for the socket, left early when the context is done.
Settle(f) ==
    /\ pc[f] = "settle"
    /\ \/ Goto(f, "request")
       \/ f \notin live /\ Return(f)
    /\ UNCHANGED <<client, status, display, loops, library, registered>>

\* PairPhone, which may answer after its flow was cancelled.
RequestCode(f) ==
    /\ pc[f] = "request"
    /\ \/ /\ code' = f /\ status' = "connecting"
          /\ Goto(f, "wait")
          /\ UNCHANGED up
       \/ /\ up' = up \ {f}
          /\ GiveUp(f)
          /\ UNCHANGED code
    /\ UNCHANGED <<client, qr, loops, device, auth, event, losses, registered>>

\* The context of a flow is done; preceded by a mutated form.
NeverTimesOut(f) == FALSE
TimeIsUp(f) == f \notin live

\* lastPairCode once the flow has seen the connection; preceded by a mutated form.
CodeKept == code
CodeCleared == Nobody

\* The wait for the merchant to type the code: until the context is done, or a tick
\* sees the status "connected".
Expired(f) ==
    /\ pc[f] = "wait"
    /\ TimeIsUp(f)
    /\ code' = Nobody
    /\ status' = AtTimeout
    /\ Return(f)
    /\ UNCHANGED <<client, qr, loops, library, registered>>

SeesConnected(f) ==
    /\ pc[f] = "wait"
    /\ status = "connected"
    /\ code' = CodeCleared
    /\ Return(f)
    /\ UNCHANGED <<client, status, qr, loops, library, registered>>

Step(f) ==
    \/ Enter(f) \/ ClearDevice(f) \/ BuildClient(f) \/ Connect(f)
    \/ ShowQR(f) \/ EndScan(f) \/ Settle(f) \/ RequestCode(f)
    \/ Expired(f) \/ SeesConnected(f)

-----------------------------------------------------------------------------
(* The library's clients, and handleEvent.                                 *)

\* The merchant scans the code or types it in.  Bound: the session file holds one
\* paired device.
Pair(f) ==
    /\ f \in up /\ ~device
    /\ pc[f] \in {"scan", "encode", "wait", "done"}
    /\ device' = TRUE
    /\ auth' = {f}
    /\ UNCHANGED <<client, status, display, flow, loops, up, event, losses, registered>>

RaiseConnected(c) ==
    /\ c \in up \cap auth /\ event = "none"
    /\ event' = "Connected"
    /\ UNCHANGED <<client, status, display, flow, loops, device, auth, up, losses, registered>>

\* The connection breaks; the library may have restored it by itself before the
\* event is handled.
LoseConnection(c) ==
    /\ c \in up /\ event = "none" /\ losses < MaxLosses
    /\ losses' = losses + 1
    /\ up' \in {up, up \ {c}}
    /\ event' = "Disconnected"
    /\ UNCHANGED <<client, status, display, flow, loops, device, auth, registered>>

\* The merchant unlinks the device on the phone.
Unlink(c) ==
    /\ c \in up \cap auth /\ event = "none"
    /\ Forget
    /\ up' = up \ {c}
    /\ event' = "LoggedOut"
    /\ UNCHANGED <<client, status, display, flow, loops, losses, registered>>

\* handleEvent: no look at which client the event is from.
HandleEvent ==
    /\ event # "none"
    /\ event' = "none"
    /\ \/ /\ event = "Connected" /\ status' = "connected"
          /\ UNCHANGED <<loop, tries>>
       \/ /\ event = "LoggedOut" /\ status' = "logged_out"
          /\ UNCHANGED <<loop, tries>>
       \/ /\ event = "Disconnected" /\ status' = "disconnected"
          /\ \E r \in Loops : /\ loop[r] = "idle"
                              /\ loop' = [loop EXCEPT ![r] = "sleep"]
                              /\ tries' = [tries EXCEPT ![r] = MaxTries]
    /\ UNCHANGED <<client, display, flow, device, auth, up, losses, registered>>

-----------------------------------------------------------------------------
(* reconnect and ConnectExisting.                                          *)

\* The next attempt of a loop whose last one failed, if it has one; preceded by a
\* mutated form.
AfterFailureAgain(r) == [loop EXCEPT ![r] = "sleep"]
AfterFailure(r) == [loop EXCEPT ![r] = IF tries[r] > 0 THEN "sleep" ELSE "idle"]

Wake(r) ==
    /\ loop[r] = "sleep"
    /\ tries' = [tries EXCEPT ![r] = @ - 1]
    /\ loop' = [loop EXCEPT ![r] = IF status = "connected" THEN "idle" ELSE "read"]
    /\ UNCHANGED <<client, status, display, flow, library, registered>>

\* GetFirstDevice.  The client the same goroutine built before is lost sight of.
ReadDevice(r) ==
    /\ loop[r] = "read"
    /\ IF device
       THEN /\ loop' = [loop EXCEPT ![r] = "build"]
            /\ auth' = auth \cup {r}
            /\ up' = up \ {r}
       ELSE /\ loop' = AfterFailure(r)
            /\ UNCHANGED <<auth, up>>
    /\ UNCHANGED <<client, status, display, flow, tries, device, event, losses, registered>>

Rebuild(r) ==
    /\ loop[r] = "build"
    /\ client' = r
    /\ status' = "connecting"
    /\ loop' = [loop EXCEPT ![r] = "dial"]
    /\ UNCHANGED <<display, flow, tries, library, registered>>

Dial(r) ==
    /\ loop[r] = "dial"
    /\ \/ /\ up' = up \cup {r}
          /\ loop' = [loop EXCEPT ![r] = "idle"]
          /\ UNCHANGED status
       \/ /\ status' = "disconnected"
          /\ loop' = AfterFailure(r)
          /\ UNCHANGED up
    /\ UNCHANGED <<client, display, flow, tries, device, auth, event, losses, registered>>

Reconnect(r) == ReadDevice(r) \/ Rebuild(r) \/ Dial(r)

-----------------------------------------------------------------------------
Next ==
    \/ \E f \in Flows : StartPairing(f) \/ Expire(f) \/ ReceiveQR(f) \/ Step(f) \/ Pair(f)
    \/ Disconnect \/ Logout \/ Remove
    \/ \E c \in Clients :
          \/ RaiseConnected(c) \/ LoseConnection(c)
          \/ Unlink(c)
    \/ HandleEvent
    \/ \E r \in Loops : Wake(r) \/ Reconnect(r)

\* The scheduler runs the flows' goroutines, a context expires after its three
\* minutes, and the library answers a flow: the channel closes once the context is
\* done, PairPhone returns.
Fairness == \A f \in Flows : WF_vars(Step(f)) /\ WF_vars(Expire(f))

Spec == Init /\ [][Next]_vars /\ Fairness

-----------------------------------------------------------------------------
\* Types; the attempts of a reconnect loop stay within their bound.
TypeOK ==
    /\ client \in Clients \cup {Nobody} /\ status \in Statuses
    /\ qr \in Flows \cup {Nobody} /\ code \in Flows \cup {Nobody}
    /\ pc \in [Flows -> Running \cup {"unused", "queued", "done"}] /\ live \subseteq Flows
    /\ loop \in [Loops -> {"idle", "sleep", "read", "build", "dial"}]
    /\ tries \in [Loops -> 0..MaxTries]
    /\ device \in BOOLEAN /\ auth \subseteq Clients /\ up \subseteq Clients
    /\ event \in {"none", "Connected", "Disconnected", "LoggedOut"}
    /\ losses \in 0..MaxLosses /\ registered \in BOOLEAN

\* A pairing code on display can be typed in: its flow still waits for the merchant,
\* and no other flow runs.
CodeIsServed ==
    code # Nobody =>
        /\ pc[code] = "wait"
        /\ \A f \in Flows \ {code} : pc[f] \notin Running

\* Every pairing flow ends and lets the next one in: none waits for ever for the
\* merchant, for the library or for the flow before it.
FlowsEnd == \A f \in Flows : pc[f] = "queued" ~> pc[f] = "done"
=============================================================================
