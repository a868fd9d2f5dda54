--------------------------- MODULE DeliveryPromise ---------------------------
(***************************************************************************)
(* What the persistent job queue promises for each message, with the      *)
(* goroutines, the database rows and the network left out.  A message is  *)
(* accepted once, is taken by one deliverer at a time, costs one try each *)
(* time it is taken, and each try puts at most one copy of it on the      *)
(* customer's phone.  A message that is done, dead or erased is never     *)
(* taken again; only an erased one may still see the copy of the try that *)
(* was under way when its data was erased.                                *)
(***************************************************************************)
EXTENDS Naturals

CONSTANTS Messages,   \* the messages ever accepted
          MaxTries    \* tries after which a failing message is given up

VARIABLES phase,      \* where each message is in its life
          tries,      \* how many times it was taken
          copies      \* how many copies of it reached the customer

promiseVars == <<phase, tries, copies>>

Phases == {"none", "queued", "taken", "done", "dead", "erased"}

Init ==
    /\ phase = [m \in Messages |-> "none"]
    /\ tries = [m \in Messages |-> 0]
    /\ copies = [m \in Messages |-> 0]

Move(m, from, to) ==
    /\ phase[m] = from
    /\ phase' = [phase EXCEPT ![m] = to]

Accept(m) ==
    /\ Move(m, "none", "queued")
    /\ UNCHANGED <<tries, copies>>

Take(m) ==
    /\ Move(m, "queued", "taken")
    /\ tries' = [tries EXCEPT ![m] = @ + 1]
    /\ UNCHANGED copies

\* One try, at most one copy: a copy always has a try of its own.
Deliver(m) ==
    /\ phase[m] \in {"taken", "erased"}
    /\ copies[m] < tries[m]
    /\ copies' = [copies EXCEPT ![m] = @ + 1]
    /\ UNCHANGED <<phase, tries>>

Finish(m) ==
    /\ Move(m, "taken", "done")
    /\ UNCHANGED <<tries, copies>>

PutBack(m) ==
    /\ Move(m, "taken", "queued")
    /\ UNCHANGED <<tries, copies>>

GiveUp(m) ==
    /\ tries[m] >= MaxTries
    /\ Move(m, "taken", "dead")
    /\ UNCHANGED <<tries, copies>>

\* A data-protection request removes every message of some customers at once.
Erase ==
    /\ \E M \in SUBSET Messages :
          phase' = [m \in Messages |->
                       IF m \in M /\ phase[m] # "none" THEN "erased" ELSE phase[m]]
    /\ UNCHANGED <<tries, copies>>

Next ==
    \/ \E m \in Messages :
          \/ Accept(m) \/ Take(m) \/ Deliver(m)
          \/ Finish(m) \/ PutBack(m) \/ GiveUp(m)
    \/ Erase

Spec == Init /\ [][Next]_promiseVars
=============================================================================
