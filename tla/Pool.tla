--------------------------------- MODULE Pool ---------------------------------
(***************************************************************************)
(* What LoadBalancer promises about the backends it is given, without its  *)
(* vectors, locks, indices and generations.  A backend enters, serves,     *)
(* leaves and is shut down, in that order and once.  One admin operation   *)
(* runs at a time and never beside a dial; a connection may outlive the    *)
(* backend it was dialed on.                                               *)
(***************************************************************************)
CONSTANTS Backend, Caller, NoBackend

VARIABLES
    place,  \* where each backend is in its life
    dials,  \* the backend each caller's dial in progress uses
    conns   \* the backend each caller's open connection is on

vars == <<place, dials, conns>>

Place == {"fresh", "entering", "serving", "leaving", "down", "dropped"}

At(p) == {b \in Backend : place[b] = p}

\* Every backend of S is now at p.
Move(S, p) == place' = [b \in Backend |-> IF b \in S THEN p ELSE place[b]]

Init ==
    /\ place \in [Backend -> {"fresh", "serving"}]
    /\ dials = [c \in Caller |-> NoBackend]
    /\ conns = [c \in Caller |-> NoBackend]

-----------------------------------------------------------------------------
(* Callers.                                                                *)

DialOn(c, b) ==
    /\ dials[c] = NoBackend /\ conns[c] = NoBackend
    /\ place[b] = "serving"
    /\ dials' = [dials EXCEPT ![c] = b]
    /\ UNCHANGED <<place, conns>>

Connect(c) ==
    /\ dials[c] # NoBackend
    /\ conns' = [conns EXCEPT ![c] = dials[c]]
    /\ dials' = [dials EXCEPT ![c] = NoBackend]
    /\ UNCHANGED place

\* The dial failed or was abandoned.
GiveUp(c) ==
    /\ dials[c] # NoBackend
    /\ dials' = [dials EXCEPT ![c] = NoBackend]
    /\ UNCHANGED <<place, conns>>

Close(c) ==
    /\ conns[c] # NoBackend
    /\ conns' = [conns EXCEPT ![c] = NoBackend]
    /\ UNCHANGED <<place, dials>>

-----------------------------------------------------------------------------
(* The administrator.                                                      *)

NoDials == \A c \in Caller : dials[c] = NoBackend

\* An operation takes new backends in, or serving ones out, or both, once the
\* previous one has let go of all of its own.
TakeIn(in) ==
    /\ NoDials /\ At("entering") = {} /\ At("leaving") = {}
    /\ Move(in, "entering")
    /\ UNCHANGED <<dials, conns>>

TakeOut(out) ==
    /\ NoDials /\ At("entering") = {} /\ At("leaving") = {}
    /\ Move(out, "leaving")
    /\ UNCHANGED <<dials, conns>>

Exchange(in) ==
    /\ NoDials /\ At("entering") = {} /\ At("leaving") = {}
    /\ place' = [b \in Backend |-> IF b \in in THEN "entering"
                                   ELSE IF place[b] = "serving" THEN "leaving" ELSE place[b]]
    /\ UNCHANGED <<dials, conns>>

ShutDown(b) ==
    /\ NoDials
    /\ place[b] = "leaving"
    /\ Move({b}, "down")
    /\ UNCHANGED <<dials, conns>>

\* New backends serve together, and only after the old ones are shut down.
Install ==
    /\ NoDials /\ At("leaving") = {}
    /\ Move(At("entering"), "serving")
    /\ UNCHANGED <<dials, conns>>

\* The operation is abandoned: what it holds is dropped without a shutdown.
Abandon ==
    /\ NoDials
    /\ Move(At("entering") \cup At("leaving"), "dropped")
    /\ UNCHANGED <<dials, conns>>

-----------------------------------------------------------------------------

Next ==
    \/ \E c \in Caller : Connect(c) \/ GiveUp(c) \/ Close(c) \/ \E b \in Backend : DialOn(c, b)
    \/ \E S \in SUBSET At("fresh") : TakeIn(S) \/ Exchange(S)
    \/ \E S \in SUBSET At("serving") : TakeOut(S)
    \/ \E b \in Backend : ShutDown(b)
    \/ Install \/ Abandon

Spec == Init /\ [][Next]_vars
===============================================================================
