-------------------------- MODULE AdmissionService --------------------------
(***************************************************************************)
(* What a request handler may rely on when it calls Decide on the          *)
(* admission service (the admissionService interface of                    *)
(* internal/app/server/admission_runtime.go): every call is answered once, *)
(* an answer either admits and hands over a reservation, or refuses and    *)
(* leaves none behind, and a service that has been closed admits nobody.   *)
(* How the calls are ordered, delayed or cut short is the implementation's *)
(* affair.                                                                 *)
(***************************************************************************)
CONSTANT Requests

VARIABLES
    call,       \* request -> how far its Decide call has come
    held,       \* the requests that own a live reservation
    open        \* Close has not yet closed the controller

vars == <<call, held, open>>

Calls == {"idle", "waiting", "admitted", "refused"}

Init ==
    /\ call = [r \in Requests |-> "idle"]
    /\ held = {}
    /\ open = TRUE

Ask(r) ==
    /\ call[r] = "idle"
    /\ call' = [call EXCEPT ![r] = "waiting"]
    /\ UNCHANGED <<held, open>>

Admit(r) ==
    /\ call[r] = "waiting" /\ open
    /\ call' = [call EXCEPT ![r] = "admitted"]
    /\ held' = held \cup {r}
    /\ UNCHANGED open

Refuse(r) ==
    /\ call[r] = "waiting"
    /\ call' = [call EXCEPT ![r] = "refused"]
    /\ UNCHANGED <<held, open>>

\* A call may be turned away before anybody else learns of it.
RefuseAtOnce(r) ==
    /\ call[r] = "idle"
    /\ call' = [call EXCEPT ![r] = "refused"]
    /\ UNCHANGED <<held, open>>

\* The request that was admitted ends.
Release(r) ==
    /\ r \in held
    /\ held' = held \ {r}
    /\ UNCHANGED <<call, open>>

\* Closing the controller drops every reservation.
Shut ==
    /\ open
    /\ open' = FALSE
    /\ held' = {}
    /\ UNCHANGED call

Answer(r) == Admit(r) \/ Refuse(r)

Next ==
    \/ \E r \in Requests : Ask(r) \/ RefuseAtOnce(r) \/ Answer(r) \/ Release(r)
    \/ Shut

SafeSpec == Init /\ [][Next]_vars

Spec == SafeSpec /\ \A r \in Requests : WF_vars(Answer(r))
=============================================================================
