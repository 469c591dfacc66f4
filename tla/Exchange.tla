------------------------------ MODULE Exchange ------------------------------
(***************************************************************************)
(* What the gateway promises the management centre, without HDLC: it       *)
(* serves one request at a time, and an answer appears only in the step    *)
(* that ends the service of a request, labelled with that request.  A      *)
(* service may also end without an answer, and an answer not yet sent may  *)
(* be wiped; a second answer to one request, or one nobody asked for, may  *)
(* not.                                                                    *)
(***************************************************************************)
CONSTANTS Requests, None

VARIABLES
    serving,   \* None, or the request being served
    answered   \* None, or the request whose answer waits to be sent

exchangeVars == <<serving, answered>>

Init == serving = None /\ answered = None

Take(r) ==
    /\ serving = None
    /\ serving' = r
    /\ UNCHANGED answered

Answer ==
    /\ serving # None
    /\ answered' = serving
    /\ serving' = None

Abandon ==
    /\ serving # None
    /\ serving' = None
    /\ UNCHANGED answered

Wipe ==
    /\ answered' = None
    /\ UNCHANGED serving

Next == (\E r \in Requests : Take(r)) \/ Answer \/ Abandon \/ Wipe

Spec == Init /\ [][Next]_exchangeVars
=============================================================================
