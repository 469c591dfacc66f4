---------------------------- MODULE HdlcSession ----------------------------
(***************************************************************************)
(* What HDLC promises above the frames: in one session requests are        *)
(* handled one after the other, none a second time, and an answer is       *)
(* delivered only after its request was handled.  A session may be broken  *)
(* at any time.                                                            *)
(***************************************************************************)
EXTENDS Naturals

VARIABLES
    handled,    \* requests of this session the server has handled
    answered    \* answers of this session the client has taken

sessionVars == <<handled, answered>>

Init == handled = 0 /\ answered = 0

Handle  == handled = answered /\ handled' = handled + 1 /\ UNCHANGED answered
Deliver == handled = answered + 1 /\ answered' = handled /\ UNCHANGED handled
Break   == handled' = 0 /\ answered' = 0

Next == Handle \/ Deliver \/ Break

Spec == Init /\ [][Next]_sessionVars
=============================================================================
