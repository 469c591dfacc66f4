--------------------------- MODULE MCMdmMailbox ---------------------------
(* Values for checking MdmMailbox with TLC. *)
EXTENDS MdmMailbox

S(peers, kinds, patient, push, ignored, losses, n) ==
    [peers |-> peers, kinds |-> kinds, patient |-> patient, push |-> push,
     ignored |-> ignored, drops |-> losses, requests |-> n]

(* Peers alone without losses, then with them, then two ways in at once *)
Mixed == {"cosem", "meter"}
MCScenarios ==
    {S({p}, Mixed, patient, FALSE, FALSE, 0, 3) : p \in Peers, patient \in BOOLEAN}
    \cup {S({p}, {"cosem"}, patient, FALSE, ignored, 2, 2) :
              p \in Peers, patient \in BOOLEAN, ignored \in BOOLEAN}
    \cup {S({p}, Mixed, TRUE, FALSE, TRUE, 1, 2) : p \in Peers}
    \cup {S(Peers, {"cosem"}, TRUE, FALSE, ignored, 1, 1) : ignored \in BOOLEAN}
    \cup {S({"client"}, {"cosem"}, FALSE, TRUE, TRUE, 1, 1)}
=============================================================================
