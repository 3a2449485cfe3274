----------------------------- MODULE AskContract -----------------------------
(***************************************************************************)
(* What POST /ask promises its clients, whatever goes on inside: at most   *)
(* Capacity questions are served at a time, a question waits or is refused *)
(* only while that many are being served, and a question that was answered *)
(* had its result and its execution trace recorded before.  Answers and    *)
(* refusals are final.                                                     *)
(***************************************************************************)
EXTENDS Naturals, FiniteSets

CONSTANTS Requests,    \* finite
          Capacity     \* positive

VARIABLES status,     \* how far a request has come
          recorded    \* the requests whose result and trace can be looked up

contractVars == <<status, recorded>>

Final == {"rejected", "refused", "answered", "failed"}
Status == {"new", "waiting", "serving"} \cup Final

WithStatus(s) == {r \in Requests : status[r] = s}
Full == Cardinality(WithStatus("serving")) = Capacity

ContractInit == /\ status = [r \in Requests |-> "new"]
                /\ recorded = {}

Become(r, s) == /\ status' = [status EXCEPT ![r] = s]
                /\ UNCHANGED recorded

Reject(r) == status[r] = "new" /\ Become(r, "rejected")
Admit(r) == status[r] = "new" /\ ~Full /\ Become(r, "serving")
Wait(r) == status[r] = "new" /\ Full /\ Become(r, "waiting")
Refuse(r) == status[r] = "waiting" /\ Full /\ Become(r, "refused")
GiveUp(r) == status[r] = "waiting" /\ Become(r, "failed")

Record(r) == /\ status[r] = "serving"
             /\ recorded' = recorded \cup {r}
             /\ UNCHANGED status

\* A question that ends makes room for one that waits, if there is one.
Finish(r, s) ==
    /\ status[r] = "serving"
    /\ s = "answered" => r \in recorded
    /\ \/ /\ WithStatus("waiting") = {}
          /\ status' = [status EXCEPT ![r] = s]
       \/ \E w \in WithStatus("waiting") :
             status' = [status EXCEPT ![r] = s, ![w] = "serving"]
    /\ UNCHANGED recorded

\* The server is restarted: every open question is lost, and the records with
\* it unless the disk survives.
Outage == /\ status' = [r \in Requests |-> IF status[r] \in {"waiting", "serving"}
                                           THEN "failed" ELSE status[r]]
          /\ recorded' \in {recorded, {}}

ContractNext ==
    \/ \E r \in Requests : \/ Reject(r) \/ Admit(r) \/ Wait(r) \/ Refuse(r)
                           \/ GiveUp(r) \/ Record(r)
                           \/ \E s \in {"answered", "failed"} : Finish(r, s)
    \/ Outage

ContractSpec == ContractInit /\ [][ContractNext]_contractVars

=============================================================================
