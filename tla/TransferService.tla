---------------------------- MODULE TransferService ----------------------------
(***************************************************************************)
(* What a caller of the engine is promised.  A request is pending from the *)
(* moment its transfers may be queued until it is answered, once, with     *)
(* "all", "some" or "error".  "all" is answered only when the device has   *)
(* carried out every descriptor of the request; a request that is answered *)
(* otherwise may still be worked on, one that was not accepted never is.   *)
(***************************************************************************)
EXTENDS Naturals

CONSTANTS Reqs, DescsOf

VARIABLES
  status,  \* idle, pending or answered
  answer,  \* none, all, some or error
  work     \* the descriptors of the request that the device has carried out

serviceVars == <<status, answer, work>>

ServiceInit ==
  /\ status = [r \in Reqs |-> "idle"]
  /\ answer = [r \in Reqs |-> "none"]
  /\ work = [r \in Reqs |-> {}]

Accept(r) ==
  /\ status[r] = "idle"
  /\ status' = [status EXCEPT ![r] = "pending"]
  /\ UNCHANGED <<answer, work>>

(* The device works on it, also on what is left of one that was given up.  *)
Work(r) ==
  /\ status[r] = "pending" \/ answer[r] \in {"some", "error"}
  /\ \E k \in 1..DescsOf[r] : work' = [work EXCEPT ![r] = @ \cup {k}]
  /\ UNCHANGED <<status, answer>>

Answer(r, a) ==
  /\ status[r] # "answered"
  /\ a = "all" => work[r] = 1..DescsOf[r]
  /\ status' = [status EXCEPT ![r] = "answered"]
  /\ answer' = [answer EXCEPT ![r] = a]
  /\ UNCHANGED work

ServiceNext ==
  \E r \in Reqs : \/ Accept(r) \/ Work(r)
                  \/ \E a \in {"all", "some", "error"} : Answer(r, a)

ServiceSpec == ServiceInit /\ [][ServiceNext]_serviceVars
=============================================================================
