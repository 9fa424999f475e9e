----------------------------- MODULE PortAccess -----------------------------
(***************************************************************************)
(* What the 802.1X authenticator promises about the controlled port of one *)
(* station, whatever its state machines do inside: the port opens on       *)
(* nothing but the Access-Accept that answers the latest Access-Request,   *)
(* and once a request has been rejected no further one is asked while the  *)
(* port is still open.  EapolSm implements this specification.             *)
(***************************************************************************)

VARIABLES
  port,     \* sm->portStatus
  verdict   \* the server's timely answer to the latest request, or "none"

Codes == {"ACCEPT", "REJECT", "CHALLENGE"}

TypeOK ==
  /\ port \in {"Unauthorized", "Authorized"}
  /\ verdict \in Codes \cup {"none"}

Init == port = "Unauthorized" /\ verdict = "none"

\* A new authentication or a new request makes the last answer worthless.  The
\* port may stay open meanwhile (reauthentication), but not after a reject.
Ask ==
  /\ verdict = "REJECT" => port = "Unauthorized"
  /\ verdict' = "none"
  /\ UNCHANGED port

\* A request has at most one answer.
Answer ==
  /\ verdict = "none"
  /\ verdict' \in Codes
  /\ UNCHANGED port

Grant ==
  /\ verdict = "ACCEPT"
  /\ port' = "Authorized"
  /\ UNCHANGED verdict

\* Reject, logoff, too many attempts.
Revoke == port' = "Unauthorized" /\ UNCHANGED verdict

\* The station is freed.
Leave == port' = "Unauthorized" /\ verdict' = "none"

Next == Ask \/ Answer \/ Grant \/ Revoke \/ Leave

Spec == Init /\ [][Next]_<<port, verdict>>
=============================================================================
