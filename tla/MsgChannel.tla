----------------------------- MODULE MsgChannel -----------------------------
(***************************************************************************)
(* What a link promises in one direction: the messages that were queued at *)
(* one end come out at the other, in order, once, whole, or not at all     *)
(* when an end goes down; and a stop signal holds back what is queued      *)
(* behind it, at both ends, until the application there resumes the link.  *)
(***************************************************************************)
EXTENDS Integers, Sequences

CONSTANT Messages  \* records with a field stop

VARIABLES
  accepted,   \* the messages queued so far
  passed,     \* how many of them have left the sender
  delivered,  \* the messages received so far
  out,        \* "open", "stopped" or "down": the sending end
  in          \* the same, the receiving end

chanVars == <<accepted, passed, delivered, out, in>>

Init ==
  /\ accepted = <<>> /\ passed = 0 /\ delivered = <<>>
  /\ out = "open" /\ in = "open"

Accept(m) ==
  /\ out # "down"
  /\ accepted' = Append(accepted, m)
  /\ UNCHANGED <<passed, delivered, out, in>>

(* Messages up to number n leave together; only the last may say stop.     *)
Pass(n) ==
  /\ out = "open"
  /\ passed < n
  /\ \A i \in (passed + 1)..(n - 1) : ~accepted[i].stop
  /\ passed' = n
  /\ out' = IF accepted[n].stop THEN "stopped" ELSE "open"
  /\ UNCHANGED <<accepted, delivered, in>>

Deliver ==
  /\ in = "open"
  /\ Len(delivered) < passed
  /\ LET m == accepted[Len(delivered) + 1]
     IN  /\ delivered' = Append(delivered, m)
         /\ in' = IF m.stop THEN "stopped" ELSE "open"
  /\ UNCHANGED <<accepted, passed, out>>

ResumeOut ==
  /\ out = "stopped" /\ out' = "open"
  /\ UNCHANGED <<accepted, passed, delivered, in>>

ResumeIn ==
  /\ in = "stopped" /\ in' = "open"
  /\ UNCHANGED <<accepted, passed, delivered, out>>

GoesDown ==
  /\ \/ out' = "down" /\ in' = in
     \/ in' = "down" /\ out' = out
  /\ UNCHANGED <<accepted, passed, delivered>>

Next ==
  \/ \E m \in Messages : Accept(m)
  \/ \E n \in 1..Len(accepted) : Pass(n)
  \/ Deliver
  \/ ResumeOut
  \/ ResumeIn
  \/ GoesDown

Spec == Init /\ [][Next]_chanVars

=============================================================================
