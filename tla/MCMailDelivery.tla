--------------------------- MODULE MCMailDelivery ---------------------------
(* A model of MailDelivery for TLC: the first delivery is informational,   *)
(* the second one the response that a running turn waits for.              *)
EXTENDS MailDelivery

MailKind == [d \in 1..NumMail |-> CASE d = 1 -> "informational"
                                    [] d = 2 -> "response"
                                    [] OTHER -> "required"]

=============================================================================
