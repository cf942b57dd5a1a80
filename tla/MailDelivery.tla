----------------------------- MODULE MailDelivery -----------------------------
(***************************************************************************)
(* What the client promises for every mail that arrives in the scan         *)
(* mailbox: it is backed up before a modified variant is delivered, at most *)
(* one variant is ever delivered and the verdict it carries stands; a mail  *)
(* that cannot be decoded bypasses the scan, and no other mail does.        *)
(***************************************************************************)
CONSTANTS Mail, Malformed, Scores, NoScore

VARIABLES
    stage,      \* "absent", "unscanned", "backedUp" or "bypassed"
    variants,   \* the number of modified variants delivered
    verdict     \* the score the delivered variant carries

vars == <<stage, variants, verdict>>

Init ==
    /\ stage = [m \in Mail |-> "absent"]
    /\ variants = [m \in Mail |-> 0]
    /\ verdict = [m \in Mail |-> NoScore]

Arrive(m) ==
    /\ stage[m] = "absent"
    /\ stage' = [stage EXCEPT ![m] = "unscanned"]
    /\ UNCHANGED <<variants, verdict>>

BackUp(m) ==
    /\ stage[m] = "unscanned" /\ m \notin Malformed
    /\ stage' = [stage EXCEPT ![m] = "backedUp"]
    /\ UNCHANGED <<variants, verdict>>

Deliver(m, score) ==
    /\ stage[m] = "backedUp" /\ variants[m] = 0
    /\ variants' = [variants EXCEPT ![m] = 1]
    /\ verdict' = [verdict EXCEPT ![m] = score]
    /\ UNCHANGED stage

(* Malformed mails are moved together. *)
Bypass(M) ==
    /\ M \subseteq Malformed
    /\ \A m \in M : stage[m] = "unscanned"
    /\ stage' = [m \in Mail |-> IF m \in M THEN "bypassed" ELSE stage[m]]
    /\ UNCHANGED <<variants, verdict>>

Next ==
    \/ \E m \in Mail : Arrive(m) \/ BackUp(m)
    \/ \E m \in Mail, score \in Scores : Deliver(m, score)
    \/ \E M \in SUBSET Malformed : Bypass(M)

Spec == Init /\ [][Next]_vars
=============================================================================
