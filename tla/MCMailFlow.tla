------------------------------ MODULE MCMailFlow ------------------------------
(* Instances of MailFlow for TLC.                                           *)
EXTENDS MailFlow, TLC

CONSTANTS m1, m2, m3

NoMails == {}
OneMail == {m1}
TwoMails == {m1, m2}
ThreeMails == {m1, m2, m3}
SecondMail == {m2}
ThirdMail == {m3}
MailSymmetry == Permutations({m1, m2})

(* One score below the threshold and one that is equal to it.               *)
TwoScores == {9, 10}
HighScore == {10}
=============================================================================
