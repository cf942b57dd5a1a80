---------------------------- MODULE MCMailRewrite ----------------------------
(* Instances of MailRewrite for TLC: mails put together of short lines, ended *)
(* by CRLF or by a bare LF, and a last line that may lack its end.           *)
EXTENDS MailRewrite

CONSTANT MaxLines

Content == {<<>>, <<"S">>, <<" ">>, <<"x">>}
FullLines == {c \o CRLF : c \in Content}
BareLines == {<<"x", "LF">>, <<"LF">>, <<" ", "LF">>}
Endings == {<<>>, <<"x">>, <<"S">>} \cup {[i \in 1..n |-> "x"] : n \in {MaxLineLen - 1, MaxLineLen}}

TextsOf(lines, n) == {FlattenSeq(t) : t \in UNION {[1..k -> lines] : k \in 0..n}}

AllMails == {t \o e : t \in TextsOf(FullLines, MaxLines), e \in Endings}
              \cup TextsOf(FullLines \cup BareLines, MaxLines - 1)

(* RFC 5322 mails: a header of lines with CRLF, an empty line and a body.    *)
GoodMails ==
    {h \o CRLF \o b : h \in TextsOf({<<"x">> \o CRLF, <<"S">> \o CRLF}, 3) \ {<<>>},
                     b \in TextsOf(FullLines, 3)}
=============================================================================
