-------------------------- MODULE MCSeminarUpdater --------------------------
(* Instances of SeminarUpdater.                                            *)
EXTENDS SeminarUpdater

CONSTANTS u1, u2, A, B, Y, Z, m1, m2, m3, m4, pdf1

TwoUsers == {u1, u2}
Papers == {A, B, Y, Z}

(* A PDF and two answers of one user, a link of the other one.             *)
FourMessages == {m1, m2, m3, m4}
Sender == [m \in Messages |-> IF m = m4 THEN u2 ELSE u1]
Kinds == [m \in Messages |-> CASE m = m1 -> "pdf" [] m = m4 -> "url"
                               [] OTHER -> "text"]
PaperIn == [m \in Messages |-> IF m = m3 THEN A ELSE B]
OnePdf == [m \in Messages |-> pdf1]

(* Two links of one user.                                                  *)
TwoLinks == {m1, m2}
Links == [m \in Messages |-> "url"]

OneUser == [m \in Messages |-> u1]
TwoPapers == [m \in Messages |-> IF m = m1 THEN A ELSE B]

NothingLacks == {{}}
SomeLack == {{}, {"title", "paper_link"}, {"speaker"}}

(* The next meeting and the one after; a row without a time.               *)
Row(title, u, when) ==
  [title |-> title, speaker |-> u, time |-> when, asked |-> FALSE,
   slides |-> FALSE]

Before == <<Row(Z, u2, 1)>>
Draft == <<Row(Z, u1, 1), Row(A, u1, NoTime), Row(Y, u2, 2)>>

CustomDates == {3}
=============================================================================
