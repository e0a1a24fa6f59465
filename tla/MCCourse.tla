------------------------------ MODULE MCCourse ------------------------------
(* Constants of the thread for the real course. *)
EXTENDS Course

MCConcepts     == CourseConcepts
MCQuestions    == {<<c, i>> : c \in CourseConcepts, i \in 1 .. 5} \cap UNION {{c} \X DOMAIN Bank[c] : c \in CourseConcepts}
MCConceptOf    == [q \in MCQuestions |-> q[1]]
MCTypeOf       == [q \in MCQuestions |-> Bank[q[1]][q[2]].type]
MCPathPosition == [c \in CourseConcepts |-> CHOOSE i \in DOMAIN LearningPath : LearningPath[i] = c]
=============================================================================
