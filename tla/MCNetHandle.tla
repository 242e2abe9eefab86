---------------------------- MODULE MCNetHandle ----------------------------
(* One app that connects twice: a second connection may be accepted, and may *)
(* ask to register, at any point of the first one's life.                    *)
EXTENDS NetHandle

OneApp == [c \in Conns |-> CHOOSE a \in Apps : TRUE]
=============================================================================
