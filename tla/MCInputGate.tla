----------------------------- MODULE MCInputGate -----------------------------
(* Small instances of InputGate for TLC. *)
EXTENDS InputGate

CONSTANTS t1, t2, t3

MCTwo == {t1, t2}
MCThree == {t1, t2, t3}
=============================================================================
