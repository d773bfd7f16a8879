---------------------------- MODULE MCCaseLedger ----------------------------
(* Small instances of CaseLedger: two attempts of one run that send the same  *)
(* command under their own keys, and two interactive clients that share       *)
(* nothing (or, for the double submission, the key as well).                  *)
EXTENDS CaseLedger

Client == {"attempt1", "attempt2", "analyst", "doubleClick"}

Command == [c \in Client |-> CASE c \in {"attempt1", "attempt2"} -> "write"
                               [] OTHER -> "review"]

Key == [c \in Client |-> IF c = "doubleClick" THEN "analyst" ELSE c]
=============================================================================
