------------------------------- MODULE MCTree -------------------------------
(* Tree has only numbers as parameters; its configurations give them. *)
EXTENDS Tree
=============================================================================
