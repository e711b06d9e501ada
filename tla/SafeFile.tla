------------------------------ MODULE SafeFile ------------------------------
(***************************************************************************)
(* What the configuration writer promises about one file: the program only *)
(* replaces it as a whole, and only when the version it replaces is kept.  *)
(* Other programs may write the file at any time; a version of theirs that *)
(* was not looked at yet is the only one that can get lost.                *)
(***************************************************************************)
CONSTANTS Contents, None

VARIABLES
  file,    \* the content of the file, None when there is no file
  kept,    \* the contents that can be brought back
  missed   \* others wrote the file after its content was last kept

vars == <<file, kept, missed>>

Init ==
  /\ file \in Contents \cup {None}
  /\ kept = {}
  /\ missed = FALSE

\* Keeping the present version, forgetting old ones.
Keep ==
  /\ kept' \subseteq (kept \cup {file}) \ {None}
  /\ missed' \in BOOLEAN
  /\ missed' = missed \/ (missed /\ file \in kept')
  /\ UNCHANGED file

\* The program replaces the file.
Replace ==
  /\ file' \in Contents
  /\ missed \/ file = None \/ file \in kept
  /\ missed' = FALSE
  /\ UNCHANGED kept

\* Another program writes or removes the file.
Outside ==
  /\ file' \in Contents \cup {None}
  /\ missed' = TRUE
  /\ UNCHANGED kept

Next == Keep \/ Replace \/ Outside

Spec == Init /\ [][Next]_vars
=============================================================================
