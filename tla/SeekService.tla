---------------------------- MODULE SeekService -----------------------------
(***************************************************************************)
(* What Wadseeker promises to the program that uses it: of the files that  *)
(* were asked for it installs some, each once; one announcement ends the   *)
(* seek, and it says "success" only when every file is there, though it    *)
(* may say "failure" even then.  How files are found does not appear here. *)
(***************************************************************************)
CONSTANTS Files

VARIABLES seeking, asked, installed, told

vars == <<seeking, asked, installed, told>>

Init ==
  /\ seeking = FALSE
  /\ asked = {}
  /\ installed = {}
  /\ told = "none"

Start(files) ==
  /\ ~seeking
  /\ files # {}
  /\ seeking' = TRUE
  /\ asked' = files
  /\ installed' = {}
  /\ told' = "none"

Install(files) ==
  /\ seeking
  /\ files # {}
  /\ files \subseteq asked \ installed
  /\ installed' = installed \cup files
  /\ UNCHANGED <<seeking, asked, told>>

(* Files may be installed by the step that ends the seek, as one that      *)
(* fails for the rest.                                                     *)
Done(files) ==
  /\ seeking
  /\ files \subseteq asked \ installed
  /\ installed' = installed \cup files
  /\ seeking' = FALSE
  /\ told' \in {"success", "failure"}
  /\ told' = "success" => installed' = asked
  /\ UNCHANGED asked

Vanish ==
  /\ seeking' = FALSE
  /\ asked' = {}
  /\ installed' = {}
  /\ told' = "none"

Next ==
  \/ \E files \in SUBSET Files : Start(files) \/ Install(files) \/ Done(files)
  \/ Vanish

Spec == Init /\ [][Next]_vars

=============================================================================
