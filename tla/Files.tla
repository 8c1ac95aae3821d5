-------------------------------- MODULE Files --------------------------------
(***************************************************************************)
(* What promotion and inference have in common: processes, and files of     *)
(* which only the digest matters.                                           *)
(***************************************************************************)
CONSTANTS
    Proc,           \* processes
    Content,        \* what can be in a file, as far as its digest tells
    Missing         \* no file, directory or request

ASSUME FilesAssumption == Missing \notin Content /\ Missing \notin Proc
=============================================================================
