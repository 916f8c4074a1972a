--------------------------- MODULE MCBrowserModel ---------------------------
(* A small instance of BrowserModel for TLC. *)
EXTENDS BrowserModel, TLC

ProfileSymmetry == Permutations(Profiles) \cup Permutations(Accounts)
=============================================================================
