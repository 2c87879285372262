-------------------------------- MODULE MCApp --------------------------------
(* A small instance of App for TLC. *)
EXTENDS App

(* Updates for all, none, or with half of the credentials; and no db_path.  *)
Options4 ==
  {[dbPath |-> TRUE, autoUpdate |-> TRUE, account |-> TRUE, license |-> TRUE],
   [dbPath |-> TRUE, autoUpdate |-> TRUE, account |-> TRUE, license |-> FALSE],
   [dbPath |-> TRUE, autoUpdate |-> FALSE, account |-> FALSE, license |-> FALSE],
   [dbPath |-> FALSE, autoUpdate |-> TRUE, account |-> FALSE, license |-> FALSE]}

==============================================================================
