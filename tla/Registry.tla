------------------------------ MODULE Registry ------------------------------
(***************************************************************************)
(* What package internal/ops promises to the handler, the matcher and the  *)
(* updater: an atomic map from databases to the version being served.      *)
(* Reload, Delete and Close take effect in one step, and the answer of a   *)
(* LookupAll or GetDBInfo call is the map as it was at one instant between *)
(* the call and its return.  Module Ops, with its RWMutex and its reader   *)
(* life cycle, is shown to implement this specification.                   *)
(***************************************************************************)
CONSTANTS
  Databases,    \* the recognised database file names (db.Filename)
  Versions,     \* contents of a database file that parse as an mmdb
  Undecodable,  \* versions whose record for the client's address is damaged
  Readers,      \* goroutines that call LookupAll or GetDBInfo
  NoDB          \* no database (not loaded, or nothing contributed)

VARIABLES
  served,  \* the version each database is served from
  shut,    \* has Close released the map?
  call,    \* the call each reader has in progress
  answer   \* what the last completed call of each reader returned

regVars == <<served, shut, call, answer>>

Calls == {"LookupAll", "GetDBInfo"}

Nothing == [d \in Databases |-> NoDB]

(* A lookup skips, with a warning, a database whose record does not decode; *)
(* the md5 sums of GetDBInfo do not depend on the records.                  *)
Yield(c, v) == IF c = "LookupAll" /\ v \in Undecodable THEN NoDB ELSE v

RegInit ==
  /\ served = Nothing
  /\ shut = FALSE
  /\ call = [r \in Readers |-> "none"]
  /\ answer = [r \in Readers |-> Nothing]

Install(d, v) ==
  /\ ~shut
  /\ served' = [served EXCEPT ![d] = v]
  /\ UNCHANGED <<shut, call, answer>>

Remove(d) ==
  /\ served' = [served EXCEPT ![d] = NoDB]
  /\ UNCHANGED <<shut, call, answer>>

Shut ==
  /\ served' = Nothing
  /\ shut' = TRUE
  /\ UNCHANGED <<call, answer>>

Ask(r, c) ==
  /\ call[r] = "none"
  /\ call' = [call EXCEPT ![r] = c]
  /\ UNCHANGED <<served, shut, answer>>

Answer(r) ==
  /\ call[r] # "none"
  /\ answer' = [answer EXCEPT ![r] = [d \in Databases |-> Yield(call[r], served[d])]]
  /\ call' = [call EXCEPT ![r] = "none"]
  /\ UNCHANGED <<served, shut>>

RegNext ==
  \/ \E d \in Databases : Remove(d) \/ \E v \in Versions : Install(d, v)
  \/ Shut
  \/ \E r \in Readers : Answer(r) \/ \E c \in Calls : Ask(r, c)

RegSafety == RegInit /\ [][RegNext]_regVars

(* Every call in progress returns. *)
RegSpec == RegSafety /\ \A r \in Readers : WF_regVars(Answer(r))

=============================================================================
