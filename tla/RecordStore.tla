------------------------------ MODULE RecordStore ------------------------------
(***************************************************************************)
(* What QueueManager promises of state.json (queue_manager.py, docstring of *)
(* _locked_mutate): one table of records, and each operation changes it in  *)
(* one step, whoever else is at work.                                       *)
(***************************************************************************)
CONSTANTS
  Items,    \* content ids
  Values,   \* what a record can say
  New,      \* a record as registration leaves it
  GivenUp,  \* a record in failed_permanent
  Noted,    \* a record in done whose note is at one path
  Moved,    \* the same, with the note at another
  Absent    \* no record

VARIABLE db

Init == db = [i \in Items |-> Absent]

\* add_url, add_share, queue.txt: known items keep the record they have.
Register(S) ==
  /\ \A i \in S : db[i] = Absent
  /\ db' = [i \in Items |-> IF i \in S THEN New ELSE db[i]]

\* update_record: this record and no other.
Update(i) == \E v \in Values : db' = [db EXCEPT ![i] = v]

\* The records an operator's retry names start over.
Reset(S) ==
  /\ \A i \in S : db[i] = GivenUp
  /\ db' = [i \in Items |-> IF i \in S THEN New ELSE db[i]]

\* organize-vault and reconcile_ledger.py: the notes that were moved, all in one save.
Repoint(S) ==
  /\ \A i \in S : db[i] = Noted
  /\ db' = [i \in Items |-> IF i \in S THEN Moved ELSE db[i]]

Next ==
  \/ \E S \in SUBSET Items : Register(S) \/ Reset(S) \/ Repoint(S)
  \/ \E i \in Items : Update(i)

Spec == Init /\ [][Next]_db
===============================================================================
