------------------------------ MODULE StateStore ------------------------------
(***************************************************************************)
(* How QueueManager keeps state.json (queue_manager.py): the lock around    *)
(* each mutation, the parsed state each manager reuses while the file has   *)
(* the stamp it knows, the rendered text of each record it reuses for what  *)
(* has not changed, the record objects a pass holds that may or may not be  *)
(* the ones in that cache, and the file replaced as a whole.                *)
(*                                                                         *)
(* Each pass of a worker has a manager of its own, and so has each webhook  *)
(* request and each command; a manager ends with its pass or its process.   *)
(* A stamp is the number of the write that made the file: no two writes of  *)
(* different content are taken to share modification time and size.         *)
(***************************************************************************)
EXTENDS Naturals

CONSTANTS
  Items, Values, New, GivenUp, Noted, Moved, Absent,   \* see RecordStore
  Workers,    \* managers of worker passes
  Requests,   \* managers of webhook requests, commands and scripts
  MaxWrites,  \* bound on the writes of a behaviour
  None

Managers == Workers \cup Requests

ASSUME StateStoreAssumption ==
  /\ {New, GivenUp, Noted, Moved} \subseteq Values /\ Absent \notin Values
  /\ None \notin Values \cup {Absent} \cup Items \cup Managers \cup Nat
  /\ None \notin [Items -> Values \cup {Absent}]
  /\ Workers \cap Requests = {}
  /\ MaxWrites \in Nat

VARIABLES
  disk,     \* what state.json holds
  stamp,    \* its modification time and size
  lock,     \* holder of state.lock
  pc,       \* how far each manager's operation has come
  op,       \* which operation that is
  seen,     \* the stamp load_state has taken
  cache,    \* _cached_state
  known,    \* _cached_stamp
  text,     \* _record_json
  objects,  \* the record objects of the pass, from get_actionable_items
  live,     \* those of them that are objects of the cache
  held      \* the record that was changed in memory and is not saved yet

vars == <<disk, stamp, lock, pc, op, seen, cache, known, text, objects, live, held>>

Records == Values \cup {Absent}

NoText == [i \in Items |-> None]

Init ==
  /\ disk = [i \in Items |-> Absent]
  /\ stamp = 0
  /\ lock = None
  /\ pc = [m \in Managers |-> "idle"]
  /\ op = [m \in Managers |-> "none"]
  /\ seen = [m \in Managers |-> 0]
  /\ cache = [m \in Managers |-> None]
  /\ known = [m \in Managers |-> None]
  /\ text = [m \in Managers |-> NoText]
  /\ objects = [m \in Managers |-> None]
  /\ live = [m \in Managers |-> {}]
  /\ held = [m \in Managers |-> None]

Goto(m, label) == pc' = [pc EXCEPT ![m] = label]

\* A manager and all it has in memory are gone.
Drop(m) ==
  /\ Goto(m, "idle")
  /\ op' = [op EXCEPT ![m] = "none"]
  /\ seen' = [seen EXCEPT ![m] = 0]
  /\ cache' = [cache EXCEPT ![m] = None]
  /\ known' = [known EXCEPT ![m] = None]
  /\ text' = [text EXCEPT ![m] = NoText]
  /\ objects' = [objects EXCEPT ![m] = None]
  /\ live' = [live EXCEPT ![m] = {}]
  /\ held' = [held EXCEPT ![m] = None]
-------------------------------------------------------------------------------
\* mutant of UpToDate: a parsed state is never parsed again
UpToDateOnce(m) == cache[m] # None

\* The file has the stamp of the last parse.
UpToDate(m) == cache[m] # None /\ known[m] = stamp

\* The file is parsed: new objects, no rendered text of them, and the stamp that was
\* taken before the file was read.
Parse(m) ==
  /\ cache' = [cache EXCEPT ![m] = disk]
  /\ known' = [known EXCEPT ![m] = seen[m]]
  /\ text' = [text EXCEPT ![m] = NoText]

\* get_actionable_items of a pass: load_state without the lock.
List(m) ==
  /\ m \in Workers /\ pc[m] = "idle" /\ objects[m] = None
  /\ seen' = [seen EXCEPT ![m] = stamp]
  /\ IF UpToDate(m)
       THEN /\ objects' = [objects EXCEPT ![m] = cache[m]]
            /\ live' = [live EXCEPT ![m] = Items]
            /\ UNCHANGED pc
       ELSE Goto(m, "reading") /\ UNCHANGED <<objects, live>>
  /\ UNCHANGED <<disk, stamp, lock, op, cache, known, text, held>>

\* Another manager may have written between the stamp and the text.
ListParsed(m) ==
  /\ pc[m] = "reading"
  /\ Parse(m)
  /\ objects' = [objects EXCEPT ![m] = disk]
  /\ live' = [live EXCEPT ![m] = Items]
  /\ Goto(m, "idle")
  /\ UNCHANGED <<disk, stamp, lock, op, seen, held>>

\* process_item changes the record it works on, in the cache too if it is there.
Edit(m, i) ==
  /\ pc[m] = "idle" /\ objects[m] # None /\ held[m] \in {None, i}
  /\ objects[m][i] # Absent
  /\ \E v \in Values :
       /\ objects' = [objects EXCEPT ![m][i] = v]
       /\ cache' = IF i \in live[m] THEN [cache EXCEPT ![m][i] = v] ELSE cache
  /\ held' = [held EXCEPT ![m] = i]
  /\ UNCHANGED <<disk, stamp, lock, pc, op, seen, known, text, live>>

\* What a manager may ask for: a pass drains queue.txt before it lists its items
\* and saves the record it has changed; a request registers, a command resets.
MayAsk(m, o) ==
  \/ o = "register" /\ objects[m] = None
  \/ o = "update" /\ held[m] # None
  \/ o \in {"reset", "mutate"} /\ m \in Requests

\* mutant of LockFree: the file lock does not exclude
LockIgnored == TRUE

LockFree == lock = None

\* _locked_mutate; a timeout of the lock leaves everything as it was.
Lock(m, o) ==
  /\ pc[m] = "idle" /\ MayAsk(m, o) /\ LockFree
  /\ lock' = m
  /\ op' = [op EXCEPT ![m] = o]
  /\ Goto(m, "locked")
  /\ UNCHANGED <<disk, stamp, seen, cache, known, text, objects, live, held>>

\* load_state under the lock.
Load(m) ==
  /\ pc[m] = "locked"
  /\ seen' = [seen EXCEPT ![m] = stamp]
  /\ Goto(m, IF UpToDate(m) THEN "loaded" ELSE "parsing")
  /\ UNCHANGED <<disk, stamp, lock, op, cache, known, text, objects, live, held>>

LoadParsed(m) ==
  /\ pc[m] = "parsing"
  /\ Parse(m)
  /\ live' = [live EXCEPT ![m] = {}]
  /\ Goto(m, "loaded")
  /\ UNCHANGED <<disk, stamp, lock, op, seen, objects, held>>

\* The rendered text of changed records is dropped.
Forget(m, S) ==
  text' = [text EXCEPT ![m] = [i \in Items |-> IF i \in S THEN None ELSE text[m][i]]]

\* The mutation, on the parsed state.
MutateUpdate(m) ==
  /\ pc[m] = "loaded" /\ op[m] = "update"
  /\ cache' = [cache EXCEPT ![m][held[m]] = objects[m][held[m]]]
  /\ live' = [live EXCEPT ![m] = @ \cup {held[m]}]
  /\ Forget(m, {held[m]})
  /\ Goto(m, "changed")
  /\ UNCHANGED <<disk, stamp, lock, op, seen, known, objects, held>>

\* The records of S become v in the parsed state.
SetTo(m, S, v) ==
  /\ cache' = [cache EXCEPT ![m] = [i \in Items |-> IF i \in S THEN v ELSE cache[m][i]]]
  /\ Goto(m, "changed")
  /\ UNCHANGED <<disk, stamp, lock, op, seen, known, objects, live, held>>

MutateRegister(m) ==
  /\ pc[m] = "loaded" /\ op[m] = "register"
  /\ \E S \in SUBSET {i \in Items : cache[m][i] = Absent} : SetTo(m, S, New) /\ Forget(m, S)

MutateReset(m) ==
  /\ pc[m] = "loaded" /\ op[m] = "reset"
  /\ \E S \in SUBSET {i \in Items : cache[m][i] = GivenUp} : SetTo(m, S, New) /\ Forget(m, S)

\* mutate_state: its caller has moved notes and writes their paths, or puts a record of
\* its own there; which, the manager cannot tell, so it trusts no rendered text any more.
MutateState(m) ==
  /\ pc[m] = "loaded" /\ op[m] = "mutate"
  /\ \/ \E S \in SUBSET {i \in Items : cache[m][i] = Noted} : SetTo(m, S, Moved)
     \/ \E i \in Items, v \in Values : cache[m][i] # Absent /\ SetTo(m, {i}, v)
  /\ Forget(m, Items)

\* mutant of Rendered: a record whose text was dropped is not rendered again
RenderedReused(m) == text[m]

\* save_state renders what it has no text of and reuses the rest.
Rendered(m) ==
  [i \in Items |-> IF text[m][i] # None THEN text[m][i] ELSE cache[m][i]]

\* The texts kept for the next save: of the records that are there.
Kept(m) == [i \in Items |-> IF Rendered(m)[i] = Absent THEN None ELSE Rendered(m)[i]]

\* os.replace: the file changes as a whole.
Write(m) ==
  /\ pc[m] = "changed" /\ stamp < MaxWrites
  /\ disk' = Rendered(m)
  /\ text' = [text EXCEPT ![m] = Kept(m)]
  /\ stamp' = stamp + 1
  /\ Goto(m, "written")
  /\ UNCHANGED <<lock, op, seen, cache, known, objects, live, held>>

\* The new stamp is taken before the lock is released; the manager of a request
\* has done its work.
Unlock(m) ==
  /\ pc[m] = "written"
  /\ lock' = None
  /\ IF m \in Requests THEN Drop(m)
     ELSE /\ known' = [known EXCEPT ![m] = stamp]
          /\ op' = [op EXCEPT ![m] = "none"]
          /\ held' = [held EXCEPT ![m] = None]
          /\ Goto(m, "idle")
          /\ UNCHANGED <<seen, cache, text, objects, live>>
  /\ UNCHANGED <<disk, stamp>>

\* The save fails (no space, the file is open elsewhere) before or after the texts
\* are rendered.  A pass handles the failure of an update and saves again.
UpdateFails(m) ==
  /\ pc[m] = "changed" /\ op[m] = "update"
  /\ lock' = None
  /\ text' \in {text, [text EXCEPT ![m] = Kept(m)]}
  /\ op' = [op EXCEPT ![m] = "none"]
  /\ Goto(m, "idle")
  /\ UNCHANGED <<disk, stamp, seen, cache, known, objects, live, held>>

\* The pass, the request or the command ends, wherever it is: all is done, another
\* error, a kill.  The operating system frees the lock.
End(m) ==
  /\ cache[m] # None \/ pc[m] # "idle"
  /\ Drop(m)
  /\ lock' = IF lock = m THEN None ELSE lock
  /\ UNCHANGED <<disk, stamp>>

Step(m) ==
  \/ List(m) \/ ListParsed(m)
  \/ (\E i \in Items : Edit(m, i))
  \/ (\E o \in {"register", "update", "reset", "mutate"} : Lock(m, o))
  \/ Load(m) \/ LoadParsed(m)
  \/ MutateUpdate(m) \/ MutateRegister(m) \/ MutateReset(m) \/ MutateState(m)
  \/ Write(m) \/ Unlock(m) \/ UpdateFails(m) \/ End(m)

Next == \E m \in Managers : Step(m)

Spec == Init /\ [][Next]_vars
-------------------------------------------------------------------------------
\* Each manager's memory, the file and the lock hold what their comments say.
TypeOK ==
  /\ disk \in [Items -> Records]
  /\ stamp \in Nat
  /\ lock \in Managers \cup {None}
  /\ pc \in [Managers -> {"idle", "reading", "locked", "parsing", "loaded", "changed",
                          "written"}]
  /\ op \in [Managers -> {"none", "register", "update", "reset", "mutate"}]
  /\ seen \in [Managers -> Nat]
  /\ cache \in [Managers -> [Items -> Records] \cup {None}]
  /\ known \in [Managers -> Nat \cup {None}]
  /\ text \in [Managers -> [Items -> Values \cup {None}]]
  /\ objects \in [Managers -> [Items -> Records] \cup {None}]
  /\ live \in [Managers -> SUBSET Items]
  /\ held \in [Managers -> Items \cup {None}]

\* A mutation starts from what state.json holds, apart from the record the pass
\* itself is about to save: the cache is never behind another process's write, and
\* an update that failed leaves no trace in other records (docstring of
\* load_state: "another process's write ... is always picked up").
MutatesCurrent ==
  \A m \in Managers : pc[m] = "loaded" =>
    \A i \in Items : cache[m][i] = disk[i] \/ (op[m] = "update" /\ i = held[m])

\* After a save the manager's cache, its texts and the file agree (save_state:
\* only records that changed are rendered again).
CacheIsFile ==
  \A m \in Managers : pc[m] = "written" =>
    \A i \in Items : cache[m][i] = disk[i] /\ text[m][i] \in {None, disk[i]}

Store == INSTANCE RecordStore WITH db <- disk

\* Managers that interleave as they like, fail or are killed change the file only
\* as the operations on one table would: no update of another record is lost, no
\* registration overwrites, and nothing that was not saved gets into the file.
ImplementsRecordStore == Store!Spec
===============================================================================
