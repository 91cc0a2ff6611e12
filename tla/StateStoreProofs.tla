--------------------------- MODULE StateStoreProofs ---------------------------
(***************************************************************************)
(* StateStore implements RecordStore: for every number of records, passes   *)
(* and requests, the file changes only as one table with atomic operations  *)
(* would, and no registered record is lost from it.                        *)
(***************************************************************************)
EXTENDS StateStore, TLAPS

Locked == {"locked", "parsing", "loaded", "changed", "written"}

\* Except for record h, the cache of m and the texts it keeps are what is on disk.
AgreesBut(m, h) ==
  \A i \in Items : i # h => cache[m][i] = disk[i] /\ text[m][i] \in {None, disk[i]}

\* The records of S have become w in the parsed state, from the value v on disk.
MadeFrom(m, S, v, w) ==
  \A i \in Items :
    IF i \in S THEN disk[i] = v /\ cache[m][i] = w /\ text[m][i] = None
    ELSE cache[m][i] = disk[i] /\ text[m][i] \in {None, disk[i]}

\* What has been mutated is one operation away from the file.
Pending(m) ==
  \/ /\ op[m] = "update" /\ held[m] # None
     /\ AgreesBut(m, held[m])
     /\ text[m][held[m]] = None /\ cache[m][held[m]] \in Values
  \/ op[m] = "register" /\ \E S \in SUBSET Items : MadeFrom(m, S, Absent, New)
  \/ op[m] = "reset" /\ \E S \in SUBSET Items : MadeFrom(m, S, GivenUp, New)
  \/ op[m] = "mutate" /\ \E S \in SUBSET Items : MadeFrom(m, S, Noted, Moved)
  \/ op[m] = "mutate" /\ \E i \in Items, v \in Values : MadeFrom(m, {i}, disk[i], v)

\* What goes together in one manager's memory and the lock.
Owns(m) ==
  /\ pc[m] \in Locked <=> lock = m
  /\ pc[m] \in Locked => op[m] # "none" /\ (op[m] = "update" <=> held[m] # None)
  /\ held[m] # None => objects[m] # None /\ objects[m][held[m]] \in Values
  /\ m \in Requests => objects[m] = None
  /\ \A i \in live[m] : cache[m] # None
  /\ pc[m] = "reading" => objects[m] = None /\ m \notin Requests

\* What one manager knows of the file, by how far its operation has come.
Knows(m) ==
  /\ seen[m] <= stamp /\ (known[m] # None => known[m] <= stamp)
  /\ pc[m] = "parsing" => seen[m] = stamp
  /\ pc[m] \in {"loaded", "changed", "written"} => cache[m] # None
  /\ pc[m] = "loaded" => known[m] = stamp
  /\ cache[m] # None /\ known[m] = stamp /\ pc[m] \notin {"changed", "written"}
       => AgreesBut(m, held[m])
  /\ pc[m] = "changed" => Pending(m)
  /\ pc[m] = "written" => AgreesBut(m, None)

Coherent(m) == Owns(m) /\ Knows(m)

IInv == TypeOK /\ \A m \in Managers : Coherent(m)

LEMMA InitIInv == Init => IInv
<1> SUFFICES ASSUME Init PROVE IInv
  OBVIOUS
<1>1. TypeOK
  BY StateStoreAssumption DEF Init, TypeOK, Records, NoText
<1>2. ASSUME NEW m \in Managers PROVE Coherent(m)
  BY StateStoreAssumption DEF Init, Coherent, Owns, Knows, Locked, Managers
<1> QED
  BY <1>1, <1>2 DEF IInv

\* Nothing of n's own changes.
Untouched(n) ==
  /\ pc'[n] = pc[n] /\ op'[n] = op[n] /\ seen'[n] = seen[n] /\ cache'[n] = cache[n]
  /\ known'[n] = known[n] /\ text'[n] = text[n] /\ objects'[n] = objects[n]
  /\ live'[n] = live[n] /\ held'[n] = held[n]

\* What the others have stays coherent: while the file is as it was, and when m
\* writes it, because then n has not the lock and knows only older stamps.
LEMMA OthersCoherent ==
  ASSUME IInv, NEW m \in Managers, NEW n \in Managers, n # m, Untouched(n),
         lock' = n <=> lock = n, stamp' \in Nat,
         \/ disk' = disk /\ stamp' = stamp
         \/ lock = m /\ stamp' = stamp + 1
  PROVE  Coherent(n)'
<1>0. /\ Coherent(n) /\ stamp \in Nat /\ seen[n] \in Nat /\ known[n] \in Nat \cup {None}
      /\ None \notin Nat
  BY StateStoreAssumption DEF IInv, TypeOK
<1>1. CASE disk' = disk /\ stamp' = stamp
  <2>1. /\ AgreesBut(n, held[n])' <=> AgreesBut(n, held[n])
        /\ AgreesBut(n, None)' <=> AgreesBut(n, None)
    BY <1>1 DEF AgreesBut, Untouched
  <2>2. Pending(n)' <=> Pending(n)
    <3>1. \A i \in Items : disk'[i] = disk[i] /\ cache'[n][i] = cache[n][i] /\ text'[n][i] = text[n][i]
      BY <1>1 DEF Untouched
    <3>2. \A S, v, w : MadeFrom(n, S, v, w)' <=> MadeFrom(n, S, v, w)
      BY <3>1 DEF MadeFrom
    <3>3. (\E i \in Items, v \in Values : MadeFrom(n, {i}, disk[i], v))'
            <=> \E i \in Items, v \in Values : MadeFrom(n, {i}, disk[i], v)
      BY <1>1, <3>2
    <3> QED
      BY <2>1, <3>2, <3>3 DEF Pending, Untouched
  <2> QED
    BY <1>0, <1>1, <2>1, <2>2 DEF Coherent, Owns, Knows, Untouched
<1>2. CASE lock = m /\ stamp' = stamp + 1
  <2>1. pc[n] \notin Locked
    BY <1>0, <1>2 DEF Coherent, Owns, Knows
  <2>2. seen[n] <= stamp' /\ (known[n] # None => known[n] < stamp')
    BY <1>0, <1>2 DEF Coherent, Owns, Knows
  <2> QED
    BY <1>0, <1>2, <2>1, <2>2 DEF Coherent, Owns, Knows, Untouched, Locked
<1> QED
  BY <1>1, <1>2

\* A step of m keeps the invariant if it keeps what is m's own.
LEMMA OneMoves ==
  ASSUME IInv, NEW m \in Managers, TypeOK', Coherent(m)',
         \A n \in Managers : n # m => Untouched(n) /\ (lock' = n <=> lock = n),
         \/ disk' = disk /\ stamp' = stamp
         \/ lock = m /\ stamp' = stamp + 1
  PROVE  IInv'
<1>1. ASSUME NEW n \in Managers, n # m PROVE Coherent(n)'
  BY <1>1, OthersCoherent DEF TypeOK
<1> QED
  BY <1>1 DEF IInv

\* The values of constants that the steps below tell apart.
LEMMA Distinct ==
  /\ None \notin Nat /\ None \notin Managers /\ None \notin Items
  /\ None \notin Values /\ Absent \notin Values /\ None # Absent
  /\ New \in Values /\ GivenUp \in Values
  /\ None \notin [Items -> Records]
BY StateStoreAssumption DEF Records

\* The types of what m has.
LEMMA OwnTypes ==
  ASSUME TypeOK, NEW m \in Managers
  PROVE  /\ stamp \in Nat /\ disk \in [Items -> Records]
         /\ seen[m] \in Nat /\ known[m] \in Nat \cup {None}
         /\ cache[m] \in [Items -> Records] \cup {None}
         /\ objects[m] \in [Items -> Records] \cup {None}
         /\ text[m] \in [Items -> Values \cup {None}]
         /\ live[m] \in SUBSET Items /\ held[m] \in Items \cup {None}
         /\ op[m] \in {"none", "register", "update", "reset", "mutate"}
BY DEF TypeOK

LEMMA ListKeeps == ASSUME IInv, NEW m \in Managers, List(m) PROVE IInv'
<1>1. TypeOK /\ Coherent(m)
  BY DEF IInv
<1>2. CASE UpToDate(m)
  <2>2. /\ pc[m] = "idle" /\ pc' = pc /\ objects[m] = None
        /\ seen' = [seen EXCEPT ![m] = stamp] /\ objects' = [objects EXCEPT ![m] = cache[m]]
        /\ m \in Workers
        /\ live' = [live EXCEPT ![m] = Items] /\ cache[m] # None
        /\ UNCHANGED <<disk, stamp, lock, op, cache, known, text, held>>
    BY <1>2 DEF List, UpToDate, Goto
  <2>1. TypeOK'
    BY <1>1, <2>2, Distinct DEF TypeOK
  <2>a. seen'[m] = stamp /\ objects'[m] = cache[m] /\ m \notin Requests
    BY <1>1, <2>2, StateStoreAssumption DEF TypeOK
  <2>3. Owns(m)'
    BY <1>1, <2>2, <2>a, OwnTypes DEF Coherent, Owns, Locked
  <2>5. Knows(m)'
    BY <1>1, <2>2, <2>a, OwnTypes DEF Coherent, Knows, AgreesBut
  <2>4. \A n \in Managers : n # m => Untouched(n)
    BY <1>1, <1>2 DEF List, Untouched, TypeOK
  <2> QED
    BY <2>1, <2>2, <2>3, <2>4, <2>5, OneMoves DEF Coherent
<1>3. CASE ~UpToDate(m)
  <2>1. /\ pc[m] = "idle" /\ pc' = [pc EXCEPT ![m] = "reading"]
        /\ seen' = [seen EXCEPT ![m] = stamp] /\ objects[m] = None
        /\ UNCHANGED <<disk, stamp, lock, op, cache, known, text, held, objects, live>>
    BY <1>3 DEF List, Goto
  <2>2. TypeOK'
    BY <1>1, <2>1 DEF TypeOK
  <2>3. pc'[m] = "reading" /\ seen'[m] = stamp
    BY <1>1, <2>1 DEF TypeOK
  <2>4. Owns(m)'
    BY <1>1, <2>1, <2>3, OwnTypes, StateStoreAssumption DEF Coherent, Owns, Locked, List
  <2>6. Knows(m)'
    BY <1>1, <2>1, <2>3, OwnTypes DEF Coherent, Knows, AgreesBut
  <2>5. \A n \in Managers : n # m => Untouched(n)
    BY <1>1, <2>1 DEF Untouched, TypeOK
  <2> QED
    BY <2>1, <2>2, <2>4, <2>5, <2>6, OneMoves DEF Coherent
<1> QED
  BY <1>2, <1>3

LEMMA ListParsedKeeps == ASSUME IInv, NEW m \in Managers, ListParsed(m) PROVE IInv'
<1>1. TypeOK /\ Coherent(m)
  BY DEF IInv
<1>2. /\ pc[m] = "reading" /\ pc' = [pc EXCEPT ![m] = "idle"]
      /\ cache' = [cache EXCEPT ![m] = disk] /\ known' = [known EXCEPT ![m] = seen[m]]
      /\ text' = [text EXCEPT ![m] = NoText] /\ objects' = [objects EXCEPT ![m] = disk]
      /\ live' = [live EXCEPT ![m] = Items]
      /\ UNCHANGED <<disk, stamp, lock, op, seen, held>>
  BY DEF ListParsed, Parse, Goto
<1>3. TypeOK'
  BY <1>1, <1>2 DEF TypeOK, NoText
<1>4. /\ pc'[m] = "idle" /\ cache'[m] = disk /\ known'[m] = seen[m] /\ objects'[m] = disk
      /\ \A i \in Items : text'[m][i] = None
  BY <1>1, <1>2 DEF TypeOK, NoText
<1>5. held[m] = None /\ m \notin Requests
  BY <1>1, <1>2 DEF Coherent, Owns
<1>6. Owns(m)'
  <2>1. cache'[m] # None
    BY <1>4, OwnTypes, <1>1, Distinct
  <2> QED
    BY <1>1, <1>2, <1>4, <1>5, <2>1 DEF Coherent, Owns, Locked
<1>8. Knows(m)'
  BY <1>1, <1>2, <1>4, <1>5, OwnTypes DEF Coherent, Knows, AgreesBut
<1>7. \A n \in Managers : n # m => Untouched(n)
  BY <1>1, <1>2 DEF Untouched, TypeOK
<1> QED
  BY <1>2, <1>3, <1>6, <1>7, <1>8, OneMoves DEF Coherent

LEMMA EditKeeps ==
  ASSUME IInv, NEW m \in Managers, NEW i \in Items, Edit(m, i) PROVE IInv'
<1>1. TypeOK /\ Coherent(m)
  BY DEF IInv
<1>2. /\ pc[m] = "idle" /\ objects[m] # None /\ held[m] \in {None, i}
      /\ held' = [held EXCEPT ![m] = i]
      /\ UNCHANGED <<disk, stamp, lock, pc, op, seen, known, text, live>>
  BY DEF Edit
<1>3. PICK v \in Values :
        /\ objects' = [objects EXCEPT ![m] = [objects[m] EXCEPT ![i] = v]]
        /\ cache' = IF i \in live[m]
                      THEN [cache EXCEPT ![m] = [cache[m] EXCEPT ![i] = v]] ELSE cache
  BY DEF Edit
<1>4. objects[m] \in [Items -> Records]
  BY <1>1, <1>2, OwnTypes
<1>5. i \in live[m] => cache[m] \in [Items -> Records]
  BY <1>1, OwnTypes DEF Coherent, Owns
<1>6. /\ objects'[m] = [objects[m] EXCEPT ![i] = v] /\ held'[m] = i
      /\ cache'[m] = IF i \in live[m] THEN [cache[m] EXCEPT ![i] = v] ELSE cache[m]
  BY <1>1, <1>2, <1>3 DEF TypeOK
<1>7. TypeOK'
  <2>1. objects'[m] \in [Items -> Records]
    BY <1>4, <1>6 DEF Records
  <2>2. cache'[m] \in [Items -> Records] \cup {None}
    BY <1>1, <1>5, <1>6, OwnTypes DEF Records
  <2>3. objects' \in [Managers -> [Items -> Records] \cup {None}]
    BY <1>1, <1>3, <1>6, <2>1 DEF TypeOK
  <2>4. cache' \in [Managers -> [Items -> Records] \cup {None}]
    BY <1>1, <1>3, <1>6, <2>2 DEF TypeOK
  <2> QED
    BY <1>1, <1>2, <2>3, <2>4 DEF TypeOK
<1>8. Coherent(m)'
  <2>0. v \in Records
    BY DEF Records
  <2>1. objects'[m][i] = v /\ objects'[m] # None
    BY <1>4, <1>6, <2>0, Distinct
  <2>2. i \in live[m] => /\ cache'[m] \in [Items -> Records]
                         /\ \A j \in Items : j # i => cache'[m][j] = cache[m][j]
    BY <1>5, <1>6, <2>0
  <2>3. cache'[m] # None <=> cache[m] # None
    BY <1>5, <1>6, <2>2, Distinct
  <2>4. \A j \in Items : j # i => cache'[m][j] = cache[m][j]
    BY <1>6, <2>2
  <2>5. Owns(m)'
    BY <1>1, <1>2, <1>6, <2>1, <2>3 DEF Coherent, Owns, Locked
  <2>6. Knows(m)'
    BY <1>1, <1>2, <1>6, <2>3, <2>4, Distinct DEF Coherent, Knows, AgreesBut
  <2> QED
    BY <2>5, <2>6 DEF Coherent
<1>9. \A n \in Managers : n # m => Untouched(n)
  BY <1>1, <1>2, <1>3 DEF Untouched, TypeOK
<1> QED
  BY <1>2, <1>7, <1>8, <1>9, OneMoves

LEMMA LockKeeps ==
  ASSUME IInv, NEW m \in Managers, NEW o \in {"register", "update", "reset", "mutate"}, Lock(m, o)
  PROVE  IInv'
<1>1. TypeOK /\ Coherent(m)
  BY DEF IInv
<1>2. /\ pc[m] = "idle" /\ lock = None /\ lock' = m
      /\ op' = [op EXCEPT ![m] = o] /\ pc' = [pc EXCEPT ![m] = "locked"]
      /\ UNCHANGED <<disk, stamp, seen, cache, known, text, objects, live, held>>
  BY DEF Lock, LockFree, Goto
<1>3. o = "update" <=> held[m] # None
  BY <1>1 DEF Lock, MayAsk, Coherent, Owns
<1>4. pc'[m] = "locked" /\ op'[m] = o
  BY <1>1, <1>2 DEF TypeOK
<1>5. TypeOK'
  BY <1>1, <1>2 DEF TypeOK
<1>6. Owns(m)'
  BY <1>1, <1>2, <1>3, <1>4 DEF Coherent, Owns, Locked
<1>7. Knows(m)'
  BY <1>1, <1>2, <1>4 DEF Coherent, Knows, AgreesBut
<1>8. \A n \in Managers : n # m => Untouched(n) /\ (lock' = n <=> lock = n)
  BY <1>1, <1>2, Distinct DEF Untouched, TypeOK
<1> QED
  BY <1>2, <1>5, <1>6, <1>7, <1>8, OneMoves DEF Coherent

LEMMA LoadKeeps == ASSUME IInv, NEW m \in Managers, Load(m) PROVE IInv'
<1>1. TypeOK /\ Coherent(m)
  BY DEF IInv
<1>2. PICK label \in {"loaded", "parsing"} :
        /\ pc' = [pc EXCEPT ![m] = label]
        /\ label = "loaded" => cache[m] # None /\ known[m] = stamp
  BY DEF Load, Goto, UpToDate
<1>3. /\ pc[m] = "locked" /\ seen' = [seen EXCEPT ![m] = stamp]
      /\ UNCHANGED <<disk, stamp, lock, op, cache, known, text, objects, live, held>>
  BY DEF Load
<1>4. pc'[m] = label /\ seen'[m] = stamp
  BY <1>1, <1>2, <1>3 DEF TypeOK
<1>5. TypeOK'
  BY <1>1, <1>2, <1>3 DEF TypeOK
<1>6. Owns(m)'
  BY <1>1, <1>3, <1>4 DEF Coherent, Owns, Locked
<1>7. Knows(m)'
  BY <1>1, <1>2, <1>3, <1>4, OwnTypes DEF Coherent, Knows, AgreesBut
<1>8. \A n \in Managers : n # m => Untouched(n)
  BY <1>1, <1>2, <1>3 DEF Untouched, TypeOK
<1> QED
  BY <1>3, <1>5, <1>6, <1>7, <1>8, OneMoves DEF Coherent

LEMMA LoadParsedKeeps == ASSUME IInv, NEW m \in Managers, LoadParsed(m) PROVE IInv'
<1>1. TypeOK /\ Coherent(m)
  BY DEF IInv
<1>2. /\ pc[m] = "parsing" /\ pc' = [pc EXCEPT ![m] = "loaded"]
      /\ cache' = [cache EXCEPT ![m] = disk] /\ known' = [known EXCEPT ![m] = seen[m]]
      /\ text' = [text EXCEPT ![m] = NoText] /\ live' = [live EXCEPT ![m] = {}]
      /\ UNCHANGED <<disk, stamp, lock, op, seen, objects, held>>
  BY DEF LoadParsed, Parse, Goto
<1>3. TypeOK'
  BY <1>1, <1>2 DEF TypeOK, NoText
<1>4. /\ pc'[m] = "loaded" /\ cache'[m] = disk /\ known'[m] = seen[m] /\ live'[m] = {}
      /\ \A i \in Items : text'[m][i] = None
  BY <1>1, <1>2 DEF TypeOK, NoText
<1>5. cache'[m] # None
  BY <1>1, <1>4, OwnTypes, Distinct
<1>6. Owns(m)'
  BY <1>1, <1>2, <1>4, <1>5 DEF Coherent, Owns, Locked
<1>7. Knows(m)'
  BY <1>1, <1>2, <1>4, <1>5, OwnTypes DEF Coherent, Knows, AgreesBut
<1>8. \A n \in Managers : n # m => Untouched(n)
  BY <1>1, <1>2 DEF Untouched, TypeOK
<1> QED
  BY <1>2, <1>3, <1>6, <1>7, <1>8, OneMoves DEF Coherent

LEMMA MutateUpdateKeeps == ASSUME IInv, NEW m \in Managers, MutateUpdate(m) PROVE IInv'
<1>1. TypeOK /\ Coherent(m)
  BY DEF IInv
<1> DEFINE h == held[m]
<1>2. /\ pc[m] = "loaded" /\ op[m] = "update" /\ pc' = [pc EXCEPT ![m] = "changed"]
      /\ cache' = [cache EXCEPT ![m] = [cache[m] EXCEPT ![h] = objects[m][h]]]
      /\ text' = [text EXCEPT ![m] = [i \in Items |-> IF i \in {h} THEN None ELSE text[m][i]]]
      /\ live' = [live EXCEPT ![m] = live[m] \cup {h}]
      /\ UNCHANGED <<disk, stamp, lock, op, seen, known, objects, held>>
  BY DEF MutateUpdate, Forget, Goto
<1>3. /\ h \in Items /\ objects[m][h] \in Values
      /\ cache[m] \in [Items -> Records] /\ AgreesBut(m, h)
  BY <1>1, <1>2, OwnTypes DEF Coherent, Owns, Knows, Locked
<1>4. /\ pc'[m] = "changed" /\ live'[m] = live[m] \cup {h}
      /\ cache'[m] = [cache[m] EXCEPT ![h] = objects[m][h]]
      /\ text'[m] = [i \in Items |-> IF i \in {h} THEN None ELSE text[m][i]]
  BY <1>1, <1>2 DEF TypeOK
<1>5. /\ cache'[m] \in [Items -> Records] /\ text'[m] \in [Items -> Values \cup {None}]
      /\ live'[m] \in SUBSET Items
  BY <1>1, <1>3, <1>4, OwnTypes DEF Records
<1>6. TypeOK'
  BY <1>1, <1>2, <1>4, <1>5 DEF TypeOK
<1>7. Owns(m)'
  BY <1>1, <1>2, <1>4, <1>5, Distinct DEF Coherent, Owns, Locked
<1>8. /\ text'[m][h] = None /\ cache'[m][h] \in Values
      /\ \A i \in Items : i # h => cache'[m][i] = disk[i] /\ text'[m][i] \in {None, disk[i]}
  BY <1>3, <1>4 DEF AgreesBut
<1>9. Pending(m)'
  BY <1>2, <1>3, <1>8, Distinct DEF Pending, AgreesBut
<1>10. Knows(m)'
  BY <1>1, <1>2, <1>4, <1>5, <1>9, Distinct DEF Coherent, Knows
<1>11. \A n \in Managers : n # m => Untouched(n)
  BY <1>1, <1>2 DEF Untouched, TypeOK
<1> QED
  BY <1>2, <1>6, <1>7, <1>10, <1>11, OneMoves DEF Coherent

\* The other mutations: records with the value v on disk become w, and at least their
\* texts are dropped.
LEMMA SetToKeeps ==
  ASSUME IInv, NEW m \in Managers, NEW v, NEW w \in Values,
         NEW T \in SUBSET Items, NEW S \in SUBSET T, \A i \in S : cache[m][i] = v,
         pc[m] = "loaded", op[m] # "update", SetTo(m, S, w), Forget(m, T),
         MadeFrom(m, S, v, w)' => Pending(m)'
  PROVE  IInv'
<1>1. TypeOK /\ Coherent(m)
  BY DEF IInv
<1>2. /\ pc' = [pc EXCEPT ![m] = "changed"]
      /\ cache' = [cache EXCEPT ![m] = [i \in Items |-> IF i \in S THEN w ELSE cache[m][i]]]
      /\ text' = [text EXCEPT ![m] = [i \in Items |-> IF i \in T THEN None ELSE text[m][i]]]
      /\ UNCHANGED <<disk, stamp, lock, op, seen, known, objects, live, held>>
  BY DEF SetTo, Forget, Goto
<1>3. cache[m] \in [Items -> Records] /\ held[m] = None /\ AgreesBut(m, None)
  BY <1>1, OwnTypes DEF Coherent, Owns, Knows, Locked
<1>4. /\ pc'[m] = "changed"
      /\ cache'[m] = [i \in Items |-> IF i \in S THEN w ELSE cache[m][i]]
      /\ text'[m] = [i \in Items |-> IF i \in T THEN None ELSE text[m][i]]
  BY <1>1, <1>2 DEF TypeOK
<1>5. cache'[m] \in [Items -> Records] /\ text'[m] \in [Items -> Values \cup {None}]
  BY <1>1, <1>3, <1>4, OwnTypes, Distinct DEF Records
<1>6. TypeOK'
  BY <1>1, <1>2, <1>5 DEF TypeOK
<1>7. Owns(m)'
  BY <1>1, <1>2, <1>4, <1>5, Distinct DEF Coherent, Owns, Locked
<1>8. \A i \in S : disk[i] = v
  BY <1>3, Distinct DEF AgreesBut
<1>9. MadeFrom(m, S, v, w)'
  BY <1>2, <1>3, <1>4, <1>8, Distinct DEF MadeFrom, AgreesBut
<1>10. Pending(m)'
  BY <1>9
<1>11. Knows(m)'
  BY <1>1, <1>2, <1>4, <1>5, <1>10, Distinct DEF Coherent, Knows
<1>12. \A n \in Managers : n # m => Untouched(n)
  BY <1>1, <1>2 DEF Untouched, TypeOK
<1> QED
  BY <1>2, <1>6, <1>7, <1>11, <1>12, OneMoves DEF Coherent

LEMMA MutateRegisterKeeps ==
  ASSUME IInv, NEW m \in Managers, MutateRegister(m) PROVE IInv'
<1>1. PICK S \in SUBSET {i \in Items : cache[m][i] = Absent} : SetTo(m, S, New) /\ Forget(m, S)
  BY DEF MutateRegister
<1>2. MadeFrom(m, S, Absent, New)' => Pending(m)'
  BY <1>1 DEF MutateRegister, SetTo, Pending
<1> QED
  BY <1>1, <1>2, SetToKeeps, StateStoreAssumption DEF MutateRegister

LEMMA MutateResetKeeps == ASSUME IInv, NEW m \in Managers, MutateReset(m) PROVE IInv'
<1>1. PICK S \in SUBSET {i \in Items : cache[m][i] = GivenUp} : SetTo(m, S, New) /\ Forget(m, S)
  BY DEF MutateReset
<1>2. MadeFrom(m, S, GivenUp, New)' => Pending(m)'
  BY <1>1 DEF MutateReset, SetTo, Pending
<1> QED
  BY <1>1, <1>2, SetToKeeps, StateStoreAssumption DEF MutateReset

LEMMA MutateStateKeeps == ASSUME IInv, NEW m \in Managers, MutateState(m) PROVE IInv'
<1>1. ASSUME NEW S \in SUBSET {i \in Items : cache[m][i] = Noted}, SetTo(m, S, Moved)
      PROVE  IInv'
  <2>1. MadeFrom(m, S, Noted, Moved)' => Pending(m)'
    BY <1>1 DEF MutateState, SetTo, Pending
  <2> QED
    BY <1>1, <2>1, SetToKeeps, StateStoreAssumption DEF MutateState
<1>2. ASSUME NEW i \in Items, NEW v \in Values, SetTo(m, {i}, v)
      PROVE  IInv'
  <2>1. /\ MadeFrom(m, {i}, cache[m][i], v)' => disk'[i] = cache[m][i]'
        /\ disk' = disk /\ op' = op /\ op[m] = "mutate"
    BY <1>2 DEF MutateState, SetTo, MadeFrom
  <2>2. cache[m][i] = disk[i]
    BY Distinct DEF MutateState, IInv, Coherent, Owns, Knows, Locked, AgreesBut
  <2>3. ASSUME NEW u, u = disk[i], MadeFrom(m, {i}, u, v)' PROVE Pending(m)'
    BY <1>2, <2>1, <2>3 DEF Pending, MadeFrom
  <2> DEFINE u == disk[i]
  <2>4. \A j \in {i} : cache[m][j] = u
    BY <2>2
  <2> HIDE DEF u
  <2> QED
    BY <1>2, <2>3, <2>4, SetToKeeps DEF MutateState, u
<1> QED
  BY <1>1, <1>2 DEF MutateState

\* What a save makes of a pending mutation: the file becomes the parsed state, and
\* the texts that are kept are its records.
LEMMA RenderedIsCache ==
  ASSUME IInv, NEW m \in Managers, pc[m] = "changed"
  PROVE  /\ cache[m] \in [Items -> Records] /\ Rendered(m) = cache[m]
         /\ Kept(m) \in [Items -> Values \cup {None}]
         /\ \A i \in Items : Kept(m)[i] \in {None, cache[m][i]}
<1>1. TypeOK /\ Coherent(m) /\ Pending(m) /\ cache[m] \in [Items -> Records]
  BY OwnTypes DEF IInv, Coherent, Knows
<1>2. ASSUME NEW i \in Items PROVE text[m][i] \in {None, cache[m][i]}
  <2>1. CASE op[m] = "update"
    BY <1>1, <2>1 DEF Pending, AgreesBut
  <2>2. CASE op[m] # "update"
    BY <1>1, <2>2 DEF Pending, MadeFrom
  <2> QED
    BY <2>1, <2>2
<1>3. ASSUME NEW i \in Items PROVE Rendered(m)[i] = cache[m][i]
  BY <1>2 DEF Rendered
<1>4. Rendered(m) = cache[m]
  BY <1>1, <1>3 DEF Rendered
<1>5. Kept(m) = [i \in Items |-> IF cache[m][i] = Absent THEN None ELSE cache[m][i]]
  BY <1>4 DEF Kept
<1> QED
  BY <1>1, <1>4, <1>5 DEF Records

LEMMA WriteKeeps == ASSUME IInv, NEW m \in Managers, Write(m) PROVE IInv'
<1>1. TypeOK /\ Coherent(m)
  BY DEF IInv
<1>2. /\ pc[m] = "changed" /\ pc' = [pc EXCEPT ![m] = "written"]
      /\ disk' = Rendered(m) /\ text' = [text EXCEPT ![m] = Kept(m)] /\ stamp' = stamp + 1
      /\ UNCHANGED <<lock, op, seen, cache, known, objects, live, held>>
  BY DEF Write, Goto
<1>3. disk' = cache[m]
  BY <1>2, RenderedIsCache
<1>4. TypeOK'
  BY <1>1, <1>2, <1>3, RenderedIsCache DEF TypeOK
<1>5. pc'[m] = "written" /\ text'[m] = Kept(m) /\ lock = m
  BY <1>1, <1>2 DEF TypeOK, Coherent, Owns, Locked
<1>6. Owns(m)'
  BY <1>1, <1>2, <1>5 DEF Coherent, Owns, Locked
<1>7. AgreesBut(m, None)'
  BY <1>2, <1>3, <1>5, RenderedIsCache DEF AgreesBut
<1>8. stamp \in Nat /\ seen[m] \in Nat /\ known[m] \in Nat \cup {None} /\ None \notin Nat
  BY <1>1, OwnTypes, Distinct
<1>9. Knows(m)'
  BY <1>1, <1>2, <1>5, <1>7, <1>8 DEF Coherent, Knows
<1>10. \A n \in Managers : n # m => Untouched(n)
  BY <1>1, <1>2 DEF Untouched, TypeOK
<1> QED
  BY <1>2, <1>4, <1>5, <1>6, <1>9, <1>10, OneMoves DEF Coherent

\* A manager that has dropped what it had in memory is coherent.
LEMMA DropKeeps ==
  ASSUME IInv, NEW m \in Managers, Drop(m), UNCHANGED <<disk, stamp>>,
         lock' = IF lock = m THEN None ELSE lock
  PROVE  IInv'
<1>1. TypeOK /\ stamp \in Nat
  BY DEF IInv, TypeOK
<1>2. /\ pc' = [pc EXCEPT ![m] = "idle"] /\ op' = [op EXCEPT ![m] = "none"]
      /\ seen' = [seen EXCEPT ![m] = 0] /\ cache' = [cache EXCEPT ![m] = None]
      /\ known' = [known EXCEPT ![m] = None] /\ text' = [text EXCEPT ![m] = NoText]
      /\ objects' = [objects EXCEPT ![m] = None] /\ live' = [live EXCEPT ![m] = {}]
      /\ held' = [held EXCEPT ![m] = None]
  BY DEF Drop, Goto
<1>3. TypeOK'
  BY <1>1, <1>2 DEF TypeOK, NoText
<1>4. /\ pc'[m] = "idle" /\ seen'[m] = 0 /\ cache'[m] = None /\ known'[m] = None
      /\ objects'[m] = None /\ live'[m] = {} /\ held'[m] = None /\ lock' # m
  BY <1>1, <1>2, Distinct DEF TypeOK
<1>5. Owns(m)'
  BY <1>4 DEF Owns, Locked
<1>6. Knows(m)'
  BY <1>1, <1>4 DEF Knows
<1>7. \A n \in Managers : n # m => Untouched(n) /\ (lock' = n <=> lock = n)
  BY <1>1, <1>2, Distinct DEF Untouched, TypeOK
<1> QED
  BY <1>3, <1>5, <1>6, <1>7, OneMoves DEF Coherent

LEMMA UnlockKeeps == ASSUME IInv, NEW m \in Managers, Unlock(m) PROVE IInv'
<1>1. TypeOK /\ Coherent(m) /\ pc[m] = "written" /\ lock = m
  BY DEF IInv, Unlock, Coherent, Owns, Locked
<1>2. CASE m \in Requests
  BY <1>1, <1>2, DropKeeps DEF Unlock
<1>3. CASE m \notin Requests
  <2>1. /\ lock' = None /\ pc' = [pc EXCEPT ![m] = "idle"]
        /\ known' = [known EXCEPT ![m] = stamp] /\ op' = [op EXCEPT ![m] = "none"]
        /\ held' = [held EXCEPT ![m] = None]
        /\ UNCHANGED <<disk, stamp, seen, cache, text, objects, live>>
    BY <1>3 DEF Unlock, Goto
  <2>2. TypeOK'
    BY <1>1, <2>1 DEF TypeOK
  <2>3. pc'[m] = "idle" /\ known'[m] = stamp /\ held'[m] = None
    BY <1>1, <2>1 DEF TypeOK
  <2>4. Owns(m)'
    BY <1>1, <1>3, <2>1, <2>3, Distinct DEF Coherent, Owns, Locked
  <2>5. Knows(m)'
    BY <1>1, <2>1, <2>3, OwnTypes DEF Coherent, Knows, AgreesBut
  <2>6. \A n \in Managers : n # m => Untouched(n) /\ (lock' = n <=> lock = n)
    BY <1>1, <2>1, Distinct DEF Untouched, TypeOK
  <2> QED
    BY <2>1, <2>2, <2>4, <2>5, <2>6, OneMoves DEF Coherent
<1> QED
  BY <1>2, <1>3

LEMMA UpdateFailsKeeps == ASSUME IInv, NEW m \in Managers, UpdateFails(m) PROVE IInv'
<1>1. /\ TypeOK /\ Coherent(m) /\ pc[m] = "changed" /\ lock = m /\ op[m] = "update"
      /\ Pending(m)
  BY DEF IInv, UpdateFails, Coherent, Owns, Knows, Locked
<1>2. PICK t \in {text[m], Kept(m)} : text' = [text EXCEPT ![m] = t]
  <2>1. text = [text EXCEPT ![m] = text[m]]
    BY <1>1 DEF TypeOK
  <2> QED
    BY <2>1 DEF UpdateFails
<1>3. /\ lock' = None /\ pc' = [pc EXCEPT ![m] = "idle"] /\ op' = [op EXCEPT ![m] = "none"]
      /\ UNCHANGED <<disk, stamp, seen, cache, known, objects, live, held>>
  BY DEF UpdateFails, Goto
<1>4. t \in [Items -> Values \cup {None}] /\ \A i \in Items : t[i] \in {None, text[m][i], cache[m][i]}
  BY <1>1, <1>2, RenderedIsCache, OwnTypes
<1>5. pc'[m] = "idle" /\ text'[m] = t
  BY <1>1, <1>2, <1>3 DEF TypeOK
<1>6. TypeOK'
  BY <1>1, <1>2, <1>3, <1>4 DEF TypeOK
<1>7. Owns(m)'
  BY <1>1, <1>3, <1>5, Distinct DEF Coherent, Owns, Locked
<1>8. AgreesBut(m, held[m])'
  BY <1>1, <1>3, <1>4, <1>5 DEF Pending, AgreesBut
<1>9. Knows(m)'
  BY <1>1, <1>3, <1>5, <1>8, OwnTypes DEF Coherent, Knows
<1>10. \A n \in Managers : n # m => Untouched(n) /\ (lock' = n <=> lock = n)
  BY <1>1, <1>2, <1>3, Distinct DEF Untouched, TypeOK
<1> QED
  BY <1>3, <1>6, <1>7, <1>9, <1>10, OneMoves DEF Coherent

LEMMA EndKeeps == ASSUME IInv, NEW m \in Managers, End(m) PROVE IInv'
BY DropKeeps DEF End

LEMMA NextIInv == IInv /\ [Next]_vars => IInv'
<1> SUFFICES ASSUME IInv, [Next]_vars PROVE IInv'
  OBVIOUS
<1>1. CASE UNCHANGED vars
  <2>1. ASSUME NEW m \in Managers PROVE Coherent(m)'
    <3>1. Coherent(m)
      BY DEF IInv
    <3>2. Pending(m)' <=> Pending(m)
      BY <1>1 DEF vars, Pending, MadeFrom, AgreesBut
    <3> QED
      BY <1>1, <3>1, <3>2 DEF vars, Coherent, Owns, Knows, AgreesBut
  <2>2. TypeOK'
    BY <1>1 DEF IInv, vars, TypeOK
  <2> QED
    BY <2>1, <2>2 DEF IInv
<1>2. ASSUME NEW m \in Managers, Step(m) PROVE IInv'
  <2>1. CASE List(m)
    BY <2>1, ListKeeps
  <2>2. CASE ListParsed(m)
    BY <2>2, ListParsedKeeps
  <2>3. CASE \E i \in Items : Edit(m, i)
    BY <2>3, EditKeeps
  <2>4. CASE \E o \in {"register", "update", "reset", "mutate"} : Lock(m, o)
    BY <2>4, LockKeeps
  <2>5. CASE Load(m) \/ LoadParsed(m)
    BY <2>5, LoadKeeps, LoadParsedKeeps
  <2>6. CASE MutateUpdate(m) \/ MutateRegister(m) \/ MutateReset(m) \/ MutateState(m)
    BY <2>6, MutateUpdateKeeps, MutateRegisterKeeps, MutateResetKeeps, MutateStateKeeps
  <2>7. CASE Write(m) \/ Unlock(m) \/ UpdateFails(m) \/ End(m)
    BY <2>7, WriteKeeps, UnlockKeeps, UpdateFailsKeeps, EndKeeps
  <2> QED
    BY <1>2, <2>1, <2>2, <2>3, <2>4, <2>5, <2>6, <2>7 DEF Step
<1> QED
  BY <1>1, <1>2 DEF Next

\* What every manager has in memory stays coherent with the file, the stamp and the
\* lock, through every interleaving, failed save and end of a manager.
THEOREM Invariance == Spec => []IInv
<1> QED
  BY InitIInv, NextIInv, PTL DEF Spec

\* Type correctness of the managers.
THEOREM TypeCorrect == Spec => []TypeOK
<1>1. IInv => TypeOK
  BY DEF IInv
<1> QED
  BY <1>1, Invariance, PTL

\* A mutation starts from what state.json holds (load_state's docstring).
THEOREM MutatesCurrentHolds == Spec => []MutatesCurrent
<1>1. ASSUME IInv PROVE MutatesCurrent
  <2> SUFFICES ASSUME NEW m \in Managers, pc[m] = "loaded", NEW i \in Items
               PROVE  cache[m][i] = disk[i] \/ (op[m] = "update" /\ i = held[m])
    BY DEF MutatesCurrent
  <2>1. AgreesBut(m, held[m]) /\ (op[m] = "update" <=> held[m] # None)
    BY <1>1 DEF IInv, Coherent, Owns, Knows, Locked
  <2> QED
    BY <2>1, Distinct DEF AgreesBut
<1> QED
  BY <1>1, Invariance, PTL

\* After a save the cache, the texts and the file agree (save_state).
THEOREM CacheIsFileHolds == Spec => []CacheIsFile
<1>1. IInv => CacheIsFile
  BY Distinct DEF IInv, Coherent, Knows, AgreesBut, CacheIsFile
<1> QED
  BY <1>1, Invariance, PTL

\* A save is one operation of the table.
LEMMA WriteIsOperation ==
  ASSUME IInv, NEW m \in Managers, Write(m)
  PROVE  Store!Next
<1>1. /\ TypeOK /\ pc[m] = "changed" /\ Pending(m)
      /\ disk' = cache[m] /\ cache[m] \in [Items -> Records] /\ disk \in [Items -> Records]
  BY RenderedIsCache DEF IInv, TypeOK, Coherent, Knows, Write
<1>2. CASE op[m] = "update"
  <2>1. /\ held[m] \in Items /\ cache[m][held[m]] \in Values
        /\ \A i \in Items : i # held[m] => cache[m][i] = disk[i]
    BY <1>1, <1>2, OwnTypes DEF Pending, AgreesBut
  <2>2. disk' = [disk EXCEPT ![held[m]] = cache[m][held[m]]]
    BY <1>1, <2>1
  <2> QED
    BY <2>1, <2>2 DEF Store!Next, Store!Update
<1>3. CASE op[m] = "register"
  <2>1. PICK S \in SUBSET Items : MadeFrom(m, S, Absent, New)
    BY <1>1, <1>3 DEF Pending
  <2>2. disk' = [i \in Items |-> IF i \in S THEN New ELSE disk[i]]
    BY <1>1, <2>1 DEF MadeFrom
  <2>3. \A i \in S : disk[i] = Absent
    BY <2>1 DEF MadeFrom
  <2> QED
    BY <2>2, <2>3 DEF Store!Next, Store!Register
<1>4. CASE op[m] = "reset"
  <2>1. PICK S \in SUBSET Items : MadeFrom(m, S, GivenUp, New)
    BY <1>1, <1>4 DEF Pending
  <2>2. disk' = [i \in Items |-> IF i \in S THEN New ELSE disk[i]]
    BY <1>1, <2>1 DEF MadeFrom
  <2>3. \A i \in S : disk[i] = GivenUp
    BY <2>1 DEF MadeFrom
  <2> QED
    BY <2>2, <2>3 DEF Store!Next, Store!Reset
<1>5. ASSUME NEW S \in SUBSET Items, MadeFrom(m, S, Noted, Moved) PROVE Store!Next
  <2>1. disk' = [i \in Items |-> IF i \in S THEN Moved ELSE disk[i]]
    BY <1>1, <1>5 DEF MadeFrom
  <2>2. \A i \in S : disk[i] = Noted
    BY <1>5 DEF MadeFrom
  <2> QED
    BY <2>1, <2>2 DEF Store!Next, Store!Repoint
<1>6. ASSUME NEW i \in Items, NEW v \in Values, MadeFrom(m, {i}, disk[i], v) PROVE Store!Next
  <2>1. cache[m][i] = v /\ \A j \in Items : j # i => cache[m][j] = disk[j]
    BY <1>6 DEF MadeFrom
  <2>2. disk' = [disk EXCEPT ![i] = v]
    BY <1>1, <2>1
  <2> QED
    BY <2>2 DEF Store!Next, Store!Update
<1> QED
  BY <1>1, <1>2, <1>3, <1>4, <1>5, <1>6 DEF Pending

\* Every other step leaves the file alone.
LEMMA OthersLeaveFile ==
  ASSUME NEW m \in Managers, Step(m), ~Write(m)
  PROVE  disk' = disk
BY DEF Step, List, ListParsed, Edit, Lock, Load, LoadParsed, MutateUpdate, MutateRegister,
       MutateReset, MutateState, SetTo, Unlock, UpdateFails, End

\* What each step of the managers is to the file.
LEMMA StepIsOperation == IInv /\ [Next]_vars => [Store!Next]_disk
<1> SUFFICES ASSUME IInv, [Next]_vars PROVE Store!Next \/ disk' = disk
  OBVIOUS
<1>1. CASE UNCHANGED vars
  BY <1>1 DEF vars
<1>2. ASSUME NEW m \in Managers, Step(m) PROVE Store!Next \/ disk' = disk
  BY <1>2, WriteIsOperation, OthersLeaveFile
<1> QED
  BY <1>1, <1>2 DEF Next

\* The managers together implement the table: whatever they cache and however their
\* steps interleave, the file changes by one operation of RecordStore at a time.
THEOREM Implements == Spec => ImplementsRecordStore
<1>1. Init => Store!Init
  BY DEF Init, Store!Init
<1> QED
  BY <1>1, StepIsOperation, Invariance, PTL DEF Spec, ImplementsRecordStore, Store!Spec

\* A registered record stays in the file, and a save changes one record only, unless it
\* registers new ones, starts given-up ones over or gives moved notes their paths: whatever the managers had in their caches,
\* none takes back what another has saved (queue_manager.py, docstring of _locked_mutate).
THEOREM RecordsKept ==
  Spec => [][/\ \A i \in Items : disk[i] # Absent => disk'[i] # Absent
             /\ \A i, j \in Items :
                  i # j /\ disk'[i] # disk[i] /\ disk'[j] # disk[j]
                  => /\ disk[i] = disk[j] /\ disk'[i] = disk'[j]
                     /\ <<disk[i], disk'[i]>> \in
                          {<<Absent, New>>, <<GivenUp, New>>, <<Noted, Moved>>}]_disk
<1>1. ASSUME IInv, Store!Next
      PROVE  /\ \A i \in Items : disk[i] # Absent => disk'[i] # Absent
             /\ \A i, j \in Items :
                  i # j /\ disk'[i] # disk[i] /\ disk'[j] # disk[j]
                  => /\ disk[i] = disk[j] /\ disk'[i] = disk'[j]
                     /\ <<disk[i], disk'[i]>> \in
                          {<<Absent, New>>, <<GivenUp, New>>, <<Noted, Moved>>}
  <2>1. /\ disk \in [Items -> Records] /\ {New, Moved} \subseteq Values
        /\ Absent \notin Values
    BY <1>1, StateStoreAssumption DEF IInv, TypeOK
  <2>2. ASSUME NEW S \in SUBSET Items, NEW v, NEW w, \A i \in S : disk[i] = v,
               <<v, w>> \in {<<Absent, New>>, <<GivenUp, New>>, <<Noted, Moved>>},
               disk' = [i \in Items |-> IF i \in S THEN w ELSE disk[i]]
        PROVE  /\ \A i \in Items : disk[i] # Absent => disk'[i] # Absent
               /\ \A i, j \in Items :
                    i # j /\ disk'[i] # disk[i] /\ disk'[j] # disk[j]
                    => /\ disk[i] = disk[j] /\ disk'[i] = disk'[j]
                       /\ <<disk[i], disk'[i]>> \in
                            {<<Absent, New>>, <<GivenUp, New>>, <<Noted, Moved>>}
    BY <2>1, <2>2
  <2>3. ASSUME NEW i \in Items, Store!Update(i)
        PROVE  /\ disk'[i] # Absent /\ \A j \in Items \ {i} : disk'[j] = disk[j]
    BY <2>1, <2>3 DEF Store!Update
  <2> QED
    BY <1>1, <2>2, <2>3 DEF Store!Next, Store!Register, Store!Reset, Store!Repoint
<1> QED
  BY <1>1, StepIsOperation, Invariance, PTL DEF Spec
===============================================================================
