---------------------------- MODULE Transactions ----------------------------
(***************************************************************************)
(* Rows, optimistic locks and transactions: gorp (Insert, Get, Update and  *)
(* Delete with a Version column, Transaction) under rest's Transaction     *)
(* with its stack of savepoints and REST.Transaction that nests them.      *)
(*                                                                         *)
(* A model of a handler holds at most one struct and one transaction.  The *)
(* database is external: a row that an open transaction changed is locked  *)
(* until it ends, and is seen by others as it was before.                  *)
(*                                                                         *)
(* seen, write, life and undone are history: which change of the row a     *)
(* struct stands for, and what the transactions took back.                 *)
(***************************************************************************)
EXTENDS Naturals, Sequences

CONSTANTS Models,    \* the REST models of running handlers
          Handles,   \* the transactions the database gives out
          Keys,      \* primary keys
          None,      \* no transaction, no struct
          MaxWrites, \* bound: changes of rows
          MaxPoints  \* bound: savepoints

VARIABLES table,  \* the row of each key as its last writer left it
          state,  \* of each handle: not given out, open, ended
          undo,   \* what each transaction changed: [key, row before it]
          marks,  \* the savepoints the database has
          points, \* Transaction.savepoints
          trans,  \* REST.transaction
          held,   \* the struct of each model
          tags,   \* of each change of a row: the transaction and savepoints it was made under
          named,  \* number of savepoints named so far
          undone, \* handles and savepoints rolled back with success
          blind   \* the changes that replaced one they had not read

dbVars == <<table, state, undo, marks>>
goVars == <<points, trans, held>>
history == <<tags, named, undone, blind>>
vars == <<dbVars, goVars, history>>

(* write: its last change.  life: the insert that made it.  zeroed: the    *)
(* last change came from a struct with version 0.                          *)
NoRow == [alive |-> FALSE, ver |-> 0, write |-> 0, life |-> 0, zeroed |-> FALSE]
Struct == [key : Keys, ver : Nat, seen : Nat, life : Nat]
Executors == Handles \cup {None}

Open(h) == h \in Handles /\ state[h] = "open"
Changed(h) == {undo[h][i].key : i \in DOMAIN undo[h]}
LockedBy(e, k) == \E h \in Handles \ {e} : Open(h) /\ k \in Changed(h)

(* A row before the changes of h from the n-th on.                         *)
Before(h, n, k) ==
  LET later == {i \in DOMAIN undo[h] : i > n /\ undo[h][i].key = k}
  IN  IF later = {} THEN table[k] ELSE undo[h][CHOOSE i \in later : \A j \in later : i <= j].row

(* The row as executor e sees it.                                          *)
Row(e, k) ==
  IF LockedBy(e, k) THEN Before(CHOOSE h \in Handles \ {e} : Open(h) /\ k \in Changed(h), 0, k)
                    ELSE table[k]

UpTo(s, n) == SubSeq(s, 1, n)
Top(s) == s[Len(s)]
Pop(s) == UpTo(s, Len(s) - 1)

-----------------------------------------------------------------------------
(* A faulty variant of a definition below, for a mutant of a run.          *)

(* A change of a row whatever its version is by now.                       *)
MatchesAlive(row, ver) == row.alive

-----------------------------------------------------------------------------

Init ==
  /\ table = [k \in Keys |-> NoRow]
  /\ state = [h \in Handles |-> "new"]
  /\ undo = [h \in Handles |-> <<>>] /\ marks = [h \in Handles |-> <<>>]
  /\ points = [h \in Handles |-> <<>>]
  /\ trans = [m \in Models |-> None] /\ held = [m \in Models |-> None]
  /\ tags = <<>> /\ named = 0 /\ undone = {} /\ blind = {}

-----------------------------------------------------------------------------
(* Transactions *)

(* Savepoint: the name goes on the stack before the database is asked, and *)
(* stays there when the statement fails.                                   *)
Savepoint(h) ==
  /\ named < MaxPoints
  /\ named' = named + 1
  /\ points' = [points EXCEPT ![h] = Append(@, named + 1)]
  /\ \/ marks' = [marks EXCEPT ![h] = Append(@, [name |-> named + 1, at |-> Len(undo[h])])]
     \/ UNCHANGED marks
  /\ UNCHANGED <<table, state, undo, held, tags, undone, blind>>

(* REST.Transaction: the model's own open transaction, else the open one   *)
(* it is handed, else a new one.                                           *)
Nest(m) ==
  /\ Open(trans[m])
  /\ Savepoint(trans[m])
  /\ UNCHANGED trans

Inherit(m, h) ==
  /\ ~Open(trans[m]) /\ Open(h)
  /\ \E n \in Models : trans[n] = h
  /\ Savepoint(h)
  /\ trans' = [trans EXCEPT ![m] = h]

Begin(m, h) ==
  /\ ~Open(trans[m]) /\ state[h] = "new"
  /\ state' = [state EXCEPT ![h] = "open"]
  /\ trans' = [trans EXCEPT ![m] = h]
  /\ UNCHANGED <<table, undo, marks, points, held, history>>

(* CommitAll, RollbackAll: what fails to commit is rolled back.            *)
End(h, kept) ==
  /\ state' = [state EXCEPT ![h] = "ended"]
  /\ undo' = [undo EXCEPT ![h] = <<>>] /\ marks' = [marks EXCEPT ![h] = <<>>]
  /\ IF kept THEN UNCHANGED <<table, undone>>
             ELSE /\ table' = [k \in Keys |-> Before(h, 0, k)]
                  /\ undone' = undone \cup {h}
  /\ UNCHANGED <<points, trans, held, tags, named, blind>>

CommitAll(h) == Open(h) /\ points[h] = <<>> /\ \E kept \in BOOLEAN : End(h, kept)

RollbackAll(h) == Open(h) /\ End(h, FALSE)

(* Commit and Rollback with savepoints go by the one on top.  One the      *)
(* database does not have is an error and leaves the rows alone.           *)
Named(h) == {i \in DOMAIN marks[h] : marks[h][i].name = Top(points[h])}

ReleaseSavepoint(h) ==
  /\ Open(h) /\ points[h] # <<>>
  /\ marks' = [marks EXCEPT ![h] = IF Named(h) = {} THEN @ ELSE UpTo(@, (CHOOSE i \in Named(h) : TRUE) - 1)]
  /\ points' = [points EXCEPT ![h] = Pop(@)]
  /\ UNCHANGED <<table, state, undo, trans, held, history>>

RollbackToSavepoint(h) ==
  /\ Open(h) /\ points[h] # <<>>
  /\ \/ /\ Named(h) = {}
        /\ UNCHANGED <<table, undo, marks, undone>>
     \/ \E i \in Named(h) : LET n == marks[h][i].at IN
          /\ marks' = [marks EXCEPT ![h] = UpTo(@, i)]
          /\ undo' = [undo EXCEPT ![h] = UpTo(@, n)]
          /\ table' = [k \in Keys |-> Before(h, n, k)]
          /\ undone' = undone \cup {Top(points[h])}
  /\ points' = [points EXCEPT ![h] = Pop(@)]
  /\ UNCHANGED <<state, trans, held, tags, named, blind>>

(* REST.reset: the handler is done.  A transaction still open stays so.    *)
Reset(m) ==
  /\ trans' = [trans EXCEPT ![m] = None] /\ held' = [held EXCEPT ![m] = None]
  /\ UNCHANGED <<dbVars, points, history>>

-----------------------------------------------------------------------------
(* Rows *)

(* A struct is made by a handler, or by Get from a row.                    *)
New(m, k) ==
  /\ held' = [held EXCEPT ![m] = [key |-> k, ver |-> 0, seen |-> 0, life |-> 0]]
  /\ UNCHANGED <<dbVars, points, trans, history>>

Get(m, k, e) ==
  /\ LET row == Row(e, k) IN
       /\ row.alive
       /\ held' = [held EXCEPT ![m] = [key |-> k, ver |-> row.ver, seen |-> row.write, life |-> row.life]]
  /\ UNCHANGED <<dbVars, points, trans, history>>

Change == Len(tags) + 1

(* A statement that changes the row of k, through executor e.              *)
Write(k, e, row) ==
  /\ Len(tags) < MaxWrites /\ ~LockedBy(e, k)
  /\ tags' = Append(tags, IF e = None THEN {} ELSE {e} \cup {points[e][i] : i \in DOMAIN points[e]})
  /\ table' = [table EXCEPT ![k] = [row EXCEPT !.write = Change]]
  /\ undo' = IF e = None THEN undo ELSE [undo EXCEPT ![e] = Append(@, [key |-> k, row |-> table[k]])]
  /\ UNCHANGED <<state, marks, points, trans, named, undone>>

(* A change of a row that was there, by what a struct says of it.          *)
Replaces(s, row) ==
  blind' = IF s.seen = row.write THEN blind
           ELSE blind \cup {[held |-> s.ver, found |-> row.ver, unread |-> s.seen = 0, zeroed |-> row.zeroed,
                             reborn |-> s.life \notin {0, row.life},
                             rolled |-> s.seen # 0 /\ tags[s.seen] \cap undone # {}]}

(* insert: the row gets the next version, and so does a struct with 0.     *)
Insert(m, e) ==
  LET s == held[m] IN
  /\ s # None /\ ~table[s.key].alive
  /\ Write(s.key, e, [NoRow EXCEPT !.alive = TRUE, !.ver = s.ver + 1, !.life = Change])
  /\ held' = [held EXCEPT ![m] = [s EXCEPT !.ver = IF s.ver = 0 THEN 1 ELSE s.ver, !.seen = Change, !.life = Change]]
  /\ UNCHANGED blind

(* bindUpdate: the new version is bound first.  Binding it stores 1 in a   *)
(* struct with version 0, from which the WHERE clause is bound afterwards. *)
Matches(row, ver) == row.alive /\ row.ver = IF ver = 0 THEN 1 ELSE ver

Update(m, e) ==
  LET s == held[m] IN
  /\ s # None /\ Matches(table[s.key], s.ver)
  /\ Write(s.key, e, [table[s.key] EXCEPT !.ver = s.ver + 1, !.zeroed = s.ver = 0])
  /\ Replaces(s, table[s.key])
  /\ held' = [held EXCEPT ![m] = [s EXCEPT !.ver = s.ver + 1, !.seen = Change, !.life = table[s.key].life]]

(* No row has the key and the version: an OptimisticLockError, or          *)
(* ErrNoRows, for a struct with a version, ...                             *)
UpdateNothing(m, e) ==
  LET s == held[m] IN
  /\ s # None /\ ~LockedBy(e, s.key) /\ ~Matches(table[s.key], s.ver)
  /\ s.ver = 0   \* ... and no error for one without, which has version 1 now
  /\ held' = [held EXCEPT ![m] = [@ EXCEPT !.ver = 1]]
  /\ UNCHANGED <<dbVars, points, trans, history>>

(* delete: its WHERE clause has the version of the struct as it is.        *)
Delete(m, e) ==
  LET s == held[m] IN
  /\ s # None /\ table[s.key].alive /\ table[s.key].ver = s.ver
  /\ Write(s.key, e, NoRow)
  /\ Replaces(s, table[s.key])
  /\ UNCHANGED held

-----------------------------------------------------------------------------

Uses(m, e) == e = None \/ (Open(e) /\ trans[m] = e)

OnRow(m) ==
  \/ \E k \in Keys : New(m, k)
  \/ \E e \in Executors : Uses(m, e) /\ (Insert(m, e) \/ Update(m, e) \/ UpdateNothing(m, e) \/ Delete(m, e)
                                           \/ \E k \in Keys : Get(m, k, e))

OnTransaction(m) ==
  \/ Nest(m) \/ Reset(m)
  \/ \E h \in Handles : Inherit(m, h) \/ Begin(m, h)
  \/ trans[m] # None /\ (\/ CommitAll(trans[m]) \/ RollbackAll(trans[m])
                         \/ ReleaseSavepoint(trans[m]) \/ RollbackToSavepoint(trans[m]))

Next == \E m \in Models : OnRow(m) \/ OnTransaction(m)

Spec == Init /\ [][Next]_vars

-----------------------------------------------------------------------------
(* Properties *)

TypeOK ==
  /\ \A k \in Keys : table[k].ver \in Nat /\ table[k].write \in 0..MaxWrites
  /\ state \in [Handles -> {"new", "open", "ended"}]
  /\ \A h \in Handles : undo[h] \in Seq([key : Keys, row : {table[k] : k \in Keys} \cup {undo[h][i].row : i \in DOMAIN undo[h]}])
  /\ trans \in [Models -> Executors]
  /\ \A m \in Models : held[m] # None => held[m] \in Struct

(* Nothing of what a rollback that succeeded took back is in a row: the    *)
(* savepoints of Transaction.savepoints and those of the database stay in  *)
(* step however transactions nest and savepoints fail (rest/db.go).        *)
UndoneGone == \A k \in Keys : table[k].write # 0 => tags[table[k].write] \cap undone = {}

(* The changes of the row of k that are there or may come back.            *)
Standing(k) ==
  {table[k].write} \cup UNION {{undo[h][i].row.write : i \in {j \in DOMAIN undo[h] : undo[h][j].key = k}} : h \in Handles}

(* A step that takes a row back undoes no change but those made under the  *)
(* transaction or the savepoint it rolls back: what an outer transaction   *)
(* did before, or another one did, stays (rest/db.go Rollback,             *)
(* REST.Transaction).                                                      *)
RollsBackOwn ==
  \A k \in Keys : table'[k].write < table[k].write =>
    \A c \in Standing(k) \ Standing(k)' : c # 0 => tags[c] \cap (undone' \ undone) # {}

(* A struct replaces a change it had not read only when a struct with      *)
(* version 0 is the one that replaces or the one that is replaced, and the *)
(* row still has version 1, when the row was deleted and inserted again,   *)
(* or when the struct's own last change was rolled back (gorp.go           *)
(* bindUpdate, bindDelete; rest/db.go).                                    *)
LostOnlyKnownWays ==
  \A b \in blind : ((b.unread \/ b.zeroed) /\ b.found = 1) \/ b.reborn \/ b.rolled
=============================================================================
