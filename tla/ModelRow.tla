------------------------------ MODULE ModelRow ------------------------------
(***************************************************************************)
(* Requests for one row of a model, one after the other (those at once are *)
(* the matter of Records): a body fills a struct (Fill), which is checked  *)
(* (Valid) and bound to an INSERT or UPDATE (bindInsert, bindUpdate); a    *)
(* row is read into a struct (Row), which is answered (Filter, Protect).   *)
(*                                                                         *)
(* told is what a client was told that the row holds, as it would read it: *)
(* the options of the fields, not the code, say what it becomes.           *)
(***************************************************************************)
EXTENDS Columns

CONSTANTS Tables,      \* the structs that are models
          Bodies,      \* what is sent to each: name of field -> value
          Legacy,      \* rows that others put in each table
          Existing,    \* keys of the rows of the models that a field may name
          User,        \* the user of the session
          MaxRequests  \* bound

VARIABLES model,  \* the model asked for
          layout, \* of its struct, as it was registered
          row,    \* its row: column -> cell, or Nil
          told,   \* column -> value, Nil without a row, Fails in a column that cannot be read
          reply,  \* the last answer: [verb, ok, got]
          requests \* made so far

vars == <<model, layout, row, told, reply, requests>>

Id == 5
Time == 20 + requests
Uuid == Generated + requests

Cols == ToSet(Known(layout))
DB(c) == c.field.db
Ext(c) == c.field.ext
PK == CHOOSE c \in Cols : "pk" \in DB(c)
IsAuto == ~("na" \in DB(PK) \/ ("G" \in Ext(PK) /\ PK.field.keeper # ""))

-----------------------------------------------------------------------------
(* A struct of the model: place -> value *)

New == [p \in {g.place : g \in layout.fields} |-> Zero((CHOOSE g \in layout.fields : g.place = p).field.kind)]
IsEmpty(m, c) == IsEmptyValue(c.field.kind, m[c.place])
Key(m) == KeyText(PK.field.kind, m[PK.place])

(* Names of JSON are found like those of Go; null leaves a field as it is. *)
Fill(body) ==
  LET named == {f \in DOMAIN body : body[f] # Nil} IN
  [p \in DOMAIN New |-> IF \E f \in named : FieldByName(layout.fields, f).place = p
                        THEN body[CHOOSE f \in named : FieldByName(layout.fields, f).place = p] ELSE New[p]]

Set(m, c, v) == IF v = Fails THEN Fails ELSE [m EXCEPT ![c.place] = v]

(* The keepers of the zoo.  existence looks into the model that the field  *)
(* points to, and panics at nil, which is answered like an error.          *)
Keep(m, c, creating) ==
  LET kind == c.field.kind
      made == creating /\ IsEmpty(m, c)
      keeper == c.field.keeper
  IN CASE keeper = "sha1" /\ ~IsEmpty(m, c) -> Set(m, c, SetWithProperType(kind, HashOf(m[c.place])))
       [] keeper = "uuid" /\ made -> Set(m, c, SetWithProperType(kind, Uuid))
       [] keeper = "userid" /\ made -> Set(m, c, SetWithProperType(kind, User))
       [] keeper = "time" /\ made -> Set(m, c, IF kind \in {"time", "*time"} THEN Time ELSE Fails)
       [] keeper = "existence" /\ m[c.place] \notin Existing \cup {0} -> Fails
       [] OTHER -> m

(* What the client may not give is taken away.                             *)
Ignored(c, creating) == "ro" \in DB(c) \/ ("G" \in Ext(c) /\ "pk" \notin DB(c)) \/ (~creating /\ "D" \in Ext(c))
Strip(m, c, creating) ==
  IF ~IsEmpty(m, c) /\ Ignored(c, creating) THEN Set(m, c, Zero(c.field.kind)) ELSE m

NothingToDo(m) == \A c \in ToSet(layout.columns) : IsEmpty(m, c) \/ Ignored(c, FALSE) \/ "pk" \in DB(c)

(* Mutated: what the keeper made is taken away like what the client gave. *)
ValidKeepFirst(m, creating) ==
  LET Check(acc, c) ==
        IF acc = Fails \/ (creating /\ "R" \in Ext(c) /\ IsEmpty(acc, c)) THEN Fails
        ELSE Strip(Keep(acc, c, creating), c, creating)
  IN IF (creating /\ Key(m) # Nil) \/ (~creating /\ NothingToDo(m)) THEN Fails ELSE FoldLeft(Check, m, layout.columns)

Valid(m, creating) ==
  LET Check(acc, c) ==
        IF acc = Fails \/ (creating /\ "R" \in Ext(c) /\ IsEmpty(acc, c)) THEN Fails
        ELSE Keep(Strip(acc, c, creating), c, creating)
  IN IF (creating /\ Key(m) # Nil) \/ (~creating /\ NothingToDo(m)) THEN Fails ELSE FoldLeft(Check, m, layout.columns)

(* Every column with the option; the error is that of the last of them.    *)
ImportValue(m, values) ==
  LET Import(acc, c) ==
        LET opts == DOMAIN values \cap DB(c) IN
        IF opts = {} THEN acc
        ELSE LET v == SetWithProperType(c.field.kind, values[CHOOSE o \in opts : TRUE]) IN
             IF v = Fails THEN [acc EXCEPT !.ok = FALSE] ELSE [m |-> Set(acc.m, c, v), ok |-> TRUE]
  IN FoldLeft(Import, [m |-> m, ok |-> TRUE], layout.columns)

Filter(m) == [p \in DOMAIN m |-> IF \E c \in Cols : c.place = p /\ ("pk" \in DB(c) \/ "RET" \in Ext(c)) THEN m[p] ELSE New[p]]
Protect(m) == [p \in DOMAIN m |-> IF \E c \in Cols : c.place = p /\ "S" \in Ext(c) THEN New[p] ELSE m[p]]

-----------------------------------------------------------------------------
(* The row *)

Writes == ToSet(Written(layout))
Auto(w) == w.column = PK.tag /\ IsAuto
Value(m, w) == m[FieldByName(layout.fields, w.name).place]
Missing(m, w) == FieldByName(layout.fields, w.name).field = NoField \/ IsEmptyValue(w.field.kind, Value(m, w))

Arg(m, w) == ToDb(w.field.kind, Value(m, w))
(* The cells of the columns that are bound, or that one of them has no cell. *)
Bound(cells) ==
  LET args == [x \in {w.column : w \in DOMAIN cells} |-> cells[CHOOSE w \in DOMAIN cells : w.column = x]]
  IN IF \E x \in DOMAIN args : args[x] = Fails THEN Fails ELSE args
Over(args, rest) == IF args = Fails THEN Fails ELSE [x \in DOMAIN rest |-> IF x \in DOMAIN args THEN args[x] ELSE rest[x]]

Default == [x \in {w.column : w \in Writes} |-> (CHOOSE w \in Writes : w.column = x).field.default]
BindInsert(m) ==
  LET AddNow(w) == "add_now" \in w.field.db
      Bind(w) == IF Auto(w) THEN Cell("plain", Id)
                 ELSE IF AddNow(w) /\ Missing(m, w) THEN Cell("plain", Time) ELSE Arg(m, w)
  IN Over(Bound([w \in {v \in Writes : Auto(v) \/ AddNow(v) \/ ~Missing(m, v)} |-> Bind(w)]), Default)

(* An UPDATE that sets nothing is not SQL.                                 *)
BindUpdate(m) ==
  LET ws == {w \in Writes : ~Auto(w) /\ ~Missing(m, w)}
      Bind(w) == IF "update_now" \in w.field.db THEN Cell("plain", Time) ELSE Arg(m, w)
  IN IF ws = {} THEN Fails ELSE Over(Bound([w \in ws |-> Bind(w)]), row)

Selected == SelectSeq(Known(layout), LAMBDA c : "H" \notin Ext(c))
Hidden(r) == \E c \in Cols : "logic" \in DB(c) /\ r[c.tag] \in {Null, Cell("plain", -1)}

(* The columns of rest, each into the field of that column.                *)
RawSelect(m, c) ==
  LET g == ColumnToField(layout.fields, c.tag) IN
  IF m = Fails \/ c.tag \notin DOMAIN row \/ g.field = NoField THEN Fails
  ELSE Set(m, [place |-> g.place], FromDb(g.field.kind, row[c.tag]))
HookedSelect == IF row = Nil THEN Fails ELSE FoldLeft(RawSelect, New, Selected)
Row == IF row # Nil /\ Hidden(row) THEN Fails ELSE HookedSelect

(* gorp's own Get and Delete: by the key alone, whatever the row holds.    *)
BindGet == Written(layout)
GetByKey ==
  LET Scan(m, w) ==
        IF m = Fails THEN Fails ELSE Set(m, FieldByName(layout.fields, w.name), FromDb(w.field.kind, row[w.column]))
  IN IF row = Nil THEN Fails ELSE FoldLeft(Scan, New, BindGet)
BindDelete(m) == Key(m) # Nil /\ row # Nil

-----------------------------------------------------------------------------
(* What is promised *)

Sent(c, body) ==
  c.field.name \in DOMAIN body /\ body[c.field.name] # Nil /\ ~IsEmptyValue(c.field.kind, body[c.field.name])
Taken(c, body, creating) == Sent(c, body) /\ ~Ignored(c, creating) /\ "pk" \notin DB(c)

(* What a field keeps of what was sent: a []int cannot be read again, and a*)
(* text in an interface is read as what it looks like.                     *)
Kept(c, v) ==
  CASE c.field.kind = "[]int" -> Fails
    [] c.field.keeper = "sha1" -> HashOf(v)
    [] c.field.kind = "interface" /\ v = JsonText -> 2
    [] OTHER -> v

Created(c, body) ==
  CASE Taken(c, body, TRUE) -> Kept(c, body[c.field.name])
    [] c.field.keeper = "uuid" -> Uuid
    [] "pk" \in DB(c) -> Id
    [] c.field.keeper = "userid" -> User
    [] c.field.keeper = "time" \/ "add_now" \in DB(c) -> Time
    [] c.field.kind \in Plain -> 0
    [] OTHER -> FromDb(c.field.kind, c.field.default)

(* A plain number that is not sent is set to 0 all the same.               *)
Updated(c, body, old) ==
  CASE Taken(c, body, FALSE) -> IF "update_now" \in DB(c) THEN Time ELSE Kept(c, body[c.field.name])
    [] ~Taken(c, body, FALSE) /\ c.field.kind \in Plain -> 0
    [] OTHER -> old

Again(c, old) == IF "update_now" \in DB(c) /\ ~IsEmptyValue(c.field.kind, old) THEN Time ELSE old
Deleted(c, old) == IF "logic" \in DB(c) THEN -1 ELSE IF c.field.kind \in Plain THEN 0 ELSE old

Tell(New1(_)) == [x \in {c.tag : c \in Cols} |-> New1(CHOOSE c \in Cols : c.tag = x)]

-----------------------------------------------------------------------------
(* Requests *)

Init ==
  /\ model \in DOMAIN Structs
  /\ layout = Layout(model)
  /\ row \in Legacy[model] \cup {Nil}
  /\ told = IF row = Nil THEN Nil ELSE Tell(LAMBDA c : FromDb(c.field.kind, row[c.tag]))
  /\ reply = [verb |-> "none", ok |-> TRUE, got |-> Nil]
  /\ requests = 0

Request == requests < MaxRequests /\ requests' = requests + 1 /\ UNCHANGED <<model, layout>>
Refuse(verb) == reply' = [verb |-> verb, ok |-> FALSE, got |-> Nil] /\ UNCHANGED <<row, told>>
Answer(verb, m) == reply' = [verb |-> verb, ok |-> TRUE, got |-> m]

(* The write of the row, unless the struct or a value of it is refused.    *)
Write(verb, m, new, telling, got) ==
  IF m = Fails \/ new = Fails THEN Refuse(verb)
  ELSE row' = new /\ told' = telling /\ Answer(verb, got)

PreCreate(body) == Valid(Fill(body), TRUE)
Post(body) ==
  LET m == PreCreate(body)
      saved == IF IsAuto THEN Set(m, PK, Id) ELSE m
  IN /\ Request
     /\ row = Nil
     /\ IF m = Fails THEN Refuse("post")
        ELSE Write("post", m, BindInsert(m), Tell(LAMBDA c : Created(c, body)), Filter(saved))

(* RESTPatch, RESTPut.  The key is the one of the URL.                     *)
GetOlder == Row
PreUpdate(body) == IF GetOlder = Fails THEN Fails ELSE Valid(Fill(body), FALSE)
Patch(body) ==
  LET m == PreUpdate(body)
      keyed == ImportValue(m, [pk |-> told[PK.tag]])
  IN /\ Request
     /\ row # Nil
     /\ IF m = Fails THEN Refuse("patch")
        ELSE IF ~keyed.ok THEN Refuse("patch")
        ELSE Write("patch", keyed.m, BindUpdate(keyed.m), Tell(LAMBDA c : Updated(c, body, told[c.tag])), Filter(keyed.m))

OnGet == Row
Get == Request /\ (IF OnGet = Fails THEN Refuse("get") ELSE Answer("get", Protect(OnGet)) /\ UNCHANGED <<row, told>>)

Find == Request /\ (IF GetByKey = Fails THEN Refuse("find") ELSE Answer("find", GetByKey) /\ UNCHANGED <<row, told>>)

(* A row that was read is deleted for good.                                *)
Erase ==
  /\ Request
  /\ Row # Fails
  /\ BindDelete(Row)
  /\ row' = Nil /\ told' = Nil /\ Answer("erase", Nil)

(* UpdateRow with a row that was read.                                     *)
WriteBack ==
  /\ Request
  /\ Row # Fails
  /\ Write("write", Row, BindUpdate(Row), Tell(LAMBDA c : Again(c, told[c.tag])), Nil)

(* A struct with nothing but the key and the mark.                         *)
DeleteRow == ImportValue(New, [pk |-> told[PK.tag], logic |-> -1])
Delete ==
  /\ Request
  /\ row # Nil
  /\ IF ~DeleteRow.ok THEN Refuse("delete")
     ELSE Write("delete", DeleteRow.m, BindUpdate(DeleteRow.m), Tell(LAMBDA c : Deleted(c, told[c.tag])), Nil)

Next ==
  \/ model \in Tables /\ \E body \in Bodies[model] : Post(body) \/ Patch(body)
  \/ model \in Tables /\ (Get \/ Find)
  \/ Erase
  \/ WriteBack
  \/ Delete

Spec == Init /\ [][Next]_vars

-----------------------------------------------------------------------------

Gone == \E c \in Cols : "logic" \in DB(c) /\ told[c.tag] = -1

(* What rest and gorp made of the struct agrees (Agree).                   *)
ColumnsAgree == Agree(layout)

(* The row reads as the client was told, in every column, until it is deleted: *)
(* what was sent came through, and nothing else changed it.                *)
RowAsTold ==
  told # Nil =>
    IF Gone \/ \E c \in ToSet(Selected) : told[c.tag] = Fails THEN Row = Fails
    ELSE Row # Fails /\ \A c \in ToSet(Selected) : Row[c.place] = told[c.tag]

(* No answer to a client shows a secret; that of POST names the row, and what *)
(* is read is the row as told, with its secrets where the program reads it.*)
AnswerRight ==
  reply.got # Nil =>
    /\ \A c \in Cols : "S" \in Ext(c) /\ reply.verb # "find" => reply.got[c.place] = Zero(c.field.kind)
    /\ reply.verb = "post" => reply.got[PK.place] = told[PK.tag]
    /\ reply.verb \in {"get", "find"} =>
         \A c \in ToSet(Selected) : "S" \notin Ext(c) \/ reply.verb = "find" => reply.got[c.place] = told[c.tag]
=============================================================================
