------------------------------ MODULE Columns ------------------------------
(***************************************************************************)
(* How the struct of a model is laid out as the columns of its table, once *)
(* by rest (typeStructColumns) and once by gorp (readStructColumns), and   *)
(* how a value becomes a cell and a cell a value (ToDb, FromDb).           *)
(*                                                                         *)
(* A struct is a sequence of fields.  A field has its name in Go, the two  *)
(* names the code makes of that by underscores, the part of its tag before *)
(* the comma, or embeds a struct.  A place is the list of indexes that     *)
(* leads to a field.  Texts, numbers, dates and JSON are numbers: 0 is the *)
(* zero value ("", 0, false), Generated and beyond no text of a number.    *)
(***************************************************************************)
EXTENDS Integers, Sequences, FiniteSets, SequencesExt

CONSTANTS Structs, \* the fields of each struct, by its name
          Nil,     \* nil: pointers, slices, maps, interfaces
          Null,    \* NULL
          Fails    \* an error

NoField == [name |-> Nil, kind |-> Nil]
Generated == 30
HashOf(v) == 40 + v
One(v) == 10 + v       \* the list of the text v only
JsonText == 3          \* a text that is the JSON of 2

-----------------------------------------------------------------------------
(* Fields *)

(* Every field with a place, those of embedded structs included.           *)
Fields[s \in DOMAIN Structs] ==
  UNION {LET f == Structs[s][i] IN
           IF f.embeds = Nil THEN {[place |-> <<i>>, field |-> f]}
           ELSE {[place |-> <<i>> \o g.place, field |-> g.field] : g \in Fields[f.embeds]} : i \in DOMAIN Structs[s]}

(* The least deep, if it is one; a name at one depth twice is none.        *)
Shallowest(found) ==
  LET top == {g \in found : \A h \in found : Len(g.place) <= Len(h.place)}
  IN IF Cardinality(top) = 1 THEN CHOOSE g \in top : TRUE ELSE [place |-> <<>>, field |-> NoField]
FieldByName(fields, name) == Shallowest({g \in fields : g.field.name = name})

(* In place of the one that is the same, if there is any.                  *)
Put(cols, new, same) == IF same = 0 THEN Append(cols, new) ELSE [cols EXCEPT ![same] = new]

(* The place in an embedded struct is made anew of each of its indexes.    *)
Under(i, place) == <<i, Last(place)>>

TypeStructColumns[s \in DOMAIN Structs] ==
  LET Own(f, i) == [tag |-> IF f.tag = "" THEN f.rest ELSE f.tag, place |-> <<i>>, field |-> f]
      Embed(cols, sub, i) ==
        cols \o [j \in DOMAIN sub |-> [sub[j] EXCEPT !.place = Under(i, @)]]
      Add(cols, i) ==
        LET f == Structs[s][i] IN
        IF f.embeds = Nil THEN Put(cols, Own(f, i), SelectInSeq(cols, LAMBDA c : c.tag = Own(f, i).tag))
        ELSE Embed(cols, SelectSeq(TypeStructColumns[f.embeds], LAMBDA c : \A d \in ToSet(cols) : d.tag # c.tag), i)
  IN FoldLeftDomain(Add, <<>>, Structs[s])

ReadStructColumns[s \in DOMAIN Structs] ==
  LET Own(f) == [column |-> f.gorp, name |-> f.name, transient |-> f.tag = "-", field |-> f]
      Add(cols, i) ==
        LET f == Structs[s][i] IN
        IF f.embeds = Nil THEN Put(cols, Own(f), SelectInSeq(cols, LAMBDA c : ~c.transient /\ c.name = f.name))
        ELSE cols \o SelectSeq(ReadStructColumns[f.embeds],
                               LAMBDA c : c.transient \/ \A d \in ToSet(cols) : d.name # c.name)
  IN FoldLeftDomain(Add, <<>>, Structs[s])

(* What is kept of a struct: all fields by Go, r.columns by rest, the columns *)
(* of the TableMap by gorp.                                                *)
Layout(s) == [fields |-> Fields[s], columns |-> TypeStructColumns[s], table |-> ReadStructColumns[s]]
Known(layout) == SelectSeq(layout.columns, LAMBDA c : c.tag # "-")
Written(layout) == SelectSeq(layout.table, LAMBDA c : ~c.transient)

(* Where a column that was read goes.                                      *)
ColumnToField(fields, column) ==
  Shallowest({g \in fields : LET f == FieldByName(fields, g.field.name).field IN
                               f # NoField /\ f.tag # "-" /\ f.gorp = column})

-----------------------------------------------------------------------------
(* Values *)

Texts == {"string", "*string"}
Plain == {"int", "bool"}
Lists == {"[]string", "[]int", "map"}
Pointers == {"*string", "*int", "*int64", "*time", "*model", "interface"}
Zero(kind) == IF kind \in Pointers \cup Lists THEN Nil ELSE 0

(* A number or a boolean is never empty, nor is a pointer to "".           *)
IsEmptyValue(kind, v) ==
  \/ kind \in Lists /\ v \in {Nil, 0}
  \/ kind \notin Plain /\ v = Zero(kind)

(* A text into a field: "" is the number 0 and leaves a nil text nil.      *)
SetIntField(v) == IF v < Generated THEN v ELSE Fails
SetBoolField(v) == IF v \in {0, 1} THEN v ELSE Fails
SetStringPtrField(v) == IF v = 0 THEN Nil ELSE v
SetWithProperType(kind, v) ==
  CASE kind = "string" -> v
    [] kind = "*string" -> SetStringPtrField(v)
    [] kind \in {"int", "*int", "*int64"} -> SetIntField(v)
    [] kind = "bool" -> SetBoolField(v)
    [] OTHER -> Fails

(* The text of a key; "" is no key.                                        *)
KeyText(kind, v) ==
  IF IsEmptyValue(kind, v) \/ (kind \in Texts /\ v = 0) THEN Nil ELSE v

Cell(form, v) == [form |-> form, val |-> v]

ToDb(kind, v) ==
  CASE kind \in Lists \cup {"struct"} -> Cell("json", v)
    [] kind = "interface" -> IF v = JsonText THEN Cell("json", 2) ELSE Cell(IF v = 2 THEN "json" ELSE "plain", v)
    [] kind = "*model" /\ v = 0 -> Fails      \* without its key the driver gets the struct
    [] OTHER -> Cell("plain", v)

(* Dates.  The zero date leaves the field as it was made.                  *)
FromDbTime(kind, cell) ==
  IF cell = Null \/ cell.val = 0 THEN Zero(kind) ELSE IF cell.form = "json" THEN Fails ELSE cell.val

(* JSON.  "" is nil.  A list takes another text for its only member; nothing *)
(* reads a []int; an interface is the text itself if it is no JSON.        *)
Unset(cell) == cell = Null \/ cell = Cell("plain", 0)
FromDbList(kind, cell) ==
  IF kind = "[]int" THEN Fails ELSE IF Unset(cell) THEN Nil ELSE IF cell.form = "json" THEN cell.val ELSE One(cell.val)
FromDbMap(cell) == IF Unset(cell) THEN Nil ELSE IF cell.form = "json" THEN cell.val ELSE Fails
FromDbInterface(cell) == IF Unset(cell) THEN Nil ELSE cell.val

(* NULL is a pointer to "" or to 0, false, or nil where the driver reads it, *)
(* which has nothing to set a string or an int to.                         *)
FromDbScalar(kind, cell) ==
  IF cell # Null THEN cell.val
  ELSE CASE kind \in {"*string", "*int64", "bool"} -> 0 [] kind = "*int" -> Nil [] OTHER -> Fails

(* Another model of which only the key is known, and a struct.             *)
FromDbModel(cell) == IF cell = Null \/ cell.val = 0 THEN Nil ELSE cell.val
FromDbStruct(cell) == IF cell = Null \/ cell.form = "plain" THEN 0 ELSE cell.val

FromDb(kind, cell) ==
  CASE kind \in {"time", "*time"} -> FromDbTime(kind, cell)
    [] kind \in {"[]string", "[]int"} -> FromDbList(kind, cell)
    [] kind = "map" -> FromDbMap(cell)
    [] kind = "interface" -> FromDbInterface(cell)
    [] kind = "*model" -> FromDbModel(cell)
    [] kind = "struct" -> FromDbStruct(cell)
    [] OTHER -> FromDbScalar(kind, cell)

-----------------------------------------------------------------------------
(* The two layouts *)

(* Ways in which they are known to differ: a name that only one takes     *)
(* from the tag (or that has capitals in a row, or a "-" over a column), a *)
(* field of a struct embedded in an embedded one, and names that two       *)
(* embedded structs have: of two columns Go finds none, and gorp drops a   *)
(* column whose name is of a "-" before it.                                *)
Renamed(f) == f.gorp # IF f.tag = "" THEN f.rest ELSE f.tag
Odd(fields, name) ==
  LET found == FieldByName(fields, name)
      Embedded(g) == Len(g.place) > 1
  IN IF found.field = NoField THEN TRUE
     ELSE \/ Renamed(found.field)
          \/ \E g \in fields :
               /\ g.field.name = name
               /\ IF g.field.tag = "-" THEN Embedded(found) /\ g.place[1] < found.place[1]
                  ELSE Renamed(g.field) \/ Len(g.place) > 2

(* "Recursively add nested fields in embedded structs" (gorp.go:778,       *)
(* struct.go:474): but for those both give the same columns, each of the   *)
(* field that Go finds by its name, and a column that was read goes where  *)
(* it was written from.                                                    *)
Agree(layout) ==
  LET fields == layout.fields
      Even(cols) == {c \in ToSet(cols) : ~Odd(fields, c.field.name)}
  IN /\ {c.tag : c \in Even(Known(layout))} = {c.column : c \in Even(Written(layout))}
     /\ \A c \in Even(Known(layout)) :
          LET g == FieldByName(fields, c.field.name) IN
            /\ c.place = g.place /\ c.field = g.field
            /\ \E w \in Even(Written(layout)) : w.column = c.tag /\ w.field = g.field
            /\ ColumnToField(fields, c.tag) = g
=============================================================================
