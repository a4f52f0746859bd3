----------------------------- MODULE TableValues -----------------------------
(***************************************************************************)
(* The conversions of KEARasterAttributeTable::ValuesIO between the type   *)
(* of a client's buffer and the type of a column.  There is one overload   *)
(* for each client type; it goes to the file itself when the column is of  *)
(* its own type and calls another overload when it is not.                 *)
(*                                                                         *)
(* A number is counted in halves, so that there are fractions to lose.  A  *)
(* text is a number's or some other word.  An int of a client has Width    *)
(* bits, one of a column twice as many.  Digits that "%.16g" cuts, and the *)
(* conversion of a double to an int that cannot hold it, are left out.     *)
(***************************************************************************)
EXTENDS Integers

CONSTANTS
  Width,   (* bits of a C int                                              *)
  Words    (* texts that are not numbers                                   *)

ColumnTypes == {"bool", "int", "float", "string"}
ClientTypes == {"bool", "int", "double", "string"}

Number(h)  == [word |-> "number", halves |-> h]
Text(w)    == [word |-> w, halves |-> 0]
IsNumber(v) == v.word = "number"

False == Number(0)
True  == Number(2)

Bool(b) == IF b THEN True ELSE False

(* Towards zero, as C converts.                                            *)
Truncate(v) ==
  Number(IF v.halves >= 0 THEN 2 * (v.halves \div 2)
                          ELSE -(2 * ((-v.halves) \div 2)))

(* An int of twice the width in a client's int.                            *)
Narrow(v) ==
  LET half == 2 ^ (Width - 1)
  IN  Number(2 * ((((v.halves \div 2) + half) % (2 * half)) - half))

NonZero(v) == Bool(v.halves # 0)

(* atof, atol and CPLTestBool of a text.                                   *)
Atof(v)     == IF IsNumber(v) THEN v ELSE Number(0)
Atol(v)     == Narrow(Truncate(Atof(v)))
TestBool(v) == Bool(v \notin {Text("false"), Number(0)})

-----------------------------------------------------------------------------
(* Writing: what reaches a column of type c.                               *)
WriteInt(c, v) == IF c = "bool" THEN NonZero(v) ELSE v

WriteDouble(c, v) ==
  IF c \in {"bool", "int"} THEN WriteInt(c, Truncate(v)) ELSE v

WriteString(c, v) ==
  IF c \in {"bool", "int"} THEN WriteInt(c, Atol(v))
  ELSE IF c = "float" THEN Atof(v) ELSE v

WriteBool(c, v) ==
  IF c = "string" THEN Text(IF v = True THEN "true" ELSE "false") ELSE v

Written(t, c, v) ==
  CASE t = "bool"   -> WriteBool(c, v)
    [] t = "int"    -> WriteInt(c, v)
    [] t = "double" -> WriteDouble(c, v)
    [] t = "string" -> WriteString(c, v)

-----------------------------------------------------------------------------
(* Reading: what a client gets for the value s of a column of type c.      *)

ReadInt(c, s) ==
  CASE c = "bool"   -> s
    [] c = "int"    -> Narrow(s)
    [] c = "float"  -> Truncate(s)
    [] c = "string" -> Atol(s)

ReadDouble(c, s) ==
  IF c \in {"bool", "int"} THEN ReadInt(c, s)
  ELSE IF c = "float" THEN s ELSE Atof(s)

ReadString(c, s) == IF c \in {"bool", "int"} THEN ReadInt(c, s) ELSE s

(* Mutated ReadBool: a text is read as a number.                           *)
ReadBoolOfNumber(c, s) ==
  IF c = "bool" THEN s ELSE NonZero(ReadInt(c, s))

ReadBool(c, s) ==
  CASE c = "bool"   -> s
    [] c = "int"    -> NonZero(s)
    [] c = "float"  -> NonZero(ReadDouble(c, s))
    [] c = "string" -> TestBool(ReadString(c, s))

Read(t, c, s) ==
  CASE t = "bool"   -> ReadBool(c, s)
    [] t = "int"    -> ReadInt(c, s)
    [] t = "double" -> ReadDouble(c, s)
    [] t = "string" -> ReadString(c, s)

-----------------------------------------------------------------------------
(* The values of the types, over numbers of at most the given halves.      *)
ValuesOf(t, most) ==
  CASE t = "bool"   -> {False, True}
    [] t = "int"    -> {Number(2 * n) : n \in -(2 ^ (Width - 1)) .. 2 ^ (Width - 1) - 1}
    [] t = "double" -> {Number(h) : h \in -most .. most}
    [] t = "string" -> {Number(h) : h \in -most .. most} \cup {Text(w) : w \in Words}

(* The column types that hold each value of a client type.                 *)
WideEnough(t) ==
  CASE t = "bool"   -> ColumnTypes
    [] t = "int"    -> {"int", "float", "string"}
    [] t = "double" -> {"float", "string"}
    [] t = "string" -> {"string"}

(* What a column of type c can hold when others than the driver write it.  *)
StoredIn(c, most) ==
  CASE c = "bool"   -> {False, True}
    [] c = "int"    -> {Number(2 * n) : n \in -(2 ^ Width) .. 2 ^ Width}
    [] c = "float"  -> {Number(h) : h \in -most .. most}
    [] c = "string" -> {Number(h) : h \in -most .. most} \cup {Text(w) : w \in Words}

Fits(v) == Narrow(Truncate(v)) = Truncate(v)

(* A value comes back from each column that is wide enough for its type,   *)
(* and a cell means the same to every client that reads numbers: the int   *)
(* is the double without its fraction, unless that is too large for an     *)
(* int, and the text denotes the double.                                   *)
ConversionsAgree(most) ==
  /\ \A t \in ClientTypes : \A c \in WideEnough(t) : \A v \in ValuesOf(t, most) :
        Read(t, c, Written(t, c, v)) = v
  /\ \A c \in ColumnTypes : \A s \in StoredIn(c, most) :
        /\ Fits(ReadDouble(c, s)) => ReadInt(c, s) = Truncate(ReadDouble(c, s))
        /\ Atof(ReadString(c, s)) = ReadDouble(c, s)
=============================================================================
