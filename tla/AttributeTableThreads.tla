------------------------ MODULE AttributeTableThreads ------------------------
(***************************************************************************)
(* Several threads on one KEAAttributeTableFile.  The file class locks the *)
(* mutex in each of its methods, so reading and writing cells and adding   *)
(* rows are single steps.  Adding a column is not: the base class's        *)
(* addAtt<Type>Field checks the name and reads the counters before the     *)
(* file class takes the lock, and records the column after it has let it   *)
(* go.  An addition is therefore three steps, Begin, Store and Publish.    *)
(* Within each, memory accesses are taken to be atomic: the std::map and   *)
(* the counters are in truth raced for, so what goes wrong here goes wrong *)
(* at best.  The steps of all threads interleave in any order; threads     *)
(* that take turns in changing the shape are a case among them, of which   *)
(* one property more holds.                                                *)
(***************************************************************************)
EXTENDS AttributeTableFile

CONSTANT Threads

VARIABLES
  adding,    (* adding[th]: the field a thread is adding and how far it is *)
  turns      (* no thread changes the shape while another adds a column: a *)
             (* rule the program's threads keep to or not, nothing in code *)

tVars == <<size, hdr, data, nbr, open, fields, n, numOfCols, numRows, feat,
           adding, turns>>

Idle == [stage |-> "idle"]
At(stage, f) == [stage |-> stage, field |-> f]

TInit == Init /\ adding = [th \in Threads |-> Idle] /\ turns \in BOOLEAN

(* The name check and the new field, from the counters as they are now.    *)
Begin(th, nm, t) ==
  /\ open /\ numOfCols < MaxCols
  /\ adding[th] = Idle
  /\ NameFree(nm)
  /\ adding' = [adding EXCEPT ![th] = At("built", NewField(nm, t))]
  /\ UNCHANGED vars

(* updateSizeHeader and addAttField, under the lock.                       *)
Store(th, val) ==
  /\ adding[th].stage = "built"
  /\ StoreField(adding[th].field, val)
  /\ adding' = [adding EXCEPT ![th] = At("stored", @.field)]
  /\ UNCHANGED handleVars

(* Mutated Publish: the column is recorded before it is stored.            *)
PublishFirst(th) ==
  /\ adding[th].stage = "built"
  /\ PublishField(adding[th].field)
  /\ adding' = [adding EXCEPT ![th] = Idle]
  /\ UNCHANGED fileVars

(* fields->insert, which keeps the old entry when the name has one, and    *)
(* the two counters.                                                       *)
Publish(th) ==
  LET f == adding[th].field IN
  /\ adding[th].stage = "stored"
  /\ IF NameFree(f.name)
     THEN PublishField(f)
     ELSE /\ n' = [n EXCEPT ![f.type] = @ + 1]
          /\ numOfCols' = numOfCols + 1
          /\ UNCHANGED <<open, fields, numRows, feat>>
  /\ adding' = [adding EXCEPT ![th] = Idle]
  /\ UNCHANGED fileVars

AllIdle == \A th \in Threads : adding[th] = Idle

Cells ==
  /\ \E t \in Types, c \in Col, start, len \in 0 .. MaxRows, v \in Vals :
        SetFields(t, c, start, len, v)
  /\ UNCHANGED adding

Rows ==
  /\ turns => AllIdle
  /\ \E more \in 1 .. MaxRows : AddRows(more)
  /\ UNCHANGED adding

(* One thread opens the table before and closes it after.                  *)
Lifetime == AllIdle /\ (Open \/ Close) /\ UNCHANGED adding

Begins(th) ==
  /\ turns => AllIdle
  /\ \E nm \in Names, t \in Types : Begin(th, nm, t)

Finish(th) == Publish(th) \/ \E v \in Vals : Store(th, v)

(* Threads do as they like unless they take turns: additions overlap, rows *)
(* are added between the steps of another thread's addition.               *)
ThreadsNext ==
  /\ \/ Lifetime \/ Cells \/ Rows
     \/ \E th \in Threads : Begins(th) \/ Finish(th)
  /\ UNCHANGED turns

ThreadsSpec == TInit /\ [][ThreadsNext]_tVars

-----------------------------------------------------------------------------
(* PROPERTIES                                                              *)

InExtent(f, r) == f.idx < data[f.type].cols /\ r < data[f.type].rows

(* Whatever the threads interleave, a stored cell of a column the handle   *)
(* knows stays in its dataset and keeps its value until someone writes to  *)
(* that column: no resize of an addition that overlaps another, or rows    *)
(* added half way through one, cuts it off or fills it anew.               *)
KnownCellsKept ==
  [][\A f \in fields : \A r \in Row : InExtent(f, r) =>
        /\ f.idx < data'[f.type].cols /\ r < data'[f.type].rows
        /\ \/ data'[f.type].cell[f.idx][r] = data[f.type].cell[f.idx][r]
           \/ \E start, len \in 0 .. MaxRows, v \in Vals :
                 SetFields(f.type, f.idx, start, len, v)]_tVars

(* Rows that are added bring SIZE and the extents of all datasets back     *)
(* together, however far overlapping additions had driven them apart.      *)
RowsRepairExtents == [][Rows => DataCoversTable']_tVars

(* Every access the handle's bound checks let through is inside its        *)
(* dataset, also in the middle of another thread's addition, as long as    *)
(* the threads take turns in changing the shape.                           *)
AccessesInside ==
  turns /\ open =>
     \A f \in fields : /\ f.idx < data[f.type].cols
                       /\ numRows <= data[f.type].rows

(* What a table that is "totally threadsafe" would have: when no addition  *)
(* is under way the file says what the handle believes.  It does not hold: *)
(* addRows between Store and Publish takes the new column away.            *)
SettledTable == AllIdle => HeaderMatchesHandle /\ DataCoversTable

(* "Names need to be unique": of two additions of one name only one        *)
(* succeeds, i.e. counts a column.  It does not hold: the check is made    *)
(* before the lock is taken, so both pass.                                 *)
NamesUnique == open => Cardinality(fields) = numOfCols
=============================================================================
