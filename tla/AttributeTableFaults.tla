------------------------ MODULE AttributeTableFaults ------------------------
(***************************************************************************)
(* AttributeTableFile with HDF5 operations that fail part way (no space, a *)
(* lost network drive).  An operation of the file class is a sequence of   *)
(* writes with no roll back: what was written before the exception stays,  *)
(* and the base class leaves its counters alone, or has raised them        *)
(* already, depending on the operation.                                    *)
(***************************************************************************)
EXTENDS AttributeTableFile

(* addAttField after updateSizeHeader: k counts the writes that took       *)
(* effect before the exception: 1 SIZE, 2 the fields dataset resized but   *)
(* not written, 3 the fields dataset, 4 the data dataset (flush failed).   *)
AddFieldAborts(nm, t, val, k) ==
  LET f == NewField(nm, t) IN
  /\ open
  /\ numOfCols < MaxCols
  /\ NameFree(nm)
  /\ size' = SizeAfter(t)
  /\ hdr'  = CASE k = 1 -> hdr
               [] k = 2 -> [hdr EXCEPT ![t].ext = HeaderAfter(f).ext]
               [] k > 2 -> [hdr EXCEPT ![t] = HeaderAfter(f)]
  /\ data' = IF k = 4
             THEN [data EXCEPT ![t] = WithColumns(@, numRows, n[t] + 1, val)]
             ELSE data
  /\ UNCHANGED nbr
  /\ UNCHANGED handleVars

(* addRows when updateSizeHeader throws: numRows was raised before.        *)
AddRowsAborts(more) ==
  /\ open
  /\ more > 0
  /\ numRows + more <= MaxRows
  /\ numRows' = numRows + more
  /\ UNCHANGED fileVars
  /\ UNCHANGED <<open, fields, n, numOfCols, feat>>

(* addRows when the resize of some datasets throws: each failure is caught *)
(* and taken for a dataset that does not exist.                            *)
AddRowsPartly(more, short) ==
  /\ open
  /\ more > 0
  /\ numRows + more <= MaxRows
  /\ numRows' = numRows + more
  /\ size' = [rows |-> numRows + more, n |-> n]
  /\ data' = [t \in Types |-> IF t \in short THEN data[t]
                              ELSE Grown(data[t], numRows + more, n[t])]
  /\ nbr' \in {nbr, IF nbr = Absent THEN Absent ELSE numRows + more}
  /\ UNCHANGED <<hdr, open, fields, n, numOfCols, feat>>

(* createKeaAtt on headers it cannot make sense of: an exception, or an    *)
(* array read beyond its end.  No handle comes of it.                      *)
OpenThrows ==
  /\ ~open
  /\ \/ ~HeadersReadable
     \/ ~\E k \in 0 .. MaxCols, S \in SUBSET Entries :
           IsNumOfCols(k) /\ Keeps(S, k)
  /\ UNCHANGED vars

Fault ==
  \/ OpenThrows
  \/ \E nm \in Names, t \in Types, v \in Vals, k \in 1 .. 4 :
        AddFieldAborts(nm, t, v, k)
  \/ \E more \in 1 .. MaxRows : AddRowsAborts(more)
  \/ \E more \in 1 .. MaxRows, short \in SUBSET Types : AddRowsPartly(more, short)

FaultyNext == Next \/ Fault

FaultySpec == Init /\ [][FaultyNext]_vars

-----------------------------------------------------------------------------
(* PROPERTIES                                                              *)

(* A column that is added after any number of failed operations brings the *)
(* whole of its type back in step: SIZE, the fields dataset and the data   *)
(* dataset are those of the handle, so a retry repairs a failed add.       *)
AddRepairsType ==
  [][\A f \in fields' \ fields :
        open => /\ size' = [rows |-> numRows', n |-> n']
                /\ hdr'[f.type] = [ext |-> n'[f.type],
                                   ents |-> OfType(fields', f.type)]
                /\ data'[f.type].cols = n'[f.type]
                /\ data'[f.type].rows = numRows']_vars

(* No failure costs a value that was stored: as long as the handle lives,  *)
(* the dataset behind a column it knows never loses that column or a row,  *)
(* whatever its neighbours of the same type went through.                  *)
StoredDataKept ==
  [][open /\ open' =>
       \A f \in fields :
          f.idx < data[f.type].cols =>
             /\ f.idx < data'[f.type].cols
             /\ data[f.type].rows <= data'[f.type].rows]_vars
=============================================================================
