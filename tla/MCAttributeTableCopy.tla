------------------------ MODULE MCAttributeTableCopy ------------------------
(* Chunks of two rows and tables of up to three: a whole block and a       *)
(* remaining one.  Two columns, of one type or of two, a bool one that     *)
(* turns into an int before another int among them.  A C int has one bit,  *)
(* for -1 and 0: a one in an int column does not fit it, a true does.      *)
(* Trues come from the stored tables only, the edits put in falses.        *)
EXTENDS AttributeTableCopy

CONSTANTS a, b, b1, b2, none, nil, list

BandSymmetry == Permutations(Bands)

MCTypes == {"bool", "int", "string"}

MCVals == {Driver!Number(0), Driver!Number(2), Driver!Number(-2), Driver!Text("")}

MCZero == [t \in MCTypes |-> IF t = "string" THEN Driver!Text("") ELSE Driver!Number(0)]

MCTypeVals == [t \in MCTypes |->
  IF t = "bool" THEN {Driver!False} ELSE {MCZero[t], Driver!Number(2)}]

(* A stored table with a one in its last row and zeros in the others.      *)
Stored(cs, n, nb) ==
  LET k(t) == Cardinality({i \in DOMAIN cs : cs[i].type = t})
      column(t) == [r \in 1 .. n |-> IF r = n THEN Driver!Number(2) ELSE MCZero[t]]
  IN  [cols |-> cs, rows |-> n,
       fill |-> [t \in MCTypes |-> IF k(t) > 0 THEN MCZero[t] ELSE none],
       cell |-> [t \in MCTypes |-> [i \in 1 .. k(t) |-> column(t)]],
       nbr  |-> nb]

MCTables == {
  Stored(<<>>, 0, <<>>),
  Stored(<<[name |-> b, type |-> "string"]>>, 1, <<list>>),
  Stored(<<[name |-> a, type |-> "bool"], [name |-> b, type |-> "int"]>>, 3, <<>>)}
=============================================================================
