--------------------------- MODULE DataConversion ---------------------------
(***************************************************************************)
(* How a dictionary of a request becomes Stan's array_var_context:         *)
(* httpstan.utils._split_data flattens every variable with numpy and sorts *)
(* reals from integers, new_array_var_context (stan_services.cpp) casts    *)
(* what comes back to C++ types.  Stan reads an element of a variable by   *)
(* its place in column-major order.                                        *)
(*                                                                         *)
(* A dictionary is a sequence of variables, in the order of its keys.  A   *)
(* variable has a shape and an element (kind and number) at every index;   *)
(* an index counts from 0 in every dimension.  Lists of different lengths  *)
(* have no common shape: they are elements of kind "list".  Widths are     *)
(* constants: IntMax bounds the C++ int, LongMax numpy's default integer.  *)
(***************************************************************************)
EXTENDS Integers, Sequences, SequencesExt, FiniteSets

CONSTANTS IntMax, LongMax

ASSUME WidthAssumption ==
  IntMax \in Nat \ {0} /\ LongMax \in Nat /\ IntMax <= LongMax

Element(kind, n) == [kind |-> kind, n |-> n]

\* The indices of an array of a shape; a scalar has one, which is empty.
Indices(shape) ==
  LET largest == {0} \cup {shape[d] - 1 : d \in DOMAIN shape}
  IN {i \in [DOMAIN shape -> UNION {0..n : n \in largest}] :
        \A d \in DOMAIN shape : i[d] < shape[d]}

Size(shape) == Cardinality(Indices(shape))
Elements(v) == {v.at[i] : i \in Indices(v.shape)}

Kinds == {"int", "float", "bool", "list"}

\* What a dictionary of a request is; True and False are 1 and 0.
IsDictionary(data) ==
  /\ data \in Seq(ToSet(data))
  /\ \A j, k \in DOMAIN data : data[j].name = data[k].name => j = k
  /\ \A v \in ToSet(data) :
       /\ v.shape \in Seq(Nat)
       /\ v.at \in [Indices(v.shape) -> [kind : Kinds, n : Int]]
       /\ \A e \in Elements(v) : e.kind = "bool" => e.n \in {0, 1}
-----------------------------------------------------------------------------
(* httpstan.utils._split_data                                              *)

\* numpy's type for what the schema lets pass.  Numbers beyond 64 bits and
\* ragged lists stay Python objects (for the latter newer versions raise
\* ValueError themselves); without any element it is a float.
Dtype(v) ==
  LET kinds == {e.kind : e \in Elements(v)}
      ints == {e.n : e \in {e \in Elements(v) : e.kind = "int"}}
      huge == \E n \in ints : n \notin -(LongMax + 1)..2 * LongMax + 1
      fits == \A n \in ints : n \in -(LongMax + 1)..LongMax
      unsigned == \A n \in ints : n \in LongMax + 1..2 * LongMax + 1
      object == huge \/ "list" \in kinds
  IN CASE object -> "object"
       [] ~object /\ ("float" \in kinds \/ kinds = {}) -> "float64"
       [] ~object /\ kinds = {"bool"} -> "bool"
       [] OTHER -> IF fits THEN "int64" ELSE IF unsigned THEN "uint64" ELSE "float64"

Floating(v) == Dtype(v) = "float64"
Integral(v) == Dtype(v) \in {"int64", "uint64"}

\* Plausible slip: numpy's own order, the last index fastest.
RowMajor(shape, place) ==
  [d \in DOMAIN shape |->
     (place \div Size(SubSeq(shape, d + 1, Len(shape)))) % shape[d]]
\* order="F": the index of the element at a place, the first index fastest.
IndexAt(shape, place) ==
  [d \in DOMAIN shape |-> (place \div Size(SubSeq(shape, 1, d - 1))) % shape[d]]

Ravel(v) ==
  [k \in 1..Size(v.shape) |-> v.at[IndexAt(v.shape, k - 1)]]

\* astype(int) of what a signed integer cannot hold.
AsLong(n) == IF n > LongMax THEN n - 2 * (LongMax + 1) ELSE n

\* astype(float) or astype(int)
Numbers(v) ==
  [k \in DOMAIN Ravel(v) |->
     IF Integral(v) THEN AsLong(Ravel(v)[k].n) ELSE Ravel(v)[k].n]

\* The lists of one sort: names_r, values_r and dim_r, or those of integers.
NoVariables == [names |-> <<>>, values |-> <<>>, dims |-> <<>>]
With(sort, v) ==
  [names |-> Append(sort.names, v.name),
   values |-> sort.values \o Numbers(v),
   dims |-> Append(sort.dims, v.shape)]

\* The loop over the dictionary, and what it does to the lists of the sort of
\* the chosen variables.
Split(data, chosen) ==
  LET upto[k \in 0..Len(data)] ==
        IF k = 0 THEN NoVariables
        ELSE IF k \in chosen THEN With(upto[k - 1], data[k]) ELSE upto[k - 1]
  IN upto[Len(data)]

SplitReals(data) == Split(data, {k \in DOMAIN data : Floating(data[k])})
SplitInts(data) == Split(data, {k \in DOMAIN data : Integral(data[k])})

\* ValueError: "Variable must be int or float."
SplitRaises(data) ==
  \E k \in DOMAIN data : ~Floating(data[k]) /\ ~Integral(data[k])
-----------------------------------------------------------------------------
(* new_array_var_context                                                   *)

\* item.cast<int>() raises for what a C++ int does not hold.
CastRaises(data) ==
  \E k \in DOMAIN SplitInts(data).values :
    SplitInts(data).values[k] \notin -(IntMax + 1)..IntMax

Convertible(data) == ~SplitRaises(data) /\ ~CastRaises(data)

Context(data) == [reals |-> SplitReals(data), ints |-> SplitInts(data)]
-----------------------------------------------------------------------------
(* What Stan reads, defined from the order alone.                          *)

\* Index i comes before j if it is smaller in the last place they differ.
Before(i, j) ==
  \E d \in DOMAIN i :
    i[d] < j[d] /\ \A e \in DOMAIN i : e > d => i[e] = j[e]

\* How many values are before those of the k-th variable of one sort.
Offset(dims, k) == Cardinality(UNION {{m} \X Indices(dims[m]) : m \in 1..k - 1})

\* The number at index i of the k-th variable.
Read(sort, k, i) ==
  LET place == Cardinality({j \in Indices(sort.dims[k]) : Before(j, i)})
  IN sort.values[Offset(sort.dims, k) + place + 1]

Names(sort, v) == v.name \in ToSet(sort.names)

\* A variable of the dictionary is read back from its sort, at every index.
ReadsBack(sort, v) ==
  \E k \in DOMAIN sort.names :
    /\ sort.names[k] = v.name
    /\ sort.dims[k] = v.shape
    /\ \A i \in Indices(v.shape) : Read(sort, k, i) = v.at[i].n
=============================================================================
