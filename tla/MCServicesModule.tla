-------------------------- MODULE MCServicesModule --------------------------
(* Instances of ServicesModule for TLC: dictionaries at the edges of the   *)
(* conversion, for a C++ int of -4..3 and a default integer of -8..7.      *)
EXTENDS ServicesModule_proofs

Variable(name, shape, at) == [name |-> name, shape |-> shape, at |-> at]
Scalar(name, kind, n) ==
  Variable(name, << >>, [i \in Indices(<< >>) |-> Element(kind, n)])

\* Matrices whose elements all differ.
RealMatrix == Variable("real_matrix", <<2, 3>>,
  [i \in Indices(<<2, 3>>) |-> Element("float", 3 * i[1] + i[2])])
\* A float among the integers makes an array of reals.
MixedCube == Variable("mixed_cube", <<2, 1, 2>>,
  [i \in Indices(<<2, 1, 2>>) |->
     Element(IF i[3] = 0 THEN "int" ELSE "float", 2 * i[1] + i[3])])
IntMatrix == Variable("int_matrix", <<2, 2>>,
  [i \in Indices(<<2, 2>>) |-> Element("int", 2 * i[1] + i[2])])
\* [[1, 2], 3]
Ragged == Variable("ragged", <<2>>,
  [i \in Indices(<<2>>) |-> Element(IF i[1] = 0 THEN "list" ELSE "int", 3)])
\* An empty list of integers is an array of reals.
NoElement(shape) == Variable("empty", shape, << >>)

Usual == <<Scalar("N", "int", 3), RealMatrix, IntMatrix, NoElement(<<0>>),
           MixedCube, Scalar("sigma", "float", 2)>>

SomeDatas ==
  { Usual,
    << >>,
    <<NoElement(<<2, 0>>), Scalar("J", "int", -4), RealMatrix>>,
    <<Scalar("flag", "bool", 1)>>,
    <<RealMatrix, Ragged>>,
    <<IntMatrix, Scalar("long", "int", 4)>>,        \* not a C++ int
    <<Scalar("unsigned", "int", 15), IntMatrix>>,   \* astype(int) makes it -1
    <<Scalar("unsigned", "int", 9)>>,               \* and this one -7
    <<RealMatrix, Scalar("huge", "int", 16)>> }     \* a Python object
SomeSeconds ==
  { <<MixedCube, RealMatrix>>, <<Scalar("flag", "bool", 0)>> }
=============================================================================
