---------------------------- MODULE TensorFormat ----------------------------
(***************************************************************************)
(* Activations on the wire (tensor_format.py): a nested list is flattened  *)
(* and its shape inferred; the receiver validates and reshapes.  A nested  *)
(* list is <<"list", items>> or <<"leaf", value>>; the bytes are abstracted *)
(* to the sequence of values.                                              *)
(***************************************************************************)
EXTENDS Naturals, Sequences, SequencesExt

CONSTANTS
    Samples,        \* nested lists to send
    Numbers,        \* leaf values struct.pack accepts for the dtype
    MaxElements,    \* max_decoded_bytes, in elements
    MaxDepth        \* bound on the nesting of the samples

VARIABLES
    data,           \* what is sent, or NoData
    tensorPc,       \* "packing", "rejected", "packed" or "unpacked"
    wire,           \* the TensorPayload: [shape, flat]
    back            \* what the receiver has

tensorVars == <<data, tensorPc, wire, back>>

NoData  == <<"none">>
List(s) == <<"list", s>>
IsList(d) == d[1] = "list"
Items(d)  == d[2]

\* Every list among the nodes is replaced by its items, in place.
Unwrap(nodes) ==
    FlattenSeq([i \in DOMAIN nodes |->
                  IF IsList(nodes[i]) THEN Items(nodes[i]) ELSE <<nodes[i]>>])

\* The nodes n lists down in d, from left to right; numbers stay.
Level(d) ==
    LET level[n \in 0..MaxDepth] ==
          IF n = 0 THEN <<d>> ELSE Unwrap(level[n - 1])
    IN level

\* A list with its items, or a number.
IsSeq(s)  == Len(s) \in Nat /\ s = [i \in 1..Len(s) |-> s[i]]
IsNode(d) == d = <<d[1], d[2]>> /\ (IsList(d) => IsSeq(Items(d)))

ASSUME TensorAssumption ==
    /\ MaxElements \in Nat
    /\ MaxDepth \in Nat
    /\ \A d \in Samples :
         /\ IsList(d)
         /\ \A n \in 0..MaxDepth : \A i \in DOMAIN Level(d)[n] :
               IsNode(Level(d)[n][i])
         /\ \A i \in DOMAIN Level(d)[MaxDepth] : ~IsList(Level(d)[MaxDepth][i])

-----------------------------------------------------------------------------
(* Packing. *)

\* _prod(shape[k:]), for every k: the elements under one node of level k.
Prods(shape) ==
    LET prod[k \in 0..Len(shape)] ==
          IF k = Len(shape) THEN 1 ELSE shape[k + 1] * prod[k + 1]
    IN prod

Prod(shape) == Prods(shape)[0]

\* Mutant: the stack is extended without reversing the items.
FlattenBackwards(d) == Reverse(Level(d)[MaxDepth])

\* _flatten: the numbers below d, from left to right.
Flatten(d) == Level(d)[MaxDepth]

\* The walk down the first elements: the first node of every level, as long
\* as the one above it has items.
FirstNode(d, n) == Level(d)[n][1]

\* It ends at a number or at an empty list.
WalkEnds(d, n) == IsList(FirstNode(d, n)) => Items(FirstNode(d, n)) = <<>>

WalkEnd(d) ==
    CHOOSE n \in 0..MaxDepth :
        (\A m \in 0..(n - 1) : ~WalkEnds(d, m)) /\ WalkEnds(d, n)

\* The first element at each level decides.
InferShape(d) ==
    [k \in 1..(WalkEnd(d) + IF IsList(FirstNode(d, WalkEnd(d))) THEN 1 ELSE 0)
        |-> Len(Items(FirstNode(d, k - 1)))]

\* validate(): the byte count is what the shape says, and below the cap.
Valid(w) == Len(w.flat) = Prod(w.shape) /\ Prod(w.shape) <= MaxElements

\* from_nested_list raises on a leaf that is no number of the dtype, and on a
\* count that does not fit the inferred shape.
Pack ==
    /\ tensorPc = "packing"
    /\ LET w == [shape |-> InferShape(data), flat |-> Flatten(data)] IN
       IF Valid(w) /\ \A i \in DOMAIN w.flat : w.flat[i][2] \in Numbers
       THEN tensorPc' = "packed" /\ wire' = w
       ELSE tensorPc' = "rejected" /\ UNCHANGED wire
    /\ UNCHANGED <<data, back>>

-----------------------------------------------------------------------------
(* Unpacking. *)

\* Mutant: chunks of the first dimension's size; Python cuts a slice off where
\* its list ends.
ReshapeByCount(flat, shape) ==
    LET rank == Len(shape)
        part[k \in 1..rank] ==
          [s \in (0..Len(flat)) \X (0..Len(flat)) |->
             IF k = rank THEN List(SubSeq(flat, s[1] + 1, s[2]))
             ELSE LET n == Prods(shape)[k]
                      cut[j \in 0..shape[k]] ==
                         LET e == s[1] + j * shape[k] IN
                         IF e < s[2] THEN e ELSE s[2] IN
                  List([i \in 1..shape[k] |->
                     IF n = 0 THEN List(<<>>)
                     ELSE part[k + 1][<<cut[i - 1], cut[i]>>]])]
    IN part[1][<<0, Len(flat)>>]

\* _reshape, for the slice s of the flat list from dimension k on: row-major
\* chunks; chunks of size zero are empty lists, whatever dimensions they
\* should have.
Reshape(flat, shape) ==
    LET rank == Len(shape)
        part[k \in 1..rank] ==
          [s \in (0..Len(flat)) \X (0..Len(flat)) |->
             IF k = rank THEN List(SubSeq(flat, s[1] + 1, s[2]))
             ELSE LET n == Prods(shape)[k] IN
                  List([i \in 1..shape[k] |->
                     IF n = 0 THEN List(<<>>)
                     ELSE part[k + 1][<<s[1] + (i - 1) * n, s[1] + i * n>>]])]
    IN part[1][<<0, Len(flat)>>]

\* from_dict validates again, to_nested_list reshapes.
Unpack ==
    /\ tensorPc = "packed"
    /\ Valid(wire)
    /\ tensorPc' = "unpacked"
    /\ back' = Reshape(wire.flat, wire.shape)
    /\ UNCHANGED <<data, wire>>

-----------------------------------------------------------------------------

TensorInit ==
    /\ data \in Samples \cup {NoData}
    /\ tensorPc = IF data = NoData THEN "rejected" ELSE "packing"
    /\ wire = [shape |-> <<>>, flat |-> <<>>]
    /\ back = NoData

TensorNext == Pack \/ Unpack

TensorSpec == TensorInit /\ [][TensorNext]_tensorVars

-----------------------------------------------------------------------------
(* Properties.  Rectangular is the reference: d is a full array of the     *)
(* dimensions given, down to leaves that are numbers.                      *)

Rectangular(d, shape) ==
    /\ \A k \in 1..Len(shape) : \A i \in DOMAIN Level(d)[k - 1] :
          LET node == Level(d)[k - 1][i] IN
          IsList(node) /\ Len(Items(node)) = shape[k]
    /\ \A i \in DOMAIN Level(d)[Len(shape)] :
          LET node == Level(d)[Len(shape)][i] IN
          ~IsList(node) /\ node[2] \in Numbers

IsArray(d) == Rectangular(d, InferShape(d))
Size(d)    == Prod(InferShape(d))

\* An array within the cap is accepted and comes back as it was; so does an
\* empty one of at most two dimensions.
ArraysRoundTrip ==
    data # NoData /\ IsArray(data) /\ Size(data) <= MaxElements =>
       /\ tensorPc # "rejected"
       /\ tensorPc = "unpacked" /\ (Size(data) > 0 \/ Len(wire.shape) <= 2)
             => back = data

\* A ragged list whose count happens to fit is accepted and silently becomes
\* an array of the inferred shape (tensor_format.py:106); at least it has all
\* the numbers, in their order.
AcceptedKeepsNumbers ==
    tensorPc = "unpacked" /\ Size(data) > 0 =>
       /\ Rectangular(back, wire.shape)
       /\ Flatten(back) = Flatten(data)

\* The docstring of to_nested_list: "a properly-shaped nested list of empty
\* lists" for every shape with a dimension of zero (tensor_format.py:251).
EmptyArraysKeepTheirShape ==
    tensorPc = "unpacked" /\ Size(data) = 0 => Rectangular(back, wire.shape)
=============================================================================
