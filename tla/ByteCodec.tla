------------------------------ MODULE ByteCodec ------------------------------
(***************************************************************************)
(* What ByteWriter and ByteReader do to a message: a layout is the order   *)
(* in which a function writes, or reads, the members of an object.  A      *)
(* member is known by its path; of a scalar only its encoding counts, and  *)
(* an "enum" is a byte not all of whose values mean something.             *)
(*                                                                         *)
(* Writers and readers are separate functions in the code and separate     *)
(* layouts here; the reader's also say where it looks at what it has read. *)
(***************************************************************************)
EXTENDS Naturals, Sequences, TLC

\* The sequences of a sequence one behind the other, joined half by half.
Joined(seqs) ==
  LET from[i, j \in 1 .. Len(seqs)] ==
        IF i = j THEN seqs[i]
        ELSE LET m == (i + j) \div 2 IN from[i, m] \o from[m + 1, j]
  IN  IF seqs = <<>> THEN <<>> ELSE from[1, Len(seqs)]

Field(type, name) == [type |-> type, name |-> <<name>>]

\* Members of one encoding in a row, and one of them alone.
Each(type, names) == [i \in DOMAIN names |-> Field(type, names[i])]
One(type, name)   == <<Field(type, name)>>

\* The members of an object that is itself a member.
Under(path, layout) == [i \in DOMAIN layout |-> [layout[i] EXCEPT !.name = path \o @]]
In(name, layout)    == Under(<<name>>, layout)

\* A reader refuses the value it has read for the member.
Check(name) == One("check", name)

\* A counted list.  A writer knows no maximum; a reader may.
NoMax == 99
List(type, name, max, layout) ==
  <<[type |-> "list", name |-> <<name>>, count |-> type, max |-> max, of |-> layout]>>
Written(type, name, layout) == List(type, name, NoMax, layout)

\* Members only files of a version have.
Since(version, layout) ==
  <<[type |-> "since", name |-> <<>>, version |-> version, of |-> layout]>>

\* The elements of a list of k.
Elements(list, k) ==
  Joined([i \in 1 .. k |-> Under(list.name \o <<ToString(i)>>, list.of)])

-----------------------------------------------------------------------------
(* A layout for lists of k elements each and a file of a version: what a    *)
(* writer leaves, or what a reader does to it, in order.  A count is a      *)
(* member; a list counted by a bool has at most one element.               *)

Length(list, k) == IF list.count = "bool" /\ k > 0 THEN 1 ELSE k

Spread(item, k, version) ==
  CASE item.type = "list"  -> <<[type |-> item.count, name |-> item.name,
                                 value |-> Length(item, k), max |-> item.max]>>
                                \o Elements(item, Length(item, k))
    [] item.type = "since" -> IF version >= item.version
                              THEN Under(item.name, item.of) ELSE <<>>
    [] OTHER -> <<item>>

Once(layout, k, version) == Joined([i \in DOMAIN layout |-> Spread(layout[i], k, version)])

\* Mutant of Expanded: lists in the elements of lists are forgotten.
MutExpanded(layout, k, version) == Once(layout, k, version)

\* Layouts nest at most four deep.
Expanded(layout, k, version) ==
  LET outer == Once(layout, k, version)
      inner == Once(outer, k, version)
      third == Once(inner, k, version)
  IN  Once(third, k, version)
=============================================================================
