----------------------------- MODULE ParamList -----------------------------
(***************************************************************************)
(* The lists of headers, query parameters and handlers as their users see  *)
(* them: AddTo... puts a pair at the head, LookUp... finds the first match.*)
(***************************************************************************)
EXTENDS Sequences, Naturals

CONSTANT NULL

\* Variant: a new pair goes to the end of the list.
AddLast(list, name, value) == Append(list, [name |-> name, value |-> value])

Add(list, name, value) == <<[name |-> name, value |-> value]>> \o list

Matches(list, name) == {i \in DOMAIN list : list[i].name = name}

LookUp(list, name) ==
  IF Matches(list, name) = {} THEN NULL
  ELSE list[CHOOSE i \in Matches(list, name) :
              \A j \in Matches(list, name) : i <= j].value
=============================================================================
