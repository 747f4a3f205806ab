----------------------------- MODULE DeviceTree -----------------------------
(***************************************************************************)
(* A device tree as its reader meets it: a sequence of tokens, one more at *)
(* a time.  A node is opened inside the open one, a property belongs to    *)
(* the open node, an end closes the node opened last, and there is nothing *)
(* outside the first node.                                                 *)
(***************************************************************************)
EXTENDS Integers, Sequences

VARIABLE
  told       \* the tokens so far, each with the path of the nodes open after it

TreeInit == told = <<>>

Open(tokens) == IF tokens = <<>> THEN <<>> ELSE tokens[Len(tokens)].path

\* The token a step adds.
Added == told'[Len(told')]

Speak == Len(told') = Len(told) + 1 /\ told' = Append(told, Added)

Begin ==
  /\ Added.kind = "begin"
  /\ Open(told) = <<>> => told = <<>>
  /\ Added.path = Append(Open(told), Added.name)

Property ==
  /\ Added.kind = "prop"
  /\ Open(told) # <<>>
  /\ Added.path = Open(told)

End ==
  /\ Added.kind = "end"
  /\ Open(told) # <<>>
  /\ Added.path = SubSeq(Open(told), 1, Len(Open(told)) - 1)

TreeNext == Speak /\ (Begin \/ Property \/ End)

TreeSpec == TreeInit /\ [][TreeNext]_told

=============================================================================
