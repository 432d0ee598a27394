--------------------------- MODULE MCToolExecutor ---------------------------
(***************************************************************************)
(* Instances of ToolExecutor: responses of up to MaxTools blocks of the    *)
(* kinds that the executor treats differently.                             *)
(***************************************************************************)
EXTENDS ToolExecutor

Kind(known, safe, bash, modifies) ==
  [known |-> known, safe |-> safe, bash |-> bash, modifies |-> modifies]

Read == Kind(TRUE, TRUE, FALSE, FALSE)
ReadOnlyBash == Kind(TRUE, TRUE, TRUE, TRUE)
Edit == Kind(TRUE, FALSE, FALSE, TRUE)
Unknown == Kind(FALSE, FALSE, FALSE, FALSE)

AllKinds == {Read, ReadOnlyBash, Edit, Unknown}
SomeKinds == {ReadOnlyBash, Edit}
ThreeKinds == {ReadOnlyBash, Edit, Unknown}
=============================================================================
