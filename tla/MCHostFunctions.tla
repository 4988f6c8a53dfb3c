-------------------------- MODULE MCHostFunctions ---------------------------
(* Argument lists and strings at and around the limits of HostFunctions.cfg. *)
EXTENDS HostFunctions

MCArguments == {<<>>, <<1, Scalar>>, <<1, 1>>, <<2>>, <<Scalar, Scalar, Scalar>>}
MCStrings == {<<>>, <<2>>, <<1, 2>>, <<1>>}
MCTexts == BoundedSeq({1, 2, 3, 4}, 5)
MCFailed == <<1, 1>>
MCPanic == <<1, 1, 1>>
MCPrefix == <<1, 1, 1, 1>>
CellSymmetry == Permutations(Cells)
=============================================================================
