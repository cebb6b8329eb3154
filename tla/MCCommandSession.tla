-------------------------- MODULE MCCommandSession --------------------------
(***************************************************************************)
(* CommandSession for TLC.  Commands are interchangeable, so their         *)
(* permutations are a symmetry of every safety run.                        *)
(***************************************************************************)
EXTENDS CommandSession, TLC

CommandSymmetry == Permutations(Commands)
=============================================================================
