---------------------------- MODULE MCProbeLadder ----------------------------
(* An instance of ProbeLadder (a .cfg cannot write -1), and of the placements *)
(* its rungs stand for when the model has experts.                            *)
EXTENDS ProbeLadder, Placement
SomeCaps == {-1, 2}
Zero == {0}
=============================================================================
