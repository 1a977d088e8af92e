--------------------------- MODULE MCPanelCircuit ---------------------------
(* Interchangeable callers for TLC.                                        *)
EXTENDS PanelCircuit, TLC

CONSTANTS c1, c2, c3

CallerSymmetry == Permutations(Callers)

=============================================================================
