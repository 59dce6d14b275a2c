--------------------------- MODULE MCPyEvaluator ---------------------------
EXTENDS PyEvaluator

\* A compute_all whose intrinsic_dim asks for a wider k, and one that fails
\* half-way because that k is too large.
MCCalls == {<<2, 3, 2>>, <<1, 4>>}
=============================================================================
