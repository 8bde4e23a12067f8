------------------------------- MODULE MCPager -------------------------------
EXTENDS Pager
Connections == Permutations(Conn)
==============================================================================
