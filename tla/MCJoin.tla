--------------------------------- MODULE MCJoin ---------------------------------
EXTENDS Join
MCAids == {1, 2}
=============================================================================
