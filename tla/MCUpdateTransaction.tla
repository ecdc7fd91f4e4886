------------------------ MODULE MCUpdateTransaction ------------------------
EXTENDS UpdateTransaction

MCOne == {1}
MCTwo == {1, 2}
MCVersions == {1, 2, 3}
=============================================================================
