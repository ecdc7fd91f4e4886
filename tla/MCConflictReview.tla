--------------------------- MODULE MCConflictReview ---------------------------
EXTENDS ConflictReview

MCConflictOrder == <<"X", "Y">>
MCMaxVariants == [c \in {"X", "Y"} |-> IF c = "X" THEN 3 ELSE 2]
===============================================================================
