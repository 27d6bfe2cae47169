--------------------------- MODULE MCLimitPolicy ---------------------------
EXTENDS LimitPolicy
\* A reported reset time is right or one too early.
OneEarly == {-1, 0}
=============================================================================
