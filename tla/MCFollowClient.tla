--------------------------- MODULE MCFollowClient ----------------------------
EXTENDS FollowClient

\* The report is fixed already, and the reporter has yet to hear of it.
MCFixed == <<"final">>
=============================================================================
