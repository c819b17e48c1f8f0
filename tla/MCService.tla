------------------------------ MODULE MCService ------------------------------
EXTENDS Service
MCQueries == {Query}
=============================================================================
