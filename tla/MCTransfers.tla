---------------------------- MODULE MCTransfers ----------------------------
EXTENDS Transfers

CONSTANTS c1, c2

\* One connection's server has scripts: headers ended with CRLF and no more, with
\* LF and data behind; neither headers nor data, but a zero.
ScriptsOfOne ==
    [c \in Conn |->
        IF c = c1 THEN {}
        ELSE {<<"line", "crlf">>, <<"lf", "data">>, <<"zero">>}]
=============================================================================
