----------------------------- MODULE MCRedsocks -----------------------------
EXTENDS Redsocks

MCRequest == <<"q1", "q2", "q3">>
MCReply == <<"a1">>
=============================================================================
