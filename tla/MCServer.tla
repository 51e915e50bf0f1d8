------------------------------- MODULE MCServer -------------------------------
\* Small instances of the server core.
EXTENDS Server, TLC

AllKinds == Kind
TwoKinds == {"request", "throws"}
=============================================================================
