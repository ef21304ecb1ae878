---------------------------- MODULE MCProtoQueue ----------------------------
EXTENDS ProtoQueue

\* Plain bytes, each byte that needs escaping, and 5E, the flipped 7E.
MCMessages == { <<1>>, <<126>>, <<94, 127>> }
=============================================================================
