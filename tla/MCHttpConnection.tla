-------------------------- MODULE MCHttpConnection --------------------------
EXTENDS HttpConnection

MCKeys   == {<<"a", "b">>}
MCValues == {<<"y", "x">>}
=============================================================================
