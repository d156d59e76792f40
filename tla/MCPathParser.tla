---------------------------- MODULE MCPathParser ----------------------------
(* Paths with and without a proper drive, and all continuations of up to    *)
(* eight characters, so that some are too long by one to three characters.  *)
EXTENDS PathParser

MCStarts == {<<"0", ":", "/">>, <<"0", ":">>, <<"a", ":", "/">>, <<"0", "/", ":">>, <<>>}
=============================================================================
