---------------------------- MODULE MCFakeServer ----------------------------
(***************************************************************************)
(* FakeServer for TLC: scenarios as the tests write them, with a pause as  *)
(* in idlejobtest.cpp:111, the end of the connection as in :242, a literal *)
(* as in appendjobtest.cpp and STARTTLS as in loginjobtest.cpp:289.        *)
(***************************************************************************)
EXTENDS FakeServer

SomeScripts == {<<"S", "C", "S", "W", "S">>, <<"S", "LITERAL", "C", "S", "X">>,
                <<"S", "STARTTLS", "S", "SKIP", "S">>, <<"S", "C", "W", "S">>}
=============================================================================
