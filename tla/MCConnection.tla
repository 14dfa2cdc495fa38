---------------------------- MODULE MCConnection ----------------------------
(***************************************************************************)
(* Values of the constants of Connection for TLC: the classes of the two   *)
(* or three jobs of an instance, what the server sends by itself, and how  *)
(* often the application calls close(), setTimeout() and                   *)
(* setUseNetworkProxy(), and whether it destroys the session.              *)
(***************************************************************************)
EXTENDS Connection

CONSTANTS j1, j2, j3

KindStartTls   == j1 :> "starttls" @@ j2 :> "select" @@ j3 :> "select"
KindLoginPlain == j1 :> "login" @@ j2 :> "plain"
KindTls        == j1 :> "tls" @@ j2 :> "logout"
KindIdle       == j1 :> "plain" @@ j2 :> "idle" @@ j3 :> "logout"

Never        == [close |-> 0, timeout |-> 0, proxy |-> 0, destroy |-> 0]
CloseTimeout == [close |-> 1, timeout |-> 1, proxy |-> 0, destroy |-> 1]
ProxyOnce    == [close |-> 0, timeout |-> 0, proxy |-> 1, destroy |-> 1]

DataLine == {Reply(Star, "data")}
Garbage  == {Reply(Star, "garbage")}
=============================================================================
