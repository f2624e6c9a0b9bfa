------------------------------ MODULE MCCanvas ------------------------------
(* Two of everything a surface can mix up: sessions, servers, apps, urls.  *)
EXTENDS Canvas
=============================================================================
