---------------------------- MODULE MCWebServer ----------------------------
(* Instances of WebServer for TLC; the cfg file chooses the sizes.          *)
EXTENDS WebServer
=============================================================================
