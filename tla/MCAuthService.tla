--------------------------- MODULE MCAuthService ----------------------------
(* Two names, two passwords, a handler in use and one that was abandoned.  *)
EXTENDS AuthService
=============================================================================
