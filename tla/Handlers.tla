------------------------------- MODULE Handlers -------------------------------
(***************************************************************************)
(* What the models of the backend's request handlers share.  The backend   *)
(* is one Node.js process: a handler runs alone up to its next await, and  *)
(* the handlers of other requests run there.  A Caller is a request the    *)
(* process is in, and each caller sends its next request when the last has *)
(* ended.                                                                  *)
(***************************************************************************)
CONSTANT Callers   \* how many requests may be open at a time, by name
=============================================================================
