--------------------------------- MODULE MCAuth ---------------------------------
(***************************************************************************)
(* A small instance of the sessions for TLC.                               *)
(***************************************************************************)
EXTENDS AuthService, TLC

MCSupervisors == "SUP-001" :> "123456" @@ "SUP-002" :> "654321"
===============================================================================
