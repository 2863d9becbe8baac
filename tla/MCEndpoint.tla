----------------------------- MODULE MCEndpoint -----------------------------
(***************************************************************************)
(* Requests of every shape: data in and out, one packet and two, none;     *)
(* refused at the SETUP, after the data, and without data; CLEAR_FEATURE   *)
(* and SET_CONFIGURATION, whose handlers touch the endpoint or the packet  *)
(* memory.  The GD32's packet memory has 512 bytes.                        *)
(***************************************************************************)
EXTENDS Endpoint

Ask(dir, n, what) == [dir |-> dir, n |-> n, what |-> what]
MCRequests == {Ask("in", 1, "plain"), Ask("in", 2, "plain"), Ask("in", 1, "refused"),
               Ask("out", 1, "plain"), Ask("out", 2, "plain"), Ask("out", 1, "refused"),
               Ask("out", 0, "plain"), Ask("out", 0, "halt"), Ask("out", 0, "config"),
               Ask("out", 0, "refused")}
=============================================================================
