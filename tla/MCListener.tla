----------------------------- MODULE MCListener -----------------------------
(***************************************************************************)
(* Two requests.  The forms move the panel to another port, another        *)
(* address, to TLS that works and TLS that does not, and to no valid port. *)
(***************************************************************************)
EXTENDS Listener

MCDefault == [addr |-> "*", port |-> 1, tls |-> "off"]
MCForms == {MCDefault, [addr |-> "x", port |-> 2, tls |-> "good"],
            [addr |-> "x", port |-> 1, tls |-> "bad"], [addr |-> "*", port |-> 0, tls |-> "off"]}
MCEnvPorts == {Unset, 0, 2}
MCBindForms == {[addr |-> "*", port |-> 1], [addr |-> "x", port |-> 2], [addr |-> "y", port |-> 1]}
=============================================================================
