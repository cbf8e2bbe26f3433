------------------------------ MODULE MCDirMail ------------------------------
(* DirMail with two requests, each from the windows, from a callback or from   *)
(* needServer, and few looks: the inbox can hold more mails than one look sees. *)
EXTENDS DirMail

CONSTANTS r1, r2

MCTwo == {r1, r2}
=============================================================================
