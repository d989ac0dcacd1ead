----------------------------- MODULE MCCredentials -----------------------------
(* A small instance of Credentials for TLC.  Passwords share nothing with factors *)
(* but the lock of the account, which a reset takes.                              *)
EXTENDS Credentials, TLC

Mixes == {PasswordKinds \cup {"resetMfa"},
          AllKinds \ (PasswordKinds \cup {"code", "assertion"}),
          {"code", "confirmTotp", "addPasskey", "removeTotp", "resetMfa"},
          {"assertion", "addPasskey", "removePasskey", "resetMfa"}}
Symmetry == Permutations(Req) \cup Permutations(Row) \cup Permutations(Passkey)
================================================================================
