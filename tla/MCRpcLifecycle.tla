---------------------------- MODULE MCRpcLifecycle ----------------------------
(* Instances of RpcLifecycle for TLC. *)
EXTENDS RpcLifecycle

CONSTANTS u1, u2, s1, s2, fr, en

MCLanguageOf == [c \in Calls |-> IF c = u2 \/ c = s2 THEN fr ELSE en]

(* Every middleware the library ships, authentication last. *)
FullChain == <<"log", "close", "locale", "auth">>
(* Authentication outside the connection handling. *)
AuthFirstChain == <<"auth", "locale", "close">>
(* The default of GRPC_MIDDLEWARE. *)
DefaultChain == <<"log", "close">>
================================================================================
