----------------------------- MODULE RpcContract -----------------------------
(* What a client of a django-socio-grpc server may observe of its calls: a    *)
(* call is opened, is admitted at most once (authentication and every         *)
(* permission agreed), produces messages only while it is admitted, and ends  *)
(* with exactly one status. How the server gets there (thread pool or event   *)
(* loop, middlewares, hooks, generators) is the business of RpcLifecycle,     *)
(* which implements this module.                                              *)
EXTENDS Naturals

CONSTANTS Calls,       \* the RPCs a client makes
          Streaming,   \* those whose response is a stream
          Failures     \* the statuses, other than OK, a call can end with

VARIABLES opened,      \* opened[c]: the servicer has begun to serve c
          admitted,    \* admitted[c]: c was authenticated and permitted
          sent,        \* sent[c]: number of response messages handed to gRPC
          status       \* status[c]: "none", or the status the call ended with

contractVars == <<opened, admitted, sent, status>>

ContractTypeOK ==
    /\ opened \in [Calls -> BOOLEAN]
    /\ admitted \in [Calls -> BOOLEAN]
    /\ sent \in [Calls -> Nat]
    /\ status \in [Calls -> Failures \cup {"none", "OK"}]

Init ==
    /\ opened = [c \in Calls |-> FALSE]
    /\ admitted = [c \in Calls |-> FALSE]
    /\ sent = [c \in Calls |-> 0]
    /\ status = [c \in Calls |-> "none"]

Live(c) == opened[c] /\ status[c] = "none"

(* The servicer takes the call. *)
Open(c) ==
    /\ ~opened[c] /\ status[c] = "none"
    /\ opened' = [opened EXCEPT ![c] = TRUE]
    /\ UNCHANGED <<admitted, sent, status>>

(* Authentication and permissions have agreed. *)
Admit(c) ==
    /\ Live(c) /\ ~admitted[c]
    /\ admitted' = [admitted EXCEPT ![c] = TRUE]
    /\ UNCHANGED <<opened, sent, status>>

(* A stream yields one more message. *)
Send(c) ==
    /\ Live(c) /\ admitted[c] /\ c \in Streaming
    /\ sent' = [sent EXCEPT ![c] = @ + 1]
    /\ UNCHANGED <<opened, admitted, status>>

(* A stream is exhausted, or a unary call returns its only message. *)
Succeed(c) ==
    /\ Live(c) /\ admitted[c]
    /\ sent' = IF c \in Streaming THEN sent ELSE [sent EXCEPT ![c] = 1]
    /\ status' = [status EXCEPT ![c] = "OK"]
    /\ UNCHANGED <<opened, admitted>>

(* The call ends without success, before or after it was opened. *)
Fail(c) ==
    /\ status[c] = "none"
    /\ \E s \in Failures : status' = [status EXCEPT ![c] = s]
    /\ UNCHANGED <<opened, admitted, sent>>

Next == \E c \in Calls : Open(c) \/ Admit(c) \/ Send(c) \/ Succeed(c) \/ Fail(c)

Spec == Init /\ [][Next]_contractVars

(* Nothing is ever sent on behalf of a call that was not admitted, and a      *)
(* unary call delivers its message exactly when it succeeds.                  *)
Delivery ==
    \A c \in Calls :
        /\ sent[c] > 0 => admitted[c]
        /\ c \notin Streaming => sent[c] = (IF status[c] = "OK" THEN 1 ELSE 0)
=============================================================================
