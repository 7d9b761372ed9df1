-------------------------- MODULE RpcLifecycleProofs --------------------------
(* Theorems about RpcLifecycle, for any set of calls, pool, middleware chain  *)
(* and either server mode.                                                    *)
EXTENDS RpcLifecycle, TLAPS

--------------------------------------------------------------------------------
(* Typing. *)

LEMMA InitTyped == Init => TypeOK
  BY ChainAssumption DEF Init, TypeOK, Locations, Levels, Caught, Languages

LEMMA StatusTyped == \A e \in Caught : StatusOf(e) \in Failures
  BY DEF Caught, ActionErrors, StatusOf, Failures, Unauthenticated,
         PermissionDenied, ClientError, ServerError, OtherError

LEMMA ChainLength == Len(Chain) \in Nat
  BY ChainAssumption

LEMMA AbortTyped == \A e \in Caught : AbortsWith(e) \subseteq Failures
  BY StatusTyped DEF AbortsWith, Failures

LEMMA LevelTyped == \A e : LevelOf(e) \in Levels
  BY DEF LevelOf, Levels

LEMMA RecordsTyped == \A c \in Calls : Records(c) \in Seq(Levels)
<1> TAKE c \in Calls
<1>1. << >> \in Seq(Levels) /\ <<"INFO">> \in Seq(Levels)
  BY DEF Levels
<1>2. <<LevelOf(exc[c])>> \in Seq(Levels)
  BY LevelTyped
<1> QED
  BY <1>1, <1>2 DEF Records


ConnTyped == conn \in [DbThreads -> {"open", "closed"}]
PcTyped == pc \in [Calls -> Locations]
DepthTyped == depth \in [Calls -> 0 .. Len(Chain) + 1]
ExcTyped == exc \in [Calls -> Caught \cup {"none", Cancelled}]

LEMMA SetConnTyped ==
    ASSUME TypeOK, NEW c, NEW v \in {"open", "closed"}, SetConn(c, v)
    PROVE  ConnTyped'
  BY DEF TypeOK, SetConn, ConnTyped

LEMMA GotoTyped ==
    ASSUME TypeOK, NEW c, NEW l \in Locations, Goto(c, l)
    PROVE  PcTyped'
  BY DEF TypeOK, Goto, PcTyped

LEMMA DescendTyped ==
    ASSUME TypeOK, NEW c \in Calls, NEW name, Entering(c, name), Descend(c)
    PROVE  DepthTyped'
<1>1. depth[c] + 1 \in 0 .. Len(Chain) + 1
  BY ChainLength DEF Entering
<1> QED
  BY <1>1 DEF TypeOK, Descend, DepthTyped

LEMMA RaiseTyped ==
    ASSUME TypeOK, NEW c, NEW e \in Caught \cup {Cancelled}, NEW l \in Locations,
           NEW d \in 0 .. Len(Chain) + 1, Raise(c, e, l, d)
    PROVE  PcTyped' /\ ExcTyped' /\ DepthTyped'
<1>1. PcTyped'
  BY GotoTyped DEF Raise
<1>2. ExcTyped' /\ DepthTyped'
  BY DEF TypeOK, Raise, ExcTyped, DepthTyped
<1> QED
  BY <1>1, <1>2

LEMMA AuthenticationTyped ==
    ASSUME TypeOK, NEW c \in Calls, NEW raised \in BOOLEAN,
           perform_authentication(c, raised)
    PROVE  /\ authPerformed' \in [Calls -> BOOLEAN]
           /\ resolutions' \in [Calls -> Nat]
           /\ ConnTyped'
<1>1. CASE authPerformed[c]
  BY <1>1 DEF TypeOK, perform_authentication, ConnTyped
<1>2. CASE ~authPerformed[c]
  <2>1. ConnTyped'
    BY <1>2, SetConnTyped DEF perform_authentication
  <2>2. authPerformed' \in [Calls -> BOOLEAN]
    BY <1>2, Zenon DEF TypeOK, perform_authentication
  <2>3. resolutions' \in [Calls -> Nat]
    <3>1. resolutions' = [resolutions EXCEPT ![c] = resolutions[c] + 1]
      BY <1>2, Zenon DEF perform_authentication
    <3> QED
      BY <3>1 DEF TypeOK
  <2> QED
    BY <2>1, <2>2, <2>3
<1> QED
  BY <1>1, <1>2

LEMMA ErrorsTyped ==
    /\ ActionErrors \subseteq Caught
    /\ Unauthenticated \in Caught
    /\ {PermissionDenied, OtherError} \subseteq Caught
  BY DEF Caught, ActionErrors

LEMMA Depths == \A d \in {0, Len(Chain)} : d \in 0 .. Len(Chain) + 1
  BY ChainLength

LEMMA LowerDepth ==
    ASSUME NEW c \in Calls, NEW name, Entering(c, name)
    PROVE  depth[c] - 1 \in 0 .. Len(Chain) + 1
  BY ChainLength DEF Entering

LEMMA LeavingDepth ==
    ASSUME TypeOK, NEW c \in Calls, Leaving(c)
    PROVE  depth[c] - 1 \in 0 .. Len(Chain) + 1
  BY ChainLength DEF TypeOK, Leaving

LEMMA StepTyped ==
    ASSUME TypeOK, [Next]_vars
    PROVE  TypeOK'
<1> USE ChainLength, BoundAssumption
<1>1. ASSUME NEW c \in Calls, Arrive(c) PROVE TypeOK'
  BY <1>1 DEF TypeOK, Arrive, Goto, Locations
<1>2. ASSUME NEW c \in Calls, Withdraw(c) PROVE TypeOK'
  BY <1>2 DEF TypeOK, Withdraw, Goto, Locations, Failures
<1>3. ASSUME NEW c \in Calls, NEW s \in Slots, create_service(c, s) PROVE TypeOK'
  BY <1>3 DEF TypeOK, create_service, Publish, Goto, Locations
<1>4. ASSUME NEW c \in Calls, NEW s \in Slots, RejectMetadata(c, s) PROVE TypeOK'
  BY <1>4 DEF TypeOK, RejectMetadata, Goto, Locations, Failures
<1>5. ASSUME NEW c \in Calls, EnterLog(c) PROVE TypeOK'
  BY <1>5 DEF TypeOK, EnterLog, Entering, Descend
<1>6. ASSUME NEW c \in Calls, EnterClose(c) PROVE TypeOK'
  BY <1>6, SetConnTyped, DescendTyped DEF TypeOK, EnterClose, ConnTyped, DepthTyped
<1>7. ASSUME NEW c \in Calls, EnterLocale(c) PROVE TypeOK'
  <2>1. language' \in [Slots -> Languages]
    BY <1>7 DEF TypeOK, EnterLocale, Activate, Languages
  <2> QED
    BY <1>7, <2>1, DescendTyped DEF TypeOK, EnterLocale, DepthTyped
<1>8. ASSUME NEW c \in Calls, EnterAuth(c) PROVE TypeOK'
  <2>1. CASE perform_authentication(c, FALSE) /\ Descend(c) /\ UNCHANGED <<pc, exc>>
    BY <1>8, <2>1, AuthenticationTyped, DescendTyped
       DEF TypeOK, EnterAuth, ConnTyped, DepthTyped
  <2>2. CASE /\ perform_authentication(c, TRUE)
             /\ Raise(c, Unauthenticated, "unwind", depth[c] - 1)
    <3>1. PcTyped' /\ ExcTyped' /\ DepthTyped'
      BY <1>8, <2>2, RaiseTyped, ErrorsTyped, LowerDepth DEF EnterAuth, Locations
    <3> QED
      BY <1>8, <2>2, <3>1, AuthenticationTyped
         DEF TypeOK, EnterAuth, ConnTyped, PcTyped, ExcTyped, DepthTyped
  <2> QED
    BY <1>8, <2>1, <2>2 DEF EnterAuth
<1>9. ASSUME NEW c \in Calls, Authenticate(c) PROVE TypeOK'
  <2>1. CASE perform_authentication(c, FALSE) /\ Goto(c, "perms") /\ UNCHANGED <<depth, exc>>
    <3>1. PcTyped'
      BY <2>1, GotoTyped DEF Locations
    <3> QED
      BY <1>9, <2>1, <3>1, AuthenticationTyped
         DEF TypeOK, Authenticate, ConnTyped, PcTyped
  <2>2. CASE /\ perform_authentication(c, TRUE)
             /\ Raise(c, Unauthenticated, "after", Len(Chain))
    <3>1. PcTyped' /\ ExcTyped' /\ DepthTyped'
      BY <2>2, RaiseTyped, ErrorsTyped, Depths DEF Locations
    <3> QED
      BY <1>9, <2>2, <3>1, AuthenticationTyped
         DEF TypeOK, Authenticate, ConnTyped, PcTyped, ExcTyped, DepthTyped
  <2> QED
    BY <1>9, <2>1, <2>2 DEF Authenticate
<1>10. ASSUME NEW c \in Calls, CheckPermissions(c) PROVE TypeOK'
  <2>1. PcTyped' /\ ExcTyped' /\ DepthTyped'
    <3>1. CASE Goto(c, "action") /\ UNCHANGED <<depth, exc>>
      BY <3>1, GotoTyped DEF TypeOK, Locations, ExcTyped, DepthTyped
    <3>2. CASE \E e \in {PermissionDenied, OtherError} : Raise(c, e, "after", Len(Chain))
      BY <3>2, RaiseTyped, ErrorsTyped, Depths DEF Locations
    <3> QED
      BY <1>10, <3>1, <3>2 DEF CheckPermissions
  <2> QED
    BY <1>10, <2>1, SetConnTyped
       DEF TypeOK, CheckPermissions, PcTyped, ExcTyped, DepthTyped, ConnTyped
<1>11. ASSUME NEW c \in Calls, RunAction(c) PROVE TypeOK'
  <2>1. PcTyped' /\ ExcTyped' /\ DepthTyped'
    <3>1. CASE Goto(c, "after") /\ UNCHANGED <<depth, exc>>
      BY <3>1, GotoTyped DEF TypeOK, Locations, ExcTyped, DepthTyped
    <3>2. CASE \E e \in ActionErrors : Raise(c, e, "after", Len(Chain))
      BY <3>2, RaiseTyped, ErrorsTyped, Depths DEF Locations
    <3> QED
      BY <1>11, <3>1, <3>2 DEF RunAction
  <2>2. ConnTyped'
    <3>1. CASE UNCHANGED conn
      BY <3>1 DEF TypeOK, ConnTyped
    <3>2. CASE SetConn(c, "open")
      BY <3>2, SetConnTyped
    <3> QED
      BY <1>11, <3>1, <3>2 DEF RunAction
  <2> QED
    BY <1>11, <2>1, <2>2
       DEF TypeOK, RunAction, PcTyped, ExcTyped, DepthTyped, ConnTyped
<1>12. ASSUME NEW c \in Calls, AfterAction(c) PROVE TypeOK'
  BY <1>12 DEF TypeOK, AfterAction, Goto, Locations
<1>13. ASSUME NEW c \in Calls, LeaveMiddleware(c) PROVE TypeOK'
  <2>1. ConnTyped'
    <3>1. CASE UNCHANGED conn
      BY <3>1 DEF TypeOK, ConnTyped
    <3>2. CASE SetConn(c, "closed")
      BY <3>2, SetConnTyped
    <3> QED
      BY <1>13, <3>1, <3>2 DEF LeaveMiddleware
  <2>2. DepthTyped'
    BY <1>13 DEF TypeOK, LeaveMiddleware, Leaving, DepthTyped
  <2> QED
    BY <1>13, <2>1, <2>2 DEF TypeOK, LeaveMiddleware, ConnTyped, DepthTyped
<1>14. ASSUME NEW c \in Calls, StartStream(c) PROVE TypeOK'
  BY <1>14 DEF TypeOK, StartStream, Goto, Locations
<1>15. ASSUME NEW c \in Calls, NextItem(c) PROVE TypeOK'
  <2>1. PcTyped' /\ ExcTyped' /\ DepthTyped'
    <3>1. CASE UNCHANGED <<pc, depth, exc>>
      BY <3>1 DEF TypeOK, PcTyped, ExcTyped, DepthTyped
    <3>2. CASE Goto(c, "log") /\ UNCHANGED <<depth, exc>>
      BY <3>2, GotoTyped DEF TypeOK, Locations, ExcTyped, DepthTyped
    <3>3. CASE StreamFails(c)
      BY <3>3, RaiseTyped, ErrorsTyped, Depths DEF StreamFails, Locations
    <3> QED
      BY <1>15, <3>1, <3>2, <3>3 DEF NextItem
  <2>2. ConnTyped'
    BY <1>15, SetConnTyped DEF NextItem
  <2>3. sent' \in [Calls -> Nat]
    <3>1. sent' = [sent EXCEPT ![c] = sent[c] + 1] \/ sent' = sent
      BY <1>15, Zenon DEF NextItem
    <3>2. sent \in [Calls -> Nat]
      BY Zenon DEF TypeOK
    <3>3. sent[c] + 1 \in Nat
      BY <3>2
    <3>4. [sent EXCEPT ![c] = sent[c] + 1] \in [Calls -> Nat]
      BY <3>2, <3>3
    <3> QED
      BY <3>1, <3>2, <3>4
  <2>4. produced' \in [Calls -> BOOLEAN]
    BY <1>15, Zenon DEF NextItem, TypeOK
  <2> QED
    BY <1>15, <2>1, <2>2, <2>3, <2>4
       DEF TypeOK, NextItem, PcTyped, ExcTyped, DepthTyped, ConnTyped
<1>16. ASSUME NEW c \in Calls, process_exception(c) PROVE TypeOK'
  BY <1>16, AbortTyped DEF TypeOK, process_exception, Excepted, Goto, Locations
<1>17. ASSUME NEW c \in Calls, LeaveTry(c) PROVE TypeOK'
  BY <1>17 DEF TypeOK, LeaveTry, Goto, Locations
<1>18. ASSUME NEW c \in Calls, log_response(c) PROVE TypeOK'
  <2>1. logged[c] \o Records(c) \in Seq(Levels)
    BY RecordsTyped DEF TypeOK
  <2> QED
    BY <1>18, <2>1 DEF TypeOK, log_response, Goto, Locations
<1>19. ASSUME NEW c \in Calls, Reply(c) PROVE TypeOK'
  BY <1>19 DEF TypeOK, Reply, Goto, Locations, Failures
<1>20. ASSUME NEW c \in Calls, CancelClose(c) PROVE TypeOK'
  <2>1. depth[c] - 1 \in 0 .. Len(Chain) + 1
    BY <1>20, LowerDepth, LeavingDepth DEF CancelClose
  <2>2. PcTyped' /\ ExcTyped' /\ DepthTyped'
    BY <1>20, <2>1, RaiseTyped DEF CancelClose, Locations
  <2>3. ConnTyped'
    BY <1>20, SetConnTyped DEF CancelClose, TypeOK, ConnTyped
  <2> QED
    BY <1>20, <2>2, <2>3
       DEF TypeOK, CancelClose, PcTyped, ExcTyped, DepthTyped, ConnTyped
<1>21. ASSUME NEW c \in Calls, CancelStream(c) PROVE TypeOK'
  <2>1. PcTyped' /\ ExcTyped' /\ DepthTyped'
    BY <1>21, RaiseTyped, Depths DEF CancelStream, Locations
  <2> QED
    BY <1>21, <2>1 DEF TypeOK, CancelStream, PcTyped, ExcTyped, DepthTyped
<1>22. ASSUME NEW c \in Calls, CancelAuthentication(c) PROVE TypeOK'
  <2>1. PcTyped' /\ ExcTyped' /\ DepthTyped'
    <3>1. CASE Entering(c, "auth") /\ Raise(c, Cancelled, "unwind", depth[c] - 1)
      BY <3>1, RaiseTyped, LowerDepth DEF Locations
    <3>2. CASE Interrupt(c)
      BY <3>2, RaiseTyped, Depths DEF Interrupt, Locations
    <3> QED
      BY <1>22, <3>1, <3>2 DEF CancelAuthentication
  <2>2. /\ authPerformed' \in [Calls -> BOOLEAN]
        /\ resolutions' \in [Calls -> Nat]
        /\ ConnTyped'
    <3>1. CASE \E raised \in BOOLEAN : perform_authentication(c, raised)
      BY <3>1, AuthenticationTyped
    <3>2. CASE UNCHANGED <<authPerformed, resolutions, conn>>
      BY <3>2 DEF TypeOK, ConnTyped
    <3> QED
      BY <1>22, <3>1, <3>2 DEF CancelAuthentication
  <2> QED
    BY <1>22, <2>1, <2>2
       DEF TypeOK, CancelAuthentication, PcTyped, ExcTyped, DepthTyped, ConnTyped
<1>23. ASSUME NEW c \in Calls, CancelAction(c) PROVE TypeOK'
  <2>1. PcTyped' /\ ExcTyped' /\ DepthTyped'
    BY <1>23, RaiseTyped, Depths DEF CancelAction, Interrupt, Locations
  <2>2. ConnTyped'
    BY <1>23, SetConnTyped DEF CancelAction, TypeOK, ConnTyped
  <2>3. produced' \in [Calls -> BOOLEAN]
    BY <1>23, Zenon DEF CancelAction, TypeOK
  <2> QED
    BY <1>23, <2>1, <2>2, <2>3
       DEF TypeOK, CancelAction, PcTyped, ExcTyped, DepthTyped, ConnTyped
<1>24. ASSUME UNCHANGED vars PROVE TypeOK'
  BY <1>24 DEF TypeOK, vars
<1> QED
  BY <1>1, <1>2, <1>3, <1>4, <1>5, <1>6, <1>7, <1>8, <1>9, <1>10, <1>11, <1>12,
     <1>13, <1>14, <1>15, <1>16, <1>17, <1>18, <1>19, <1>20, <1>21, <1>22,
     <1>23, <1>24
     DEF Next, Step, Dispatch, Cancel

(* Every variable of the lifecycle keeps its type. *)
THEOREM Typed == Spec => []TypeOK
  BY InitTyped, StepTyped, PTL DEF Spec
--------------------------------------------------------------------------------
(* AdmissionInv, and with it what runs on behalf of an admitted call only. *)

CallStep(c) == Arrive(c) \/ Step(c) \/ Cancel(c)

(* A step of one call leaves the state of the others alone. *)
Same(d) ==
    /\ pc'[d] = pc[d] /\ exc'[d] = exc[d] /\ slot'[d] = slot[d]
    /\ authPerformed'[d] = authPerformed[d] /\ granted'[d] = granted[d]
    /\ sent'[d] = sent[d] /\ status'[d] = status[d] /\ produced'[d] = produced[d]

LEMMA Frame ==
    ASSUME TypeOK, NEW c \in Calls, NEW d \in Calls, d # c, CallStep(c)
    PROVE  Same(d)
<1> USE DEF TypeOK, Same, Goto
<1>1. CASE Arrive(c)
  BY <1>1 DEF Arrive
<1>2. CASE Withdraw(c)
  BY <1>2 DEF Withdraw
<1>3. CASE \E s \in Slots : create_service(c, s)
  BY <1>3 DEF create_service, Publish
<1>4. CASE \E s \in Slots : RejectMetadata(c, s)
  BY <1>4 DEF RejectMetadata
<1>5. CASE EnterLog(c)
  BY <1>5 DEF EnterLog, Entering
<1>6. CASE EnterClose(c)
  BY <1>6 DEF EnterClose, Entering
<1>7. CASE EnterLocale(c)
  BY <1>7 DEF EnterLocale, Entering
<1>8. CASE EnterAuth(c)
  BY <1>8 DEF EnterAuth, Entering, perform_authentication, Raise
<1>9. CASE Authenticate(c)
  BY <1>9 DEF Authenticate, perform_authentication, Raise
<1>10. CASE CheckPermissions(c)
  BY <1>10 DEF CheckPermissions, Raise
<1>11. CASE RunAction(c)
  BY <1>11 DEF RunAction, Raise
<1>12. CASE AfterAction(c)
  BY <1>12 DEF AfterAction
<1>13. CASE LeaveMiddleware(c)
  BY <1>13 DEF LeaveMiddleware, Leaving
<1>14. CASE StartStream(c)
  BY <1>14 DEF StartStream, Unwound, Iterable
<1>15. CASE NextItem(c)
  BY <1>15 DEF NextItem, StreamFails, Raise
<1>16. CASE process_exception(c)
  BY <1>16 DEF process_exception, Unwound, Excepted
<1>17. CASE LeaveTry(c)
  BY <1>17 DEF LeaveTry, Unwound, Uncaught
<1>18. CASE log_response(c)
  BY <1>18 DEF log_response
<1>19. CASE Reply(c)
  BY <1>19 DEF Reply, Answers
<1>20. CASE CancelClose(c)
  BY <1>20 DEF CancelClose, Entering, Leaving, Raise
<1>22. CASE CancelAuthentication(c)
  BY <1>22 DEF CancelAuthentication, Entering, Interrupt, Raise,
             perform_authentication
<1>23. CASE CancelAction(c)
  BY <1>23 DEF CancelAction, Interrupt, Raise
<1>21. CASE CancelStream(c)
  BY <1>21 DEF CancelStream, Raise
<1> QED
  BY <1>1, <1>2, <1>3, <1>4, <1>5, <1>6, <1>7, <1>8, <1>9, <1>10,
     <1>11, <1>12, <1>13, <1>14, <1>15, <1>16, <1>17, <1>18, <1>19, <1>20, <1>21,
     <1>22, <1>23
     DEF CallStep, Step, Dispatch, Cancel

LEMMA FrameInv ==
    ASSUME NEW d \in Calls, CallInv(d), Same(d)
    PROVE  CallInv(d)'
  BY DEF CallInv, Same, Serving

LEMMA ExceptionKinds ==
    /\ "none" \notin Caught /\ Cancelled \notin Caught /\ Cancelled # "none"
    /\ ActionErrors \subseteq Caught /\ Unauthenticated \in Caught
    /\ PermissionDenied \in Caught /\ OtherError \in Caught
  BY DEF Caught, ActionErrors, Cancelled, Unauthenticated, PermissionDenied,
         ClientError, ServerError, OtherError

LEMMA OwnInv ==
    ASSUME TypeOK, NEW c \in Calls, CallInv(c), CallStep(c)
    PROVE  CallInv(c)'
<1> USE DEF TypeOK, CallInv, Serving, Goto
<1>1. CASE Arrive(c)
  BY <1>1 DEF Arrive
<1>2. CASE Withdraw(c)
  BY <1>2 DEF Withdraw
<1>3. CASE \E s \in Slots : create_service(c, s)
  BY <1>3 DEF create_service, Publish
<1>4. CASE \E s \in Slots : RejectMetadata(c, s)
  BY <1>4 DEF RejectMetadata
<1>5. CASE EnterLog(c)
  BY <1>5 DEF EnterLog, Entering
<1>6. CASE EnterClose(c)
  BY <1>6 DEF EnterClose, Entering
<1>7. CASE EnterLocale(c)
  BY <1>7 DEF EnterLocale, Entering
<1>8. CASE EnterAuth(c)
  <2>1. CASE perform_authentication(c, FALSE) /\ Descend(c) /\ UNCHANGED <<pc, exc>>
    <3>1. pc[c] = "chain" /\ ~granted[c]
      BY <1>8 DEF EnterAuth, Entering
    <3> QED
      BY <1>8, <2>1, <3>1 DEF EnterAuth, Entering
  <2>2. CASE Raise(c, Unauthenticated, "unwind", depth[c] - 1)
    BY <1>8, <2>2, ExceptionKinds DEF EnterAuth, Entering, Raise
  <2> QED
    BY <1>8, <2>1, <2>2, Zenon DEF EnterAuth
<1>9. CASE Authenticate(c)
  <2>1. CASE perform_authentication(c, FALSE) /\ Goto(c, "perms") /\ UNCHANGED <<depth, exc>>
    <3>1. authPerformed'[c]
      BY <2>1, Zenon DEF perform_authentication
    <3> QED
      BY <1>9, <2>1, <3>1 DEF Authenticate
  <2>2. CASE Raise(c, Unauthenticated, "after", Len(Chain))
    BY <1>9, <2>2, ExceptionKinds DEF Authenticate, Raise
  <2> QED
    BY <1>9, <2>1, <2>2 DEF Authenticate
<1>10. CASE CheckPermissions(c)
  BY <1>10, ExceptionKinds DEF CheckPermissions, Raise
<1>11. CASE RunAction(c)
  BY <1>11, ExceptionKinds DEF RunAction, Raise
<1>12. CASE AfterAction(c)
  BY <1>12 DEF AfterAction
<1>13. CASE LeaveMiddleware(c)
  BY <1>13 DEF LeaveMiddleware, Leaving
<1>14. CASE StartStream(c)
  BY <1>14 DEF StartStream, Unwound, Iterable
<1>15. CASE NextItem(c)
  BY <1>15, ExceptionKinds DEF NextItem, StreamFails, Raise
<1>16. CASE process_exception(c)
  BY <1>16, AbortTyped DEF process_exception, Unwound, Excepted
<1>17. CASE LeaveTry(c)
  BY <1>17, ExceptionKinds DEF LeaveTry, Unwound, Uncaught
<1>18. CASE log_response(c)
  BY <1>18 DEF log_response
<1>19. CASE Reply(c)
  BY <1>19 DEF Reply, Answers
<1>20. CASE CancelClose(c)
  BY <1>20, ExceptionKinds DEF CancelClose, Entering, Leaving, Raise
<1>22. CASE CancelAuthentication(c)
  BY <1>22, ExceptionKinds DEF CancelAuthentication, Entering, Interrupt, Raise,
             perform_authentication
<1>23. CASE CancelAction(c)
  BY <1>23, ExceptionKinds DEF CancelAction, Interrupt, Raise
<1>21. CASE CancelStream(c)
  BY <1>21, ExceptionKinds DEF CancelStream, Raise
<1> QED
  BY <1>1, <1>2, <1>3, <1>4, <1>5, <1>6, <1>7, <1>8, <1>9, <1>10,
     <1>11, <1>12, <1>13, <1>14, <1>15, <1>16, <1>17, <1>18, <1>19, <1>20, <1>21,
     <1>22, <1>23
     DEF CallStep, Step, Dispatch, Cancel

LEMMA AdmissionInvInductive ==
    ASSUME TypeOK, AdmissionInv, [Next]_vars
    PROVE  AdmissionInv'
<1>1. ASSUME NEW c \in Calls, CallStep(c) PROVE AdmissionInv'
  <2> SUFFICES ASSUME NEW d \in Calls PROVE CallInv(d)'
    BY DEF AdmissionInv
  <2>1. CASE d = c
    BY <1>1, <2>1, OwnInv DEF AdmissionInv
  <2>2. CASE d # c
    BY <1>1, <2>2, Frame, FrameInv DEF AdmissionInv
  <2> QED
    BY <2>1, <2>2
<1>2. ASSUME UNCHANGED vars PROVE AdmissionInv'
  BY <1>2 DEF vars, AdmissionInv, CallInv, Serving
<1> QED
  BY <1>1, <1>2 DEF Next, CallStep

(* AdmissionInv holds in every reachable state. *)
THEOREM Admission == Spec => []AdmissionInv
<1>1. Init => AdmissionInv
  BY DEF Init, AdmissionInv, CallInv, Serving
<1> QED
  BY <1>1, AdmissionInvInductive, Typed, PTL DEF Spec

(* Whatever the middlewares, the server mode and the interleaving, an action  *)
(* only runs, and only sends, for a call that was authenticated and permitted. *)
THEOREM ActionsAreAdmitted == Spec => []ActionRunsAdmitted
<1>1. AdmissionInv => ActionRunsAdmitted
  BY DEF AdmissionInv, CallInv, ActionRunsAdmitted
<1> QED
  BY <1>1, Admission, PTL

--------------------------------------------------------------------------------
(* The lifecycle implements the contract a client relies on. *)

Quiet == UNCHANGED <<slot, granted, sent, status>>

LEMMA QuietIsStutter == Quiet => UNCHANGED Contract!contractVars
  BY DEF Quiet, Contract!contractVars

LEMMA SlotsAreCalls == None \notin Slots
  BY NoneAssumption DEF Slots

LEMMA StepImplements ==
    ASSUME TypeOK, AdmissionInv, NEW c \in Calls, CallStep(c)
    PROVE  Contract!Next \/ Quiet
<1>0. CallInv(c)
  BY DEF AdmissionInv
<1>1. CASE Withdraw(c) \/ \E s \in Slots : RejectMetadata(c, s)
  <2>1. Contract!Fail(c)
    BY <1>0, <1>1 DEF Withdraw, RejectMetadata, Contract!Fail, CallInv, Failures
  <2> QED
    BY <2>1 DEF Contract!Next
<1>2. CASE \E s \in Slots : create_service(c, s)
  <2>1. PICK s \in Slots : create_service(c, s)
    BY <1>2
  <2>2. Contract!Open(c)
    BY <1>0, <2>1, SlotsAreCalls DEF create_service, Contract!Open, CallInv, TypeOK
  <2> QED
    BY <2>2 DEF Contract!Next
<1>3. CASE CheckPermissions(c)
  <2>1. CASE granted' = [granted EXCEPT ![c] = TRUE]
    <3>1. Contract!Admit(c)
      BY <1>0, <1>3, <2>1, SlotsAreCalls
         DEF CheckPermissions, Contract!Admit, Contract!Live, CallInv, Serving
    <3> QED
      BY <3>1 DEF Contract!Next
  <2>2. CASE UNCHANGED granted
    BY <1>3, <2>2 DEF CheckPermissions, Quiet
  <2> QED
    BY <1>3, <2>1, <2>2 DEF CheckPermissions
<1>4. CASE NextItem(c)
  <2>1. CASE sent' = [sent EXCEPT ![c] = sent[c] + 1]
    <3>1. Contract!Send(c)
      BY <1>0, <1>4, <2>1, SlotsAreCalls
         DEF NextItem, Contract!Send, Contract!Live, CallInv, Serving
    <3> QED
      BY <3>1 DEF Contract!Next
  <2>2. CASE UNCHANGED sent
    BY <1>4, <2>2 DEF NextItem, Quiet
  <2> QED
    BY <1>4, <2>1, <2>2 DEF NextItem
<1>5. CASE process_exception(c)
  <2>1. Contract!Fail(c)
    BY <1>0, <1>5, AbortTyped
       DEF process_exception, Unwound, Excepted, Contract!Fail, CallInv
  <2> QED
    BY <2>1 DEF Contract!Next
<1>6. CASE Reply(c)
  <2>1. CASE exc[c] = "none"
    <3>1. Contract!Succeed(c)
      BY <1>0, <1>6, <2>1, SlotsAreCalls, ExceptionKinds
         DEF Reply, Answers, Contract!Succeed, Contract!Live, CallInv, Serving
    <3> QED
      BY <3>1 DEF Contract!Next
  <2>2. CASE exc[c] = Cancelled
    <3>1. Contract!Fail(c)
      BY <1>0, <1>6, <2>2, ExceptionKinds
         DEF Reply, Answers, Contract!Fail, CallInv, Failures
    <3> QED
      BY <3>1 DEF Contract!Next
  <2>3. CASE exc[c] # "none" /\ exc[c] # Cancelled
    BY <1>6, <2>3 DEF Reply, Answers, Quiet
  <2> QED
    BY <2>1, <2>2, <2>3
<1>7. CASE Arrive(c) \/ EnterLog(c) \/ EnterClose(c) \/ EnterLocale(c)
  BY <1>7 DEF Arrive, EnterLog, EnterClose, EnterLocale, Quiet
<1>8. CASE EnterAuth(c) \/ Authenticate(c) \/ RunAction(c) \/ AfterAction(c)
  BY <1>8 DEF EnterAuth, Authenticate, RunAction, AfterAction, Quiet
<1>9. CASE LeaveMiddleware(c) \/ StartStream(c) \/ LeaveTry(c) \/ log_response(c)
  BY <1>9 DEF LeaveMiddleware, StartStream, LeaveTry, log_response, Quiet
<1>10. CASE CancelStream(c) \/ CancelClose(c)
  BY <1>10 DEF CancelStream, CancelClose, Quiet
<1>11. CASE CancelAuthentication(c) \/ CancelAction(c)
  BY <1>11 DEF CancelAuthentication, CancelAction, Quiet
<1> QED
  BY <1>1, <1>2, <1>3, <1>4, <1>5, <1>6, <1>7, <1>8, <1>9, <1>10, <1>11
     DEF CallStep, Step, Dispatch, Cancel

(* Seen from the client, every behaviour of the server is one of RpcContract:  *)
(* one status per call, no message after it or before admission.              *)
THEOREM ImplementsContract == Spec => ContractSpec
<1>1. Init => Contract!Init
  BY DEF Init, Contract!Init
<1>2. ASSUME TypeOK, AdmissionInv, [Next]_vars
      PROVE  [Contract!Next]_Contract!contractVars
  <2>1. ASSUME NEW c \in Calls, CallStep(c) PROVE Contract!Next \/ Quiet
    BY <1>2, <2>1, StepImplements
  <2>2. CASE UNCHANGED vars
    BY <2>2, QuietIsStutter DEF vars, Quiet
  <2> QED
    BY <1>2, <2>1, <2>2, QuietIsStutter DEF Next, CallStep
<1> QED
  BY <1>1, <1>2, Typed, Admission, PTL DEF Spec, ContractSpec, Contract!Spec

--------------------------------------------------------------------------------
(* The hooks and records of a call run once, its success is real, and its      *)
(* context is its own: for any calls, pool, middleware chain and server mode.  *)

(* What the counters of a call are, read off where it is. A call that has not  *)
(* passed its finally has run no after_action and left no record; one without  *)
(* an exception that is past its action, or past its stream, has produced.     *)
HookInv(c) ==
    /\ resolutions[c] <= 1
    /\ authPerformed[c] => resolutions[c] = 1
    /\ pc[c] \in {"absent", "queued", "chain"} /\ ~authPerformed[c] => resolutions[c] = 0
    /\ afters[c] <= 1
    /\ pc[c] \in {"absent", "queued", "chain", "perms", "action", "after"} => afters[c] = 0
    /\ granted[c] /\ pc[c] \in {"unwind", "stream", "log", "reply", "done"} => afters[c] = 1
    /\ pc[c] \in {"after", "unwind", "log", "reply"} /\ exc[c] = "none" /\ c \notin Streaming
          => produced[c]
    /\ pc[c] \in {"log", "reply"} /\ exc[c] = "none" => produced[c]
    /\ status[c] = "OK" => produced[c] /\ exc[c] = "none"
    /\ pc[c] \notin {"reply", "done"} => logged[c] = <<>>
    /\ pc[c] = "reply" \/ (pc[c] = "done" /\ slot[c] # None) => logged[c] = Records(c)
    /\ pc[c] = "done" /\ slot[c] # None =>
          /\ exc[c] = "none" => status[c] = "OK"
          /\ exc[c] = Cancelled => status[c] = "CANCELLED"
          /\ exc[c] \in Caught => status[c] \in Failures
    /\ pc[c] \in {"absent", "queued"} => slot[c] = None

(* What HookInv speaks of, unchanged for a call that does not move. *)
SameHooks(d) ==
    /\ Same(d)
    /\ resolutions'[d] = resolutions[d] /\ afters'[d] = afters[d] /\ logged'[d] = logged[d]

LEMMA HookFrame ==
    ASSUME TypeOK, NEW c \in Calls, NEW d \in Calls, d # c, CallStep(c)
    PROVE  SameHooks(d)
<1>0. Same(d)
  BY Frame
<1> USE DEF TypeOK
<1>1. CASE Arrive(c) \/ Withdraw(c)
  BY <1>0, <1>1 DEF SameHooks, Arrive, Withdraw
<1>2. CASE \E s \in Slots : create_service(c, s) \/ RejectMetadata(c, s)
  BY <1>0, <1>2 DEF SameHooks, create_service, RejectMetadata
<1>3. CASE EnterLog(c) \/ EnterClose(c) \/ EnterLocale(c)
  BY <1>0, <1>3 DEF SameHooks, EnterLog, EnterClose, EnterLocale
<1>4. CASE EnterAuth(c)
  BY <1>0, <1>4 DEF SameHooks, EnterAuth, perform_authentication
<1>5. CASE Authenticate(c)
  BY <1>0, <1>5 DEF SameHooks, Authenticate, perform_authentication
<1>6. CASE CheckPermissions(c) \/ RunAction(c)
  BY <1>0, <1>6 DEF SameHooks, CheckPermissions, RunAction
<1>7. CASE AfterAction(c) \/ LeaveMiddleware(c)
  BY <1>0, <1>7 DEF SameHooks, AfterAction, LeaveMiddleware
<1>8. CASE StartStream(c) \/ NextItem(c)
  BY <1>0, <1>8 DEF SameHooks, StartStream, NextItem
<1>9. CASE process_exception(c) \/ LeaveTry(c)
  BY <1>0, <1>9 DEF SameHooks, process_exception, LeaveTry
<1>10. CASE log_response(c)
  BY <1>0, <1>10 DEF SameHooks, log_response
<1>11. CASE Reply(c)
  BY <1>0, <1>11 DEF SameHooks, Reply
<1>12. CASE CancelClose(c) \/ CancelStream(c) \/ CancelAction(c)
  BY <1>0, <1>12 DEF SameHooks, CancelClose, CancelStream, CancelAction
<1>13. CASE CancelAuthentication(c)
  BY <1>0, <1>13 DEF SameHooks, CancelAuthentication, perform_authentication
<1> QED
  BY <1>1, <1>2, <1>3, <1>4, <1>5, <1>6, <1>7, <1>8, <1>9, <1>10, <1>11, <1>12, <1>13
     DEF CallStep, Step, Dispatch, Cancel

LEMMA HookSame ==
    ASSUME NEW d \in Calls, HookInv(d), SameHooks(d)
    PROVE  HookInv(d)'
  BY DEF HookInv, SameHooks, Same, Records

(* resolve_user runs only when it has not. *)
LEMMA AuthenticationOnce ==
    ASSUME TypeOK, NEW c \in Calls, HookInv(c), pc[c] = "chain", NEW raised \in BOOLEAN,
           perform_authentication(c, raised)
    PROVE  /\ resolutions'[c] = 1
           /\ ~raised => authPerformed'[c]
<1>1. CASE authPerformed[c]
  BY <1>1 DEF HookInv, perform_authentication
<1>2. CASE ~authPerformed[c]
  <2>1. resolutions' = [resolutions EXCEPT ![c] = resolutions[c] + 1]
    BY <1>2, Zenon DEF perform_authentication
  <2>2. resolutions'[c] = 1
    BY <1>2, <2>1 DEF TypeOK, HookInv
  <2>3. authPerformed' = [authPerformed EXCEPT ![c] = ~raised]
    BY <1>2, Zenon DEF perform_authentication
  <2>4. authPerformed \in [Calls -> BOOLEAN]
    BY DEF TypeOK
  <2>5. ~raised => authPerformed'[c]
    BY <2>3, <2>4, Zenon
  <2> QED
    BY <2>2, <2>5
<1> QED
  BY <1>1, <1>2

LEMMA OwnHooks ==
    ASSUME TypeOK, NEW c \in Calls, CallInv(c), HookInv(c), CallStep(c)
    PROVE  HookInv(c)'
<1> USE DEF TypeOK, HookInv, Goto
<1>0. /\ "OK" \notin Failures /\ "none" \notin Failures /\ "OK" # "none"
  BY DEF Failures
<1>1. CASE Arrive(c)
  BY <1>1 DEF Arrive, CallInv
<1>2. CASE Withdraw(c)
  BY <1>2 DEF Withdraw, CallInv
<1>3. CASE \E s \in Slots : create_service(c, s)
  BY <1>3 DEF create_service, CallInv
<1>4. CASE \E s \in Slots : RejectMetadata(c, s)
  BY <1>4 DEF RejectMetadata, CallInv
<1>5. CASE EnterLog(c) \/ EnterClose(c) \/ EnterLocale(c)
  BY <1>5 DEF EnterLog, EnterClose, EnterLocale, Entering
<1>6. CASE EnterAuth(c)
  <2>1. /\ pc[c] = "chain" /\ resolutions'[c] = 1
        /\ UNCHANGED <<slot, granted, status, logged, afters, produced>>
    BY <1>6, AuthenticationOnce DEF EnterAuth, Entering
  <2>2. CASE perform_authentication(c, FALSE) /\ UNCHANGED <<pc, exc>>
    <3>1. authPerformed'[c]
      BY <2>1, <2>2, AuthenticationOnce
    <3> QED
      BY <2>1, <2>2, <3>1 DEF CallInv
  <2>3. CASE Raise(c, Unauthenticated, "unwind", depth[c] - 1)
    BY <2>1, <2>3, ExceptionKinds DEF Raise, CallInv
  <2> QED
    BY <1>6, <2>2, <2>3, Zenon DEF EnterAuth
<1>7. CASE Authenticate(c)
  <2>1. /\ pc[c] = "chain" /\ resolutions'[c] = 1
        /\ UNCHANGED <<slot, granted, status, logged, afters, produced>>
    BY <1>7, AuthenticationOnce DEF Authenticate
  <2>2. CASE Goto(c, "perms") /\ UNCHANGED exc
    BY <2>1, <2>2 DEF CallInv
  <2>3. CASE Raise(c, Unauthenticated, "after", Len(Chain))
    BY <2>1, <2>3, ExceptionKinds DEF Raise, CallInv
  <2> QED
    BY <1>7, <2>2, <2>3 DEF Authenticate
<1>8. CASE CheckPermissions(c)
  BY <1>8, ExceptionKinds DEF CheckPermissions, Raise, CallInv
<1>9. CASE RunAction(c)
  BY <1>9, ExceptionKinds DEF RunAction, Raise, CallInv
<1>10. CASE AfterAction(c)
  BY <1>10 DEF AfterAction, CallInv
<1>11. CASE LeaveMiddleware(c)
  BY <1>11 DEF LeaveMiddleware, Leaving
<1>12. CASE StartStream(c)
  BY <1>12 DEF StartStream, Unwound, Iterable, CallInv
<1>13. CASE NextItem(c)
  BY <1>13, ExceptionKinds DEF NextItem, StreamFails, Raise, CallInv
<1>14. CASE process_exception(c)
  BY <1>0, <1>14, AbortTyped, ExceptionKinds DEF process_exception, Unwound, Excepted, CallInv
<1>15. CASE LeaveTry(c)
  BY <1>15, ExceptionKinds DEF LeaveTry, Unwound, Uncaught, CallInv
<1>16. CASE log_response(c)
  <2>1. <<>> \o Records(c) = Records(c)
    BY RecordsTyped
  <2> QED
    BY <1>16, <2>1 DEF log_response, Records, CallInv
<1>17. CASE Reply(c)
  BY <1>0, <1>17, ExceptionKinds DEF Reply, Records, CallInv
<1>18. CASE CancelClose(c)
  BY <1>18, ExceptionKinds DEF CancelClose, Entering, Leaving, Raise, CallInv
<1>19. CASE CancelAuthentication(c)
  <2>1. /\ pc[c] = "chain"
        /\ UNCHANGED <<slot, granted, status, logged, afters, produced>>
        /\ exc'[c] = Cancelled /\ pc'[c] \in {"unwind", "after"}
    BY <1>19 DEF CancelAuthentication, Entering, Interrupt, Raise
  <2>2. resolutions'[c] = 1 \/ UNCHANGED <<authPerformed, resolutions>>
    BY <1>19, <2>1, AuthenticationOnce DEF CancelAuthentication
  <2> QED
    BY <2>1, <2>2, ExceptionKinds DEF CallInv
<1>20. CASE CancelAction(c)
  BY <1>20, ExceptionKinds DEF CancelAction, Interrupt, Raise, CallInv
<1>21. CASE CancelStream(c)
  BY <1>21, ExceptionKinds DEF CancelStream, Raise, CallInv
<1> QED
  BY <1>1, <1>2, <1>3, <1>4, <1>5, <1>6, <1>7, <1>8, <1>9, <1>10, <1>11, <1>12, <1>13,
     <1>14, <1>15, <1>16, <1>17, <1>18, <1>19, <1>20, <1>21
     DEF CallStep, Step, Dispatch, Cancel

HooksInv == \A c \in Calls : HookInv(c)

LEMMA HooksInductive ==
    ASSUME TypeOK, AdmissionInv, HooksInv, [Next]_vars
    PROVE  HooksInv'
<1>1. ASSUME NEW c \in Calls, CallStep(c) PROVE HooksInv'
  <2> SUFFICES ASSUME NEW d \in Calls PROVE HookInv(d)'
    BY DEF HooksInv
  <2>1. CASE d = c
    BY <1>1, <2>1, OwnHooks DEF HooksInv, AdmissionInv
  <2>2. CASE d # c
    BY <1>1, <2>2, HookFrame, HookSame DEF HooksInv
  <2> QED
    BY <2>1, <2>2
<1>2. ASSUME UNCHANGED vars PROVE HooksInv'
  BY <1>2 DEF vars, HooksInv, HookInv, Records
<1> QED
  BY <1>1, <1>2 DEF Next, CallStep

LEMMA HooksHold == Spec => []HooksInv
<1>1. Init => HooksInv
  BY DEF Init, HooksInv, HookInv
<1> QED
  BY <1>1, HooksInductive, Typed, Admission, PTL DEF Spec

(* resolve_user runs once although the auth middleware and before_action both  *)
(* ask for it (base_service.py), wherever the middleware stands in the chain.  *)
THEOREM OneAuthentication == Spec => []AuthenticatedOnce
<1>1. AdmissionInv /\ HooksInv => AuthenticatedOnce
  BY DEF AdmissionInv, CallInv, HooksInv, HookInv, AuthenticatedOnce
<1> QED
  BY <1>1, Admission, HooksHold, PTL

(* The finally of _get_response runs after_action once, however a call ends.   *)
THEOREM OneAfterAction == Spec => []AfterActionOnce
<1>1. HooksInv => AfterActionOnce
  BY DEF HooksInv, HookInv, AfterActionOnce
<1> QED
  BY <1>1, HooksHold, PTL

(* No exception of a hook, a middleware, an action or a stream becomes OK.     *)
THEOREM SuccessIsReal == Spec => []SuccessIsComplete
<1>1. HooksInv => SuccessIsComplete
  BY DEF HooksInv, HookInv, SuccessIsComplete
<1> QED
  BY <1>1, HooksHold, PTL

(* The finally of each handler leaves one record, of the level of its outcome. *)
THEOREM OneRecord == Spec => []AuditedOnce
<1>1. TypeOK /\ AdmissionInv /\ HooksInv => AuditedOnce
  <2> SUFFICES ASSUME TypeOK, AdmissionInv, HooksInv, NEW c \in Calls,
                      pc[c] = "done", slot[c] # None
               PROVE  CASE status[c] = "OK" ->
                              logged[c] = IF LogOkResponse THEN <<"INFO">> ELSE << >>
                        [] status[c] = "CANCELLED" -> Len(logged[c]) <= 1
                        [] OTHER -> logged[c] \in {<<"WARNING">>, <<"ERROR">>}
    BY DEF AuditedOnce
  <2>1. /\ logged[c] = Records(c)
        /\ status[c] = "OK" => exc[c] = "none"
        /\ exc[c] = "none" => status[c] = "OK"
        /\ exc[c] = Cancelled => status[c] = "CANCELLED"
    BY DEF HooksInv, HookInv
  <2>2. exc[c] \in Caught \cup {"none", Cancelled}
    BY DEF TypeOK
  <2>3. CASE status[c] = "OK"
    BY <2>1, <2>3, ExceptionKinds DEF Records
  <2>4. CASE status[c] = "CANCELLED"
    BY <2>1, <2>4 DEF Records
  <2>5. CASE status[c] # "OK" /\ status[c] # "CANCELLED"
    BY <2>1, <2>2, <2>5 DEF Records, LevelOf
  <2> QED
    BY <2>3, <2>4, <2>5
<1> QED
  BY <1>1, Typed, Admission, HooksHold, PTL
--------------------------------------------------------------------------------
(* The context of a call: no other call that is served is in it.               *)

ContextInv ==
    /\ \A c \in Calls : Serving(c) =>
          /\ servicer[slot[c]] = c
          /\ Async => slot[c] = c
    /\ \A c, d \in Calls : Serving(c) /\ Serving(d) /\ slot[c] = slot[d] => c = d

(* What a step of another call leaves of a context. *)
LEMMA ContextFrame ==
    ASSUME TypeOK, NEW c \in Calls, CallStep(c), Serving(c)
    PROVE  UNCHANGED <<slot, servicer>>
<1>1. pc[c] \notin {"absent", "queued"}
  BY DEF Serving
<1>2. CASE EnterLog(c) \/ EnterClose(c) \/ EnterLocale(c) \/ EnterAuth(c) \/ Authenticate(c)
  BY <1>2 DEF EnterLog, EnterClose, EnterLocale, EnterAuth, Authenticate
<1>3. CASE CheckPermissions(c) \/ RunAction(c) \/ AfterAction(c) \/ LeaveMiddleware(c)
  BY <1>3 DEF CheckPermissions, RunAction, AfterAction, LeaveMiddleware
<1>4. CASE StartStream(c) \/ NextItem(c) \/ process_exception(c) \/ LeaveTry(c)
  BY <1>4 DEF StartStream, NextItem, process_exception, LeaveTry
<1>5. CASE log_response(c) \/ Reply(c)
  BY <1>5 DEF log_response, Reply
<1>6. CASE CancelStream(c) \/ CancelClose(c) \/ CancelAuthentication(c) \/ CancelAction(c)
  BY <1>6 DEF CancelStream, CancelClose, CancelAuthentication, CancelAction
<1>7. CASE Arrive(c) \/ Withdraw(c) \/ Dispatch(c)
  BY <1>1, <1>7 DEF Arrive, Withdraw, Dispatch, create_service, RejectMetadata
<1> QED
  BY <1>2, <1>3, <1>4, <1>5, <1>6, <1>7 DEF CallStep, Step, Cancel

LEMMA ContextInductive ==
    ASSUME TypeOK, AdmissionInv, ContextInv, [Next]_vars
    PROVE  ContextInv'
<1>1. ASSUME NEW c \in Calls, CallStep(c), Serving(c) PROVE ContextInv'
  <2>1. UNCHANGED <<slot, servicer>>
    BY <1>1, ContextFrame
  <2>2. \A d \in Calls : Serving(d)' => Serving(d)
    BY <1>1, Frame DEF Same, Serving
  <2> QED
    BY <2>1, <2>2 DEF ContextInv
<1>2. ASSUME NEW c \in Calls, CallStep(c), ~Serving(c) PROVE ContextInv'
  <2>1. CASE \E s \in Slots : create_service(c, s)
    <3>1. PICK s \in Slots : create_service(c, s)
      BY <2>1
    <3>2. /\ slot' = [slot EXCEPT ![c] = s] /\ servicer' = [servicer EXCEPT ![s] = c]
          /\ Free(c, s)
      BY <3>1 DEF create_service, Publish
    <3>3. slot'[c] = s /\ servicer'[s] = c /\ (Async => s = c)
      BY <3>2 DEF TypeOK, Free
    <3>4. \A d \in Calls : d # c /\ Serving(d)' =>
             /\ Serving(d) /\ slot'[d] = slot[d] /\ slot[d] # s
             /\ servicer'[slot[d]] = servicer[slot[d]]
      BY <3>2, <1>2, Frame DEF TypeOK, Same, Serving, Free, ContextInv
    <3> QED
      BY <3>3, <3>4 DEF ContextInv
  <2>2. CASE ~\E s \in Slots : create_service(c, s)
    <3>1. /\ UNCHANGED <<slot, servicer>> /\ ~Serving(c)'
      <4>1. pc[c] \in {"absent", "queued", "done"}
        BY <1>2 DEF Serving
      <4>2. CASE Arrive(c) \/ Withdraw(c)
        BY <4>2 DEF Arrive, Withdraw, Goto, Serving, TypeOK
      <4>3. CASE \E s \in Slots : RejectMetadata(c, s)
        BY <4>3 DEF RejectMetadata, Goto, Serving, TypeOK
      <4>4. ~\/ EnterLog(c) \/ EnterClose(c) \/ EnterLocale(c) \/ EnterAuth(c)
             \/ Authenticate(c) \/ CheckPermissions(c) \/ RunAction(c) \/ AfterAction(c)
             \/ LeaveMiddleware(c) \/ StartStream(c) \/ NextItem(c)
             \/ process_exception(c) \/ LeaveTry(c) \/ log_response(c) \/ Reply(c)
             \/ CancelStream(c) \/ CancelClose(c) \/ CancelAuthentication(c)
             \/ CancelAction(c)
        BY <4>1 DEF EnterLog, EnterClose, EnterLocale, EnterAuth, Entering, Authenticate,
              CheckPermissions, RunAction, AfterAction, LeaveMiddleware, Leaving, StartStream,
              Unwound, NextItem, process_exception, LeaveTry, log_response, Reply,
              CancelStream, CancelClose, CancelAuthentication, CancelAction
      <4> QED
        BY <1>2, <2>2, <4>2, <4>3, <4>4 DEF CallStep, Step, Dispatch, Cancel
    <3>2. \A d \in Calls : Serving(d)' => Serving(d)
      BY <1>2, <3>1, Frame DEF Same, Serving
    <3> QED
      BY <3>1, <3>2 DEF ContextInv
  <2> QED
    BY <2>1, <2>2
<1>3. ASSUME UNCHANGED vars PROVE ContextInv'
  BY <1>3 DEF vars, ContextInv, Serving
<1> QED
  BY <1>1, <1>2, <1>3 DEF Next, CallStep

LEMMA ContextHolds == Spec => []ContextInv
<1>1. Init => ContextInv
  BY DEF Init, ContextInv, Serving
<1> QED
  BY <1>1, ContextInductive, Typed, Admission, PTL DEF Spec

(* _ServicerCtx names the service of the call that is served, on reused        *)
(* threads and in tasks.                                                       *)
THEOREM OwnServicer == Spec => []ServicerIsOwn
<1>1. ContextInv => ServicerIsOwn
  BY DEF ContextInv, ServicerIsOwn
<1> QED
  BY <1>1, ContextHolds, PTL
--------------------------------------------------------------------------------
(* The language of the context of a call that has passed locale_middleware, up *)
(* to the end of its stream.                                                   *)
HasLocale == \E i \in 1 .. Len(Chain) : Chain[i] = "locale"
Spoken(c) == PastLocale(c) \/ (granted[c] /\ pc[c] \in {"after", "unwind"})
LanguageInv == HasLocale => \A c \in Calls : Spoken(c) => language[slot[c]] = LanguageOf[c]

LEMMA SpokenServes ==
    ASSUME NEW c \in Calls, Spoken(c)
    PROVE  Serving(c)
  BY DEF Spoken, PastLocale, Serving

(* A call gets there by its locale_middleware, or was there.                   *)
LEMMA SpokenStep ==
    ASSUME TypeOK, HasLocale, NEW c \in Calls, CallInv(c), CallStep(c), Spoken(c)',
           ~EnterLocale(c)
    PROVE  Spoken(c)
<1> USE DEF TypeOK, Spoken, PastLocale, Goto
<1>1. CASE Arrive(c) \/ Withdraw(c) \/ \E s \in Slots : RejectMetadata(c, s)
  BY <1>1 DEF Arrive, Withdraw, RejectMetadata
<1>2. CASE \E s \in Slots : create_service(c, s)
  BY <1>2, ChainLength DEF create_service
<1>3. CASE EnterLog(c) \/ EnterClose(c)
  BY <1>3, ChainLength DEF EnterLog, EnterClose, Entering, Descend
<1>4. CASE EnterAuth(c)
  <2>1. CASE Descend(c) /\ UNCHANGED <<pc, exc>>
    BY <1>4, <2>1, ChainLength DEF EnterAuth, Entering, Descend
  <2>2. CASE Raise(c, Unauthenticated, "unwind", depth[c] - 1)
    BY <1>4, <2>2 DEF EnterAuth, Entering, Raise, CallInv
  <2> QED
    BY <1>4, <2>1, <2>2, Zenon DEF EnterAuth
<1>5. CASE Authenticate(c)
  <2>1. /\ pc[c] = "chain" /\ depth[c] = Len(Chain) + 1
    BY <1>5 DEF Authenticate
  <2> QED
    BY <2>1, ChainLength DEF HasLocale
<1>6. CASE CheckPermissions(c) \/ RunAction(c)
  BY <1>6 DEF CheckPermissions, RunAction
<1>7. CASE AfterAction(c) \/ LeaveMiddleware(c)
  BY <1>7 DEF AfterAction, LeaveMiddleware, Leaving
<1>8. CASE StartStream(c) \/ NextItem(c)
  BY <1>8 DEF StartStream, Unwound, Iterable, NextItem, CallInv
<1>9. CASE process_exception(c) \/ LeaveTry(c) \/ log_response(c) \/ Reply(c)
  BY <1>9 DEF process_exception, LeaveTry, log_response, Reply
<1>10. CASE CancelClose(c)
  BY <1>10 DEF CancelClose, Entering, Leaving, Raise, CallInv
<1>11. CASE CancelAuthentication(c)
  BY <1>11 DEF CancelAuthentication, Entering, Interrupt, Raise, CallInv
<1>12. CASE CancelAction(c) \/ CancelStream(c)
  BY <1>12 DEF CancelAction, CancelStream, Raise
<1> QED
  BY <1>1, <1>2, <1>3, <1>4, <1>5, <1>6, <1>7, <1>8, <1>9, <1>10, <1>11, <1>12
     DEF CallStep, Step, Dispatch, Cancel

(* The language of a context changes by the locale_middleware of a call there. *)
LEMMA LanguageFrame ==
    ASSUME NEW c \in Calls, CallStep(c), ~EnterLocale(c)
    PROVE  UNCHANGED language
<1>1. CASE Arrive(c) \/ Withdraw(c) \/ Dispatch(c)
  BY <1>1 DEF Arrive, Withdraw, Dispatch, create_service, RejectMetadata
<1>2. CASE EnterLog(c) \/ EnterClose(c) \/ EnterAuth(c) \/ Authenticate(c)
  BY <1>2 DEF EnterLog, EnterClose, EnterAuth, Authenticate
<1>3. CASE CheckPermissions(c) \/ RunAction(c) \/ AfterAction(c) \/ LeaveMiddleware(c)
  BY <1>3 DEF CheckPermissions, RunAction, AfterAction, LeaveMiddleware
<1>4. CASE StartStream(c) \/ NextItem(c) \/ process_exception(c) \/ LeaveTry(c)
  BY <1>4 DEF StartStream, NextItem, process_exception, LeaveTry
<1>5. CASE log_response(c) \/ Reply(c)
  BY <1>5 DEF log_response, Reply
<1>6. CASE CancelStream(c) \/ CancelClose(c) \/ CancelAuthentication(c) \/ CancelAction(c)
  BY <1>6 DEF CancelStream, CancelClose, CancelAuthentication, CancelAction
<1> QED
  BY <1>1, <1>2, <1>3, <1>4, <1>5, <1>6 DEF CallStep, Step, Cancel

LEMMA DepthFrame ==
    ASSUME TypeOK, NEW c \in Calls, NEW d \in Calls, d # c, CallStep(c)
    PROVE  depth'[d] = depth[d]
<1> USE DEF TypeOK
<1>1. CASE Arrive(c) \/ Withdraw(c) \/ Dispatch(c)
  BY <1>1 DEF Arrive, Withdraw, Dispatch, create_service, RejectMetadata
<1>2. CASE EnterLog(c) \/ EnterClose(c) \/ EnterLocale(c)
  BY <1>2 DEF EnterLog, EnterClose, EnterLocale, Descend
<1>3. CASE EnterAuth(c) \/ Authenticate(c)
  BY <1>3 DEF EnterAuth, Authenticate, Descend, Raise
<1>4. CASE CheckPermissions(c) \/ RunAction(c) \/ AfterAction(c) \/ LeaveMiddleware(c)
  BY <1>4 DEF CheckPermissions, RunAction, AfterAction, LeaveMiddleware, Raise
<1>5. CASE StartStream(c) \/ NextItem(c) \/ process_exception(c) \/ LeaveTry(c)
  BY <1>5 DEF StartStream, NextItem, StreamFails, process_exception, LeaveTry, Raise
<1>6. CASE log_response(c) \/ Reply(c)
  BY <1>6 DEF log_response, Reply
<1>7. CASE CancelStream(c) \/ CancelClose(c) \/ CancelAuthentication(c) \/ CancelAction(c)
  BY <1>7 DEF CancelStream, CancelClose, CancelAuthentication, CancelAction, Interrupt, Raise
<1> QED
  BY <1>1, <1>2, <1>3, <1>4, <1>5, <1>6, <1>7 DEF CallStep, Step, Cancel

LEMMA SlotFrame ==
    ASSUME TypeOK, NEW c \in Calls, CallStep(c), NEW d \in Calls, Serving(d)
    PROVE  slot'[d] = slot[d]
  BY Frame, ContextFrame DEF Same

LEMMA LanguageInductive ==
    ASSUME TypeOK, AdmissionInv, ContextInv, LanguageInv, [Next]_vars
    PROVE  LanguageInv'
<1> SUFFICES ASSUME HasLocale PROVE \A d \in Calls : Spoken(d)' => language'[slot'[d]] = LanguageOf[d]
  BY DEF LanguageInv, HasLocale
<1>1. ASSUME NEW c \in Calls, CallStep(c), NEW d \in Calls, Spoken(d)', ~EnterLocale(c)
      PROVE  language'[slot'[d]] = LanguageOf[d]
  <2>1. Spoken(d)
    <3>1. CASE d = c
      BY <1>1, <3>1, SpokenStep DEF AdmissionInv
    <3>2. CASE d # c
      <4>1. Same(d)
        BY <1>1, <3>2, Frame
      <4>2. depth'[d] = depth[d]
        BY <1>1, <3>2, DepthFrame
      <4> QED
        BY <1>1, <4>1, <4>2 DEF Same, Spoken, PastLocale
    <3> QED
      BY <3>1, <3>2
  <2>2. slot'[d] = slot[d] /\ language' = language
    BY <1>1, <2>1, SpokenServes, SlotFrame, LanguageFrame
  <2> QED
    BY <2>1, <2>2 DEF LanguageInv
<1>2. ASSUME NEW c \in Calls, EnterLocale(c), NEW d \in Calls, Spoken(d)'
      PROVE  language'[slot'[d]] = LanguageOf[d]
  <2>1. /\ Serving(c) /\ slot[c] \in Slots
        /\ UNCHANGED <<pc, slot, granted>>
        /\ language' = [language EXCEPT ![slot[c]] = LanguageOf[c]]
    BY <1>2 DEF EnterLocale, Entering, Activate, Serving, AdmissionInv, CallInv
  <2>2. CASE d = c
    BY <2>1, <2>2 DEF TypeOK
  <2>3. CASE d # c
    <3>1. Spoken(d)
      BY <1>2, <2>1, <2>3 DEF EnterLocale, Descend, Spoken, PastLocale, TypeOK
    <3>2. slot[d] # slot[c]
      BY <2>1, <2>3, <3>1, SpokenServes DEF ContextInv
    <3>3. language'[slot[d]] = language[slot[d]]
      BY <2>1, <3>2 DEF TypeOK
    <3> QED
      BY <2>1, <3>1, <3>3 DEF LanguageInv
  <2> QED
    BY <2>2, <2>3
<1>3. CASE UNCHANGED vars
  BY <1>3 DEF vars, LanguageInv, Spoken, PastLocale
<1> QED
  BY <1>1, <1>2, <1>3 DEF Next, CallStep

(* Past locale_middleware a call runs in the language it asked for, its stream *)
(* included (middlewares.py), whoever had the thread before.                   *)
THEOREM OwnLanguage == Spec => []LanguageIsOwn
<1>1. Init => LanguageInv
  BY DEF Init, LanguageInv, Spoken, PastLocale
<1>2. LanguageInv => LanguageIsOwn
  BY DEF LanguageInv, HasLocale, Spoken, LanguageIsOwn
<1> QED
  BY <1>1, <1>2, LanguageInductive, Typed, Admission, ContextHolds, PTL DEF Spec

--------------------------------------------------------------------------------
(* The connections of the synchronous server's threads.                        *)

(* A middleware of the chain closes connections around every one that opens    *)
(* them.                                                                       *)
ClosesAround(i) ==
    /\ i \in 1 .. Len(Chain) /\ Chain[i] = "close"
    /\ \A j \in 1 .. Len(Chain) : j < i => Chain[j] # "auth"

(* c is inside of middleware i. *)
Inside(c, i) ==
    \/ pc[c] = "chain" /\ depth[c] > i
    \/ pc[c] \in {"perms", "action", "after"}
    \/ pc[c] = "unwind" /\ depth[c] >= i

(* An open connection is that of a call that has still to close it, or one a   *)
(* stream left open.                                                           *)
ConnectionInv(i) ==
    \A t \in Workers : conn[t] = "open" =>
        \E c \in Calls : slot[c] = t /\ (c \in Streaming \/ Inside(c, i))

LEMMA OwnConnection ==
    ASSUME ~Async, TypeOK, NEW c \in Calls, CallInv(c), CallStep(c),
           NEW i, ClosesAround(i), NEW t \in Workers, conn'[t] = "open"
    PROVE  /\ slot[c] # None => slot'[c] = slot[c]
           /\ conn[t] # "open" => slot[c] = t
           /\ slot[c] = t /\ (conn[t] # "open" \/ Inside(c, i))
                 => c \in Streaming \/ Inside(c, i)'
<1>0. /\ Len(Chain) \in Nat /\ i \in 1 .. Len(Chain) /\ Chain[i] = "close"
      /\ depth[c] \in 0 .. Len(Chain) + 1
      /\ Slots = Workers /\ DbThreads = Workers
      /\ DbThreadOf(slot[c]) = slot[c]
      /\ conn[t] \in {"open", "closed"} /\ None \notin Workers
  BY ChainLength, NoneAssumption DEF ClosesAround, TypeOK, Slots, DbThreads, DbThreadOf
<1>a. Serving(c) => slot[c] \in Workers
  BY <1>0 DEF CallInv
<1> USE DEF TypeOK, Inside, Goto, SetConn
<1>1. CASE Arrive(c) \/ Withdraw(c)
  BY <1>1 DEF Arrive, Withdraw
<1>2. CASE \E s \in Slots : create_service(c, s) \/ RejectMetadata(c, s)
  BY <1>2 DEF create_service, RejectMetadata, CallInv
<1>3. CASE EnterLog(c) \/ EnterLocale(c)
  BY <1>0, <1>3 DEF EnterLog, EnterLocale, Entering, Descend
<1>4. CASE EnterClose(c)
  BY <1>0, <1>4 DEF EnterClose, Entering
<1>5. CASE EnterAuth(c)
  <2>1. /\ depth[c] > i /\ pc[c] = "chain" /\ slot' = slot
    BY <1>0, <1>5 DEF EnterAuth, Entering, ClosesAround
  <2>2. conn' = conn \/ conn' = [conn EXCEPT ![slot[c]] = "open"]
    BY <1>0, <1>5 DEF EnterAuth, perform_authentication
  <2>3. Inside(c, i)'
    <3>1. CASE Descend(c) /\ UNCHANGED <<pc, exc>>
      BY <1>0, <2>1, <3>1 DEF Descend
    <3>2. CASE Raise(c, Unauthenticated, "unwind", depth[c] - 1)
      BY <1>0, <2>1, <3>2 DEF Raise
    <3> QED
      BY <1>5, <3>1, <3>2, Zenon DEF EnterAuth
  <2> QED
    BY <1>0, <2>1, <2>2, <2>3
<1>6. CASE Authenticate(c)
  <2>1. conn' = conn \/ conn' = [conn EXCEPT ![slot[c]] = "open"]
    BY <1>0, <1>6 DEF Authenticate, perform_authentication
  <2>2. Inside(c, i)' /\ slot' = slot
    BY <1>0, <1>6 DEF Authenticate, Raise
  <2> QED
    BY <1>0, <2>1, <2>2
<1>7. CASE CheckPermissions(c)
  BY <1>0, <1>7 DEF CheckPermissions, Raise
<1>8. CASE RunAction(c)
  BY <1>0, <1>8 DEF RunAction, Raise
<1>9. CASE AfterAction(c)
  BY <1>0, <1>9 DEF AfterAction
<1>10. CASE LeaveMiddleware(c)
  <2>1. CASE ClosesOnExit(c)
    BY <1>0, <1>10, <2>1 DEF LeaveMiddleware, Leaving
  <2>2. CASE ~ClosesOnExit(c)
    BY <1>0, <1>10, <2>2 DEF LeaveMiddleware, Leaving, ClosesOnExit
  <2> QED
    BY <2>1, <2>2
<1>11. CASE StartStream(c) \/ process_exception(c) \/ LeaveTry(c)
  BY <1>0, <1>11 DEF StartStream, process_exception, LeaveTry, Unwound
<1>12. CASE NextItem(c)
  BY <1>0, <1>12 DEF NextItem, CallInv
<1>13. CASE log_response(c) \/ Reply(c)
  BY <1>13 DEF log_response, Reply
<1>14. CASE CancelStream(c)
  BY <1>14 DEF CancelStream, Raise
<1>15. ~CancelClose(c) /\ ~CancelAuthentication(c) /\ ~CancelAction(c)
  BY DEF CancelClose, CancelAuthentication, CancelAction
<1> QED
  BY <1>1, <1>2, <1>3, <1>4, <1>5, <1>6, <1>7, <1>8, <1>9, <1>10, <1>11, <1>12, <1>13,
     <1>14, <1>15 DEF CallStep, Step, Dispatch, Cancel

LEMMA ConnectionInductive ==
    ASSUME ~Async, NEW i, ClosesAround(i), TypeOK, AdmissionInv, ConnectionInv(i),
           [Next]_vars
    PROVE  ConnectionInv(i)'
<1>1. ASSUME NEW c \in Calls, CallStep(c), NEW t \in Workers, conn'[t] = "open"
      PROVE  \E d \in Calls : slot'[d] = t /\ (d \in Streaming \/ Inside(d, i)')
  <2>1. /\ slot[c] # None => slot'[c] = slot[c]
        /\ conn[t] # "open" => slot[c] = t
        /\ slot[c] = t /\ (conn[t] # "open" \/ Inside(c, i))
              => c \in Streaming \/ Inside(c, i)'
    BY <1>1, OwnConnection DEF AdmissionInv
  <2>2. CASE conn[t] # "open"
    BY <1>1, <2>1, <2>2, NoneAssumption
  <2>3. CASE conn[t] = "open"
    <3>1. PICK d \in Calls : slot[d] = t /\ (d \in Streaming \/ Inside(d, i))
      BY <2>3 DEF ConnectionInv
    <3>2. CASE d = c
      BY <1>1, <2>1, <3>1, <3>2, NoneAssumption
    <3>3. CASE d # c
      <4>1. Same(d)
        BY <1>1, <3>3, Frame
      <4>2. depth'[d] = depth[d]
        BY <1>1, <3>3, DepthFrame
      <4> QED
        BY <3>1, <4>1, <4>2 DEF Same, Inside
    <3> QED
      BY <3>2, <3>3
  <2> QED
    BY <2>2, <2>3
<1>2. CASE UNCHANGED vars
  BY <1>2 DEF vars, ConnectionInv, Inside
<1> QED
  BY <1>1, <1>2 DEF Next, CallStep, ConnectionInv

(* close_old_connections_middleware in the synchronous server: with no         *)
(* authentication outside of it, a thread that has only served unary calls     *)
(* holds no connection between two calls, however they ended.                  *)
THEOREM ConnectionsAreClosed ==
    ASSUME ~Async, \E i \in 1 .. Len(Chain) : ClosesAround(i)
    PROVE  Spec => []UnaryCallsLeaveNoConnection
<1> PICK i \in 1 .. Len(Chain) : ClosesAround(i)
  OBVIOUS
<1>1. Init => ConnectionInv(i)
  BY DEF Init, ConnectionInv, DbThreads
<1>2. ConnectionInv(i) /\ TypeOK => UnaryCallsLeaveNoConnection
  <2> SUFFICES ASSUME ConnectionInv(i), TypeOK, NEW t \in DbThreads, Idle(t),
                      \A c \in Calls : slot[c] # None /\ DbThreadOf(slot[c]) = t => c \notin Streaming
               PROVE  conn[t] = "closed"
    BY DEF UnaryCallsLeaveNoConnection
  <2>1. t \in Workers /\ t # None /\ conn[t] \in {"open", "closed"}
    BY NoneAssumption DEF DbThreads, TypeOK
  <2> QED
    BY <2>1 DEF ConnectionInv, Inside, Idle, Serving, DbThreadOf
<1> QED
  BY <1>1, <1>2, ConnectionInductive, Typed, Admission, PTL DEF Spec

================================================================================
