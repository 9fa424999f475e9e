---------------------------- MODULE EapolSmProofs ----------------------------
(***************************************************************************)
(* Theorems about the authenticator of one station, for every value of the *)
(* retry limits, the timer periods and the timeouts a server may send.     *)
(***************************************************************************)
EXTENDS EapolSm, TLAPS

(***************************************************************************)
(* The inductive invariant.  It relates the PAE and the Backend at every   *)
(* point of the loop, which Lockstep does only between handlers: the PAE   *)
(* runs first, so at BE_AUTH the Backend may lag one transition behind.    *)
(***************************************************************************)
P == auth_pae.state
B == be_auth.state

Resting == {"DISCONNECTED", "CONNECTING", "HELD", "AUTHENTICATED"}
Finished == {"SUCCESS", "FAIL", "TIMEOUT"}
Working == {"REQUEST", "RESPONSE"}

\* The two machines as the PAE is about to find them, or when nothing runs.
CoupledForPae ==
  /\ ~sm.authAbort
  /\ \/ P = "INITIALIZE" /\ B \in {"INITIALIZE", "IDLE"} /\ ~sm.authStart
     \/ P \in Resting /\ B = "IDLE" /\ ~sm.authStart
     \/ P = "AUTHENTICATING" /\ B \in Working \cup Finished /\ sm.authStart
     \/ P = "ABORTING" /\ B = "INITIALIZE"

\* The two machines as the Backend is about to find them.
CoupledForBe ==
  \/ /\ P = "ABORTING" /\ sm.authAbort
     /\ B \in Working \cup {"TIMEOUT"}
  \/ /\ ~sm.authAbort
     /\ \/ P = "INITIALIZE" /\ B \in {"INITIALIZE", "IDLE"} /\ ~sm.authStart
        \/ P \in Resting /\ B = "IDLE" /\ ~sm.authStart
        \/ P \in {"DISCONNECTED", "CONNECTING"} /\ B = "INITIALIZE"
        \/ P = "AUTHENTICATED" /\ B = "SUCCESS"
        \/ P = "HELD" /\ B = "FAIL"
        \/ P = "AUTHENTICATING" /\ B \in Working \cup {"IDLE"} /\ sm.authStart

Coupled == IF pc = "BE_AUTH" THEN CoupledForBe ELSE CoupledForPae

\* The Backend's verdict is visible to the PAE exactly while it is fresh.
Signalled ==
  P = "AUTHENTICATING" =>
    /\ sm.authSuccess = (B = "SUCCESS")
    /\ sm.authFail = (B = "FAIL")
    /\ B = "TIMEOUT" => sm.authTimeout

\* The machines are asserted and enabled once, before they leave INITIALIZE.
Started ==
  /\ sm.portEnabled => ~sm.initialize
  /\ after = "enable" => ~sm.initialize
  /\ pc # "absent" /\ after \notin {"deassert", "enable"} => sm.portEnabled
  /\ pc \in {"idle", "frame"} => sm.portEnabled
  /\ P # "INITIALIZE" => sm.portEnabled
  /\ B \notin {"INITIALIZE", "IDLE"} => sm.portEnabled
  /\ P = "INITIALIZE" /\ B = "INITIALIZE" =>
       ~sm.portEnabled /\ (sm.initialize \/ pc \in {"AUTH_PAE", "BE_AUTH"})

\* Transient states force another pass of the loop.
Unfinished ==
  B \in Finished \/ P = "ABORTING" =>
    \/ pc \in {"AUTH_PAE", "BE_AUTH"}
    \/ pc \in {"REAUTH_TIMER", "AUTH_KEY_TX", "while"} /\ changed

\* Where a success comes from.
Evidence ==
  /\ P = "AUTHENTICATED" => ghost.verdict = "ACCEPT"
  /\ B = "SUCCESS" => ghost.verdict = "ACCEPT"
  /\ B = "RESPONSE" /\ be_auth.aSuccess => ghost.verdict = "ACCEPT"
  /\ B = "RESPONSE" /\ sta.pending => ~be_auth.aSuccess

IInv == TypeOK /\ Coupled /\ Signalled /\ Started /\ Unfinished /\ Evidence

-----------------------------------------------------------------------------
(* Type correctness                                                        *)

LEMMA TypeInit == Init => TypeOK
  <1> SUFFICES ASSUME Init PROVE TypeOK
    OBVIOUS
  <1> USE DEF Init, FreshStation
  <1>1. auth_pae \in PaeRecord
    BY DEF NewPae, PaeRecord, PaeStates
  <1>2. be_auth \in BeRecord
    BY ConstantsAssumption DEF ConstantsAssumption, NewBe, BeRecord, BeStates
  <1>3. reauth_timer \in ReauthRecord /\ timers \in TimerRecord
    BY ConstantsAssumption
    DEF ConstantsAssumption, NewReauth, ReauthRecord, NewTimers, TimerRecord
  <1>4. sm \in SmRecord
    BY DEF NewSm, SmRecord
  <1>5. sta \in StaRecord /\ ghost \in GhostRecord
    BY DEF NewSta, StaRecord, NewGhost, GhostRecord, Codes
  <1> QED
    BY <1>1, <1>2, <1>3, <1>4, <1>5
    DEF TypeOK, Places, Continuations

LEMMA TypePae == TypeOK /\ AuthPaeStep => TypeOK'
  <1> SUFFICES ASSUME TypeOK, AuthPaeStep PROVE TypeOK'
    OBVIOUS
  <1> USE DEF TypeOK
  <1>a. ASSUME NEW s, PaeEnters(s)
        PROVE  /\ pc' \in Places /\ changed' \in BOOLEAN
               /\ after' \in Continuations /\ tick' \in Nat
               /\ be_auth' \in BeRecord /\ reauth_timer' \in ReauthRecord
               /\ auth_key_tx' \in {"NO_KEY_TRANSMIT", "KEY_TRANSMIT"}
    BY <1>a DEF PaeEnters, Places, InStep
  <1>1. CASE PaeStays
    BY <1>1, <1>a DEF PaeStays
  <1>2. CASE PaeInitialize
    BY <1>2, <1>a DEF PaeInitialize, PaeRecord, PaeStates
  <1>3. CASE PaeDisconnected
    BY <1>3, <1>a DEF PaeDisconnected, PaeRecord, PaeStates, SmRecord
  <1>4. CASE PaeConnecting
    <2>1. auth_pae' \in PaeRecord
      <3>1. auth_pae.reAuthCount + 1 \in Nat
        BY DEF PaeRecord
      <3> QED
        BY <1>4, <3>1 DEF PaeConnecting, ConnectingEntry, PaeRecord, PaeStates
    <2>2. sm' \in SmRecord
      BY <1>4 DEF PaeConnecting, SmRecord
    <2>3. timers' \in TimerRecord
      BY <1>4, ConstantsAssumption
      DEF ConstantsAssumption, PaeConnecting, TimerRecord
    <2>4. sta' \in StaRecord
      BY <1>4 DEF PaeConnecting, NewAuthSession, StaRecord, Codes
    <2> QED
      BY <1>4, <1>a, <2>1, <2>2, <2>3, <2>4 DEF PaeConnecting
  <1>5. CASE PaeHeld
    <2>1. timers' \in TimerRecord
      BY <1>5, ConstantsAssumption
      DEF ConstantsAssumption, PaeHeld, TimerRecord
    <2>2. auth_pae' \in PaeRecord /\ sm' \in SmRecord
      BY <1>5 DEF PaeHeld, PaeRecord, PaeStates, SmRecord
    <2> QED
      BY <1>5, <1>a, <2>1, <2>2 DEF PaeHeld
  <1>6. CASE PaeAuthenticated
    BY <1>6, <1>a DEF PaeAuthenticated, PaeRecord, PaeStates, SmRecord
  <1>7. CASE PaeAuthenticating
    <2>1. auth_pae' \in PaeRecord /\ sm' \in SmRecord
      BY <1>7
      DEF PaeAuthenticating, AuthenticatingEntry, PaeRecord, PaeStates, SmRecord
    <2>2. ghost' \in GhostRecord
      BY <1>7 DEF PaeAuthenticating, GhostRecord, Codes
    <2> QED
      BY <1>7, <1>a, <2>1, <2>2 DEF PaeAuthenticating
  <1>8. CASE PaeAborting
    BY <1>8, <1>a DEF PaeAborting, AbortingEntry, PaeRecord, PaeStates, SmRecord
  <1> QED
    BY <1>1, <1>2, <1>3, <1>4, <1>5, <1>6, <1>7, <1>8 DEF AuthPaeStep

LEMMA TypeBe == TypeOK /\ BeAuthStep => TypeOK'
  <1> SUFFICES ASSUME TypeOK, BeAuthStep PROVE TypeOK'
    OBVIOUS
  <1> USE DEF TypeOK
  <1>a. ASSUME NEW s, BeEnters(s)
        PROVE  /\ pc' \in Places /\ changed' \in BOOLEAN
               /\ after' \in Continuations /\ tick' \in Nat
               /\ auth_pae' \in PaeRecord /\ reauth_timer' \in ReauthRecord
               /\ auth_key_tx' \in {"NO_KEY_TRANSMIT", "KEY_TRANSMIT"}
    BY <1>a DEF BeEnters, Places, InStep
  <1>1. CASE BeStays
    BY <1>1, <1>a DEF BeStays
  <1>2. CASE BeInitialize
    BY <1>2, <1>a DEF BeInitialize, BeRecord, BeStates, SmRecord
  <1>3. CASE BeRequest
    <2>1. be_auth' \in BeRecord
      <3>1. be_auth.reqCount + 1 \in Nat
        BY DEF BeRecord
      <3> QED
        BY <1>3, <3>1 DEF BeRequest, RequestEntry, BeRecord, BeStates
    <2>2. timers' \in TimerRecord
      BY <1>3 DEF BeRequest, BeRecord, TimerRecord
    <2> QED
      BY <1>3, <1>a, <2>1, <2>2 DEF BeRequest
  <1>4. CASE BeResponse
    <2>1. be_auth' \in BeRecord
      BY <1>4 DEF BeResponse, ResponseEntry, BeRecord, BeStates
    <2>2. timers' \in TimerRecord
      BY <1>4, ConstantsAssumption
      DEF ConstantsAssumption, BeResponse, TimerRecord
    <2>3. sm' \in SmRecord
      BY <1>4 DEF BeResponse, SmRecord
    <2>4. sta' \in StaRecord
      BY <1>4 DEF BeResponse, StaRecord
    <2>5. ghost' \in GhostRecord
      BY <1>4 DEF BeResponse, GhostRecord, Codes
    <2> QED
      BY <1>4, <1>a, <2>1, <2>2, <2>3, <2>4, <2>5 DEF BeResponse
  <1>5. CASE BeSuccess
    BY <1>5, <1>a DEF BeSuccess, BeRecord, BeStates, SmRecord
  <1>6. CASE BeFail
    BY <1>6, <1>a DEF BeFail, BeRecord, BeStates, SmRecord
  <1>7. CASE BeTimeout
    BY <1>7, <1>a DEF BeTimeout, TimeoutEntry, BeRecord, BeStates, SmRecord
  <1>8. CASE BeIdle
    BY <1>8, <1>a DEF BeIdle, IdleEntry, BeRecord, BeStates, SmRecord
  <1> QED
    BY <1>1, <1>2, <1>3, <1>4, <1>5, <1>6, <1>7, <1>8 DEF BeAuthStep

LEMMA TypeReauth == TypeOK /\ ReauthTimerStep => TypeOK'
  <1> SUFFICES ASSUME TypeOK, ReauthTimerStep PROVE TypeOK'
    OBVIOUS
  <1> USE DEF TypeOK, ReauthEnters
  <1>1. CASE ReauthStays
    BY <1>1 DEF ReauthStays, Places, InStep
  <1>2. CASE ReauthInitialize
    <2>1. reauth_timer' \in ReauthRecord
      BY <1>2 DEF ReauthInitialize, ReauthRecord
    <2>2. timers' \in TimerRecord
      BY <1>2 DEF ReauthInitialize, ReauthRecord, TimerRecord
    <2> QED
      BY <1>2, <2>1, <2>2 DEF ReauthInitialize, Places, InStep
  <1>3. CASE ReauthReauthenticate
    <2>1. reauth_timer' \in ReauthRecord
      BY <1>3 DEF ReauthReauthenticate, ReauthRecord
    <2>2. sm' \in SmRecord
      BY <1>3 DEF ReauthReauthenticate, SmRecord
    <2> QED
      BY <1>3, <2>1, <2>2 DEF ReauthReauthenticate, Places, InStep
  <1> QED
    BY <1>1, <1>2, <1>3 DEF ReauthTimerStep

LEMMA TypeKeyTx == TypeOK /\ AuthKeyTxStep => TypeOK'
  <1> SUFFICES ASSUME TypeOK, AuthKeyTxStep PROVE TypeOK'
    OBVIOUS
  <1> USE DEF TypeOK, KeyTxEnters
  <1>1. CASE KeyTxStays
    BY <1>1 DEF KeyTxStays, Places, InStep
  <1>2. CASE KeyTxNoKeyTransmit
    BY <1>2 DEF KeyTxNoKeyTransmit, Places, InStep
  <1>3. CASE KeyTxKeyTransmit
    <2>1. sm' \in SmRecord
      BY <1>3 DEF KeyTxKeyTransmit, SmRecord
    <2> QED
      BY <1>3, <2>1 DEF KeyTxKeyTransmit, Places, InStep
  <1> QED
    BY <1>1, <1>2, <1>3 DEF AuthKeyTxStep

\* A freed station's variables are those of Init.
LEMMA TypeFree == FreeStation => TypeOK'
  <1> SUFFICES ASSUME FreeStation PROVE TypeOK'
    OBVIOUS
  <1> USE DEF FreeStation
  <1>1. auth_pae' \in PaeRecord
    BY DEF NewPae, PaeRecord, PaeStates
  <1>2. be_auth' \in BeRecord
    BY ConstantsAssumption DEF ConstantsAssumption, NewBe, BeRecord, BeStates
  <1>3. reauth_timer' \in ReauthRecord /\ timers' \in TimerRecord
    BY ConstantsAssumption
    DEF ConstantsAssumption, NewReauth, ReauthRecord, NewTimers, TimerRecord
  <1>4. sm' \in SmRecord
    BY DEF NewSm, SmRecord
  <1>5. sta' \in StaRecord /\ ghost' \in GhostRecord
    BY DEF NewSta, StaRecord, NewGhost, GhostRecord, Codes
  <1> QED
    BY <1>1, <1>2, <1>3, <1>4, <1>5
    DEF TypeOK, Places, Continuations

LEMMA TypeLoop == TypeOK /\ StepLoop => TypeOK'
  <1> SUFFICES ASSUME TypeOK, StepLoop PROVE TypeOK'
    OBVIOUS
  <1> USE DEF TypeOK, machines, RunStep, StepReturns, Places, InStep,
              Continuations
  <1>1. CASE LoopAgain
    BY <1>1 DEF LoopAgain
  <1>2. CASE Deassert
    <2>1. sm' \in SmRecord
      BY <1>2 DEF Deassert, SmRecord
    <2> QED
      BY <1>2, <2>1 DEF Deassert
  <1>3. CASE Enable
    <2>1. sm' \in SmRecord
      BY <1>3 DEF Enable, SmRecord
    <2> QED
      BY <1>3, <2>1 DEF Enable
  <1>4. CASE Again
    BY <1>4 DEF Again
  <1>5. CASE Return
    BY <1>5 DEF Return
  <1>6. CASE Rearm
    BY <1>6 DEF Rearm
  <1>7. CASE FreeAfterAccept
    BY <1>7, TypeFree DEF FreeAfterAccept
  <1> QED
    BY <1>1, <1>2, <1>3, <1>4, <1>5, <1>6, <1>7,
       TypePae, TypeBe, TypeReauth, TypeKeyTx DEF StepLoop

LEMMA TypeReply ==
  ASSUME TypeOK, NEW code \in Codes, Reply(code)
  PROVE  /\ sta' \in StaRecord /\ ghost' \in GhostRecord
         /\ auth_pae' \in PaeRecord /\ timers' \in TimerRecord
         /\ tick' \in Nat
         /\ auth_key_tx' \in {"NO_KEY_TRANSMIT", "KEY_TRANSMIT"}
  <1>1. sta' \in StaRecord
    BY DEF Reply, StaRecord
  <1>2. ghost' \in GhostRecord
    BY DEF TypeOK, Reply, GhostRecord
  <1> QED
    BY <1>1, <1>2 DEF TypeOK, Reply

LEMMA TypeHandlers ==
  TypeOK /\ (NewStation \/ Tick \/ Frame \/ AccessAccept \/ AccessReject
             \/ AccessChallenge \/ Disconnect) => TypeOK'
  <1> SUFFICES ASSUME TypeOK,
                      NewStation \/ Tick \/ Frame \/ AccessAccept
                      \/ AccessReject \/ AccessChallenge \/ Disconnect
               PROVE  TypeOK'
    OBVIOUS
  <1> USE DEF TypeOK, machines, RunStep, Places, InStep, Continuations
  <1>1. CASE NewStation
    BY <1>1 DEF NewStation
  <1>2. CASE Tick
    <2>1. timers' \in TimerRecord
      BY <1>2 DEF Tick, TimerRecord, Dec
    <2>2. tick' \in Nat
      BY <1>2 DEF Tick
    <2> QED
      BY <1>2, <2>1, <2>2 DEF Tick
  <1>3. CASE EapolStart
    BY <1>3 DEF EapolStart, PaeRecord
  <1>4. CASE EapolLogoff
    BY <1>4 DEF EapolLogoff, PaeRecord
  <1>5. CASE IdentityResponse
    BY <1>5 DEF IdentityResponse, PaeRecord, GhostRecord
  <1>6. CASE OtherResponse
    BY <1>6 DEF OtherResponse, BeRecord, GhostRecord
  <1>7. CASE OtherFrame
    BY <1>7 DEF OtherFrame
  <1>8. CASE MalformedFrame
    BY <1>8 DEF MalformedFrame
  <1>9. CASE AccessAccept
    <2>1. be_auth' \in BeRecord
      BY <1>9 DEF AccessAccept, BeRecord
    <2>2. sm' \in SmRecord
      BY <1>9 DEF AccessAccept, SmRecord
    <2>3. reauth_timer' \in ReauthRecord
      BY <1>9, ConstantsAssumption
      DEF ConstantsAssumption, AccessAccept, ReauthRecord
    <2>4. pc' \in Places /\ changed' \in BOOLEAN /\ after' \in Continuations
      BY <1>9 DEF AccessAccept
    <2> QED
      BY <1>9, <2>1, <2>2, <2>3, <2>4, TypeReply DEF AccessAccept, Codes
  <1>10. CASE AccessReject
    <2>1. be_auth' \in BeRecord
      BY <1>10 DEF AccessReject, BeRecord
    <2> QED
      BY <1>10, <2>1, TypeReply DEF AccessReject, Codes
  <1>11. CASE AccessChallenge
    <2>1. be_auth' \in BeRecord
      BY <1>11, ConstantsAssumption
      DEF ConstantsAssumption, AccessChallenge, BeRecord
    <2> QED
      BY <1>11, <2>1, TypeReply DEF AccessChallenge, Codes
  <1>12. CASE Disconnect
    BY <1>12, TypeFree DEF Disconnect
  <1> QED
    BY <1>1, <1>2, <1>3, <1>4, <1>5, <1>6, <1>7, <1>8, <1>9, <1>10, <1>11,
       <1>12 DEF Frame

\* Every variable of the model keeps its type in every behaviour, whatever the
\* periods and the retry limits are.
THEOREM TypeCorrect == Spec => []TypeOK
  <1>1. TypeOK /\ [Next]_vars => TypeOK'
    <2>1. TypeOK /\ UNCHANGED vars => TypeOK'
      BY DEF TypeOK, vars
    <2> QED
      BY <2>1, TypeLoop, TypeHandlers DEF Next
  <1> QED
    BY <1>1, TypeInit, PTL DEF Spec

-----------------------------------------------------------------------------
(* The inductive invariant                                                 *)

Linked == Coupled /\ Signalled /\ Started /\ Unfinished /\ Evidence

LEMMA LinkedInit == Init => Linked
  BY DEF Init, FreshStation, Linked, P, B, Coupled, CoupledForPae, Signalled,
         Started, Unfinished, Evidence, Finished, NewPae, NewBe, NewSm, NewSta

LEMMA LinkedPae == IInv /\ AuthPaeStep => Linked'
  <1> SUFFICES ASSUME IInv, AuthPaeStep PROVE Linked'
    OBVIOUS
  <1> USE DEF IInv, TypeOK, Linked, P, B, Coupled, CoupledForPae,
              CoupledForBe, Signalled, Started, Unfinished, Evidence, Resting,
              Working, Finished,
              PaeEnters, PaeTarget, PaeRecord, SmRecord
  <1>1. CASE PaeStays
    BY <1>1 DEF PaeStays, FromConnecting, FromAuthenticated,
        FromAuthenticating, FromAborting
  <1>2. CASE PaeInitialize
    BY <1>2 DEF PaeInitialize, FromConnecting, FromAuthenticated,
        FromAuthenticating, FromAborting
  <1>3. CASE PaeDisconnected
    BY <1>3 DEF PaeDisconnected, FromConnecting, FromAuthenticated,
        FromAuthenticating, FromAborting
  <1>4. CASE PaeConnecting
    BY <1>4 DEF PaeConnecting, ConnectingEntry, FromConnecting,
        FromAuthenticated, FromAuthenticating, FromAborting, NewAuthSession,
        StaRecord
  <1>5. CASE PaeHeld
    BY <1>5 DEF PaeHeld, FromConnecting, FromAuthenticated,
        FromAuthenticating, FromAborting
  <1>6. CASE PaeAuthenticated
    BY <1>6 DEF PaeAuthenticated, FromConnecting, FromAuthenticated,
        FromAuthenticating, FromAborting
  <1>7. CASE PaeAuthenticating
    <2>1. P = "CONNECTING" /\ B = "IDLE" /\ sm.portEnabled /\ ~sm.authAbort
      BY <1>7 DEF PaeAuthenticating, FromConnecting, FromAuthenticated,
        FromAuthenticating, FromAborting
    <2>2. /\ P' = "AUTHENTICATING" /\ B' = "IDLE" /\ pc' = "BE_AUTH"
          /\ after' = after /\ sm'.portEnabled = sm.portEnabled
          /\ sm'.initialize = sm.initialize
          /\ ~sm'.authAbort /\ sm'.authStart
          /\ sm'.authSuccess = FALSE /\ sm'.authFail = FALSE
      BY <1>7, <2>1 DEF PaeAuthenticating, AuthenticatingEntry
    <2>3. Coupled' /\ Signalled' /\ Unfinished' /\ Evidence'
      BY <2>2
    <2> QED
      BY <1>7, <2>1, <2>2, <2>3
  <1>8. CASE PaeAborting
    BY <1>8 DEF PaeAborting, AbortingEntry, FromConnecting,
        FromAuthenticated, FromAuthenticating, FromAborting
  <1> QED
    BY <1>1, <1>2, <1>3, <1>4, <1>5, <1>6, <1>7, <1>8 DEF AuthPaeStep

LEMMA LinkedBe == IInv /\ BeAuthStep => Linked'
  <1> SUFFICES ASSUME IInv, BeAuthStep PROVE Linked'
    OBVIOUS
  <1> USE DEF IInv, TypeOK, Linked, P, B, Coupled, CoupledForPae,
              CoupledForBe, Signalled, Started, Unfinished, Evidence, Resting,
              Working, Finished,
              BeEnters, BeTarget, BeRecord, SmRecord
  <1>1. CASE BeStays
    BY <1>1 DEF BeStays, FromRequest, FromResponse
  <1>2. CASE BeInitialize
    BY <1>2 DEF BeInitialize, FromRequest, FromResponse
  <1>3. CASE BeRequest
    BY <1>3 DEF BeRequest, RequestEntry, FromRequest, FromResponse
  <1>4. CASE BeResponse
    BY <1>4 DEF BeResponse, ResponseEntry, FromRequest, FromResponse,
        StaRecord, GhostRecord
  <1>5. CASE BeSuccess
    BY <1>5 DEF BeSuccess, FromRequest, FromResponse
  <1>6. CASE BeFail
    BY <1>6, ZenonT(40) DEF BeFail, FromRequest, FromResponse
  <1>7. CASE BeTimeout
    BY <1>7 DEF BeTimeout, TimeoutEntry, FromRequest, FromResponse
  <1>8. CASE BeIdle
    BY <1>8 DEF BeIdle, IdleEntry, FromRequest, FromResponse
  <1> QED
    BY <1>1, <1>2, <1>3, <1>4, <1>5, <1>6, <1>7, <1>8 DEF BeAuthStep

LEMMA LinkedReauthKey == IInv /\ (ReauthTimerStep \/ AuthKeyTxStep) => Linked'
  <1> SUFFICES ASSUME IInv, ReauthTimerStep \/ AuthKeyTxStep PROVE Linked'
    OBVIOUS
  <1> USE DEF IInv, TypeOK, Linked, P, B, Coupled, CoupledForPae,
              CoupledForBe, Signalled, Started, Unfinished, Evidence, Resting,
              Working, Finished,
              ReauthEnters, KeyTxEnters, SmRecord
  <1>1. CASE ReauthStays
    BY <1>1 DEF ReauthStays
  <1>2. CASE ReauthInitialize
    BY <1>2 DEF ReauthInitialize
  <1>3. CASE ReauthReauthenticate
    BY <1>3 DEF ReauthReauthenticate
  <1>4. CASE KeyTxStays
    BY <1>4 DEF KeyTxStays
  <1>5. CASE KeyTxNoKeyTransmit
    BY <1>5 DEF KeyTxNoKeyTransmit
  <1>6. CASE KeyTxKeyTransmit
    BY <1>6 DEF KeyTxKeyTransmit
  <1> QED
    BY <1>1, <1>2, <1>3, <1>4, <1>5, <1>6 DEF ReauthTimerStep, AuthKeyTxStep

LEMMA LinkedFree == FreeStation => Linked'
  BY DEF FreeStation, Linked, P, B, Coupled, CoupledForPae, Signalled,
         Started, Unfinished, Evidence, Finished, NewPae, NewBe, NewSm, NewSta

LEMMA LinkedLoop == IInv /\ StepLoop => Linked'
  <1> SUFFICES ASSUME IInv, StepLoop PROVE Linked'
    OBVIOUS
  <1> USE DEF IInv, TypeOK, Linked, P, B, Coupled, CoupledForPae,
              CoupledForBe, Signalled, Started, Unfinished, Evidence, Resting,
              Working, Finished,
              machines, RunStep, StepReturns, SmRecord
  <1>1. CASE LoopAgain
    BY <1>1 DEF LoopAgain
  <1>2. CASE Deassert
    BY <1>2 DEF Deassert
  <1>3. CASE Enable
    BY <1>3 DEF Enable
  <1>4. CASE Again
    BY <1>4 DEF Again
  <1>5. CASE Return
    BY <1>5 DEF Return
  <1>6. CASE Rearm
    BY <1>6 DEF Rearm
  <1>7. CASE FreeAfterAccept
    BY <1>7, LinkedFree DEF FreeAfterAccept
  <1> QED
    BY <1>1, <1>2, <1>3, <1>4, <1>5, <1>6, <1>7, LinkedPae, LinkedBe,
       LinkedReauthKey DEF StepLoop

LEMMA LinkedHandlers ==
  IInv /\ (NewStation \/ Tick \/ Frame \/ AccessAccept \/ AccessReject
           \/ AccessChallenge \/ Disconnect) => Linked'
  <1> SUFFICES ASSUME IInv,
                      NewStation \/ Tick \/ Frame \/ AccessAccept
                      \/ AccessReject \/ AccessChallenge \/ Disconnect
               PROVE  Linked'
    OBVIOUS
  <1> USE DEF IInv, TypeOK, Linked, P, B, Coupled, CoupledForPae,
              CoupledForBe, Signalled, Started, Unfinished, Evidence, Resting,
              Working, Finished,
              machines, RunStep, Receives, PaeRecord, BeRecord
  <1>1. CASE NewStation
    BY <1>1 DEF NewStation
  <1>2. CASE Tick
    BY <1>2 DEF Tick
  <1>3. CASE EapolStart
    BY <1>3 DEF EapolStart
  <1>4. CASE EapolLogoff
    BY <1>4 DEF EapolLogoff
  <1>5. CASE IdentityResponse
    BY <1>5 DEF IdentityResponse, GhostRecord
  <1>6. CASE OtherResponse
    BY <1>6 DEF OtherResponse, GhostRecord
  <1>7. CASE OtherFrame
    BY <1>7 DEF OtherFrame
  <1>8. CASE MalformedFrame
    BY <1>8 DEF MalformedFrame
  <1>9. CASE AccessAccept
    BY <1>9 DEF AccessAccept, Reply, GhostRecord, StaRecord, SmRecord
  <1>10. CASE AccessReject
    BY <1>10 DEF AccessReject, Reply, GhostRecord, StaRecord
  <1>11. CASE AccessChallenge
    BY <1>11 DEF AccessChallenge, Reply, GhostRecord, StaRecord
  <1>12. CASE Disconnect
    BY <1>12, LinkedFree DEF Disconnect
  <1> QED
    BY <1>1, <1>2, <1>3, <1>4, <1>5, <1>6, <1>7, <1>8, <1>9, <1>10, <1>11,
       <1>12 DEF Frame

LEMMA Inductive == Spec => []IInv
  <1>1. Init => IInv
    BY TypeInit, LinkedInit DEF IInv, Linked
  <1>2. IInv /\ [Next]_vars => IInv'
    <2>1. IInv /\ UNCHANGED vars => IInv'
      BY DEF IInv, TypeOK, vars, P, B, Coupled, CoupledForPae, CoupledForBe,
             Signalled, Started, Unfinished, Evidence
    <2>2. IInv /\ Next => TypeOK'
      BY TypeLoop, TypeHandlers DEF Next, IInv
    <2>3. IInv /\ Next => Linked'
      BY LinkedLoop, LinkedHandlers DEF Next
    <2> QED
      BY <2>1, <2>2, <2>3 DEF IInv, Linked
  <1> QED
    BY <1>1, <1>2, PTL DEF Spec

\* The PAE is AUTHENTICATED only on a timely Access-Accept to the latest
\* request: no reply that outlived its request, no stale aSuccess, no order of
\* frames, replies and ticks authorizes a port.
THEOREM AuthorizationSound == Spec => []AuthorizedByAccept
  <1>1. IInv => AuthorizedByAccept
    BY DEF IInv, Evidence, P, AuthorizedByAccept
  <1> QED
    BY <1>1, Inductive, PTL

\* Whenever a handler has returned, the PAE and the Backend agree on whether an
\* authentication is in progress.
THEOREM MachinesInLockstep == Spec => []Lockstep
  <1>1. IInv => Lockstep
    BY DEF IInv, TypeOK, BeRecord, SmRecord, PaeRecord, PaeStates, BeStates,
           Coupled, CoupledForPae, Unfinished, Started, Resting, Finished,
           Working, P, B, Lockstep
  <1> QED
    BY <1>1, Inductive, PTL

-----------------------------------------------------------------------------
(***************************************************************************)
(* More theorems about the authenticator of one station: the timers, the   *)
(* retry counters, the inputs, the replies of the server, and that the     *)
(* authenticator implements PortAccess.                                    *)
(*                                                                         *)
(* A property of EapolSm that speaks of pc = "idle" says what a handler    *)
(* leaves behind.  It becomes inductive when it is said of every point of  *)
(* the loop: what the property forbids may hold inside a handler only      *)
(* where the loop has still to run the machine that ends it.               *)
(***************************************************************************)
\* The loop will run all four machines again before eapol_sm_step returns.
AnotherPass == pc = "AUTH_PAE" \/ (pc \in InStep /\ changed)

\* The tick is registered, except before eapol_sm_initialize has ended, while
\* eapol_port_timers_tick itself runs, and for a station that does not exist.
Ticking ==
  tick = IF pc = "absent" \/ (pc \in InStep /\ after \in {"deassert", "enable", "rearm"})
         THEN 0 ELSE 1

\* reqCount starts from zero with every response; the PAE leaves CONNECTING
\* for AUTHENTICATING only with attempts left.
Counted ==
  /\ be_auth.reqCount <= maxReq
  /\ B = "RESPONSE" => be_auth.reqCount = 0
  /\ auth_pae.reAuthCount <= reAuthMax + 1
  /\ P \in {"AUTHENTICATING", "HELD", "ABORTING"} => auth_pae.reAuthCount <= reAuthMax
  /\ P \in {"INITIALIZE", "DISCONNECTED", "AUTHENTICATED"} => auth_pae.reAuthCount = 0

\* An input is up only where the PAE is still to look at it.
Served ==
  P \notin {"HELD", "INITIALIZE"}
    /\ (auth_pae.eapStart \/ auth_pae.eapLogoff \/ sm.reAuthenticate)
  => AnotherPass

\* A timer of a waiting state is zero only until its machine has run.
Timed ==
  /\ P = "CONNECTING" => timers.txWhen > 0 \/ pc = "AUTH_PAE"
  /\ P = "HELD" => timers.quietWhile > 0 \/ pc = "AUTH_PAE"
  /\ B = "RESPONSE" => timers.aWhile > 0 \/ pc \in {"AUTH_PAE", "BE_AUTH"}
  /\ B = "REQUEST" =>
       timers.aWhile > 0 \/ be_auth.suppTimeout = 0 \/ pc \in {"AUTH_PAE", "BE_AUTH"}
  /\ sm.portStatus = "Authorized" => sm.portEnabled
  /\ sm.portStatus = "Authorized" =>
       timers.reAuthWhen > 0 \/ pc \in {"BE_AUTH", "REAUTH_TIMER"} \/ AnotherPass

\* Who has answered whom: while the Backend waits for the supplicant the
\* challenge is the last reply received and no request is outstanding.
Answered ==
  /\ B = "REQUEST" \/ (B = "RESPONSE" /\ be_auth.aReq) =>
       ~sta.pending /\ sta.lastRecv = "CHALLENGE"
  /\ P = "CONNECTING" /\ auth_pae.rxInitialRsp => ~ghost.answers
  /\ P = "AUTHENTICATING" /\ B = "IDLE" => ~ghost.answers
  /\ ghost.isReply => ghost.withState

\* A timely reject holds the port shut, or is on its way through the Backend
\* and the PAE, with no input that could take the PAE elsewhere.
Rejected ==
  /\ ghost.verdict = "REJECT" =>
       \/ sm.portStatus = "Unauthorized"
       \/ P = "AUTHENTICATING" /\ B = "FAIL"
       \/ /\ P = "AUTHENTICATING" /\ B = "RESPONSE"
          /\ be_auth.aFail /\ ~be_auth.aReq /\ timers.aWhile > 0
          /\ ~auth_pae.eapStart /\ ~auth_pae.eapLogoff /\ ~sm.reAuthenticate
          /\ ~sm.authTimeout
          /\ pc \in {"AUTH_PAE", "BE_AUTH"}
  /\ B = "RESPONSE" /\ sta.pending => ghost.verdict = "none"
  /\ B = "RESPONSE" => ~sm.authTimeout

-----------------------------------------------------------------------------
(* Where each transition comes from                                        *)

Inputs == auth_pae.eapStart \/ auth_pae.eapLogoff \/ sm.reAuthenticate

\* The PAE enters a state only from the states, and for the reasons, given here.
LEMMA PaeSources ==
  ASSUME IInv
  PROVE  /\ PaeStays => \/ P = "HELD" /\ timers.quietWhile # 0
                        \/ P = "CONNECTING" /\ ~Inputs /\ timers.txWhen # 0
                             /\ ~auth_pae.rxInitialRsp
                        \/ P = "AUTHENTICATED" /\ ~Inputs
                        \/ P = "AUTHENTICATING" /\ ~Inputs /\ B \in Working
         /\ PaeInitialize => P = "INITIALIZE"
         /\ PaeDisconnected =>
              P \in {"INITIALIZE", "CONNECTING", "AUTHENTICATED", "ABORTING"}
         /\ PaeConnecting =>
              \/ P \in {"DISCONNECTED", "HELD", "AUTHENTICATED"}
              \/ P = "CONNECTING" /\ auth_pae.reAuthCount <= reAuthMax
                   /\ ~auth_pae.eapLogoff
              \/ P = "ABORTING" /\ ~auth_pae.eapLogoff
         /\ PaeHeld => P = "AUTHENTICATING" /\ B = "FAIL"
         /\ PaeAuthenticated => P = "AUTHENTICATING" /\ B = "SUCCESS"
         /\ PaeAuthenticating =>
              /\ P = "CONNECTING" /\ B = "IDLE" /\ auth_pae.rxInitialRsp
              /\ auth_pae.reAuthCount <= reAuthMax
         /\ PaeAborting =>
              /\ P = "AUTHENTICATING" /\ B \in Working \cup {"TIMEOUT"}
              /\ Inputs \/ sm.authTimeout
  <1> USE ConstantsAssumption
      DEF ConstantsAssumption, IInv, TypeOK, P, B, PaeRecord, PaeStates, BeRecord,
          BeStates, TimerRecord, SmRecord, Inputs, Working, Finished, Resting,
          Coupled, CoupledForPae, Signalled, Started, PaeEnters, PaeTarget,
          FromConnecting, FromAuthenticated, FromAuthenticating, FromAborting
  <1>1. PaeStays => \/ P = "HELD" /\ timers.quietWhile # 0
                    \/ P = "CONNECTING" /\ ~Inputs /\ timers.txWhen # 0
                         /\ ~auth_pae.rxInitialRsp
                    \/ P = "AUTHENTICATED" /\ ~Inputs
                    \/ P = "AUTHENTICATING" /\ ~Inputs /\ B \in Working
    BY DEF PaeStays
  <1>2. PaeInitialize => P = "INITIALIZE"
    BY DEF PaeInitialize
  <1>3. PaeDisconnected =>
          P \in {"INITIALIZE", "CONNECTING", "AUTHENTICATED", "ABORTING"}
    BY DEF PaeDisconnected
  <1>4. PaeConnecting =>
          \/ P \in {"DISCONNECTED", "HELD", "AUTHENTICATED"}
          \/ P = "CONNECTING" /\ auth_pae.reAuthCount <= reAuthMax
               /\ ~auth_pae.eapLogoff
          \/ P = "ABORTING" /\ ~auth_pae.eapLogoff
    BY DEF PaeConnecting
  <1>5. PaeHeld => P = "AUTHENTICATING" /\ B = "FAIL"
    BY DEF PaeHeld
  <1>6. PaeAuthenticated => P = "AUTHENTICATING" /\ B = "SUCCESS"
    BY DEF PaeAuthenticated
  <1>7. PaeAuthenticating =>
          /\ P = "CONNECTING" /\ B = "IDLE" /\ auth_pae.rxInitialRsp
          /\ auth_pae.reAuthCount <= reAuthMax
    BY DEF PaeAuthenticating
  <1>8. PaeAborting =>
          /\ P = "AUTHENTICATING" /\ B \in Working \cup {"TIMEOUT"}
          /\ Inputs \/ sm.authTimeout
    BY DEF PaeAborting
  <1> QED
    BY ONLY <1>1, <1>2, <1>3, <1>4, <1>5, <1>6, <1>7, <1>8

\* The same for the Backend.
LEMMA BeSources ==
  ASSUME IInv
  PROVE  /\ BeStays => \/ B = "IDLE" /\ P # "AUTHENTICATING"
                       \/ B = "REQUEST" /\ timers.aWhile # 0
                       \/ B = "RESPONSE" /\ timers.aWhile # 0 /\ ~be_auth.aReq
                            /\ ~be_auth.aFail /\ ~be_auth.aSuccess
         /\ BeInitialize => sm.initialize \/ P = "ABORTING"
         /\ BeRequest => \/ B = "REQUEST" /\ timers.aWhile = 0 /\ be_auth.reqCount # maxReq
                         \/ B = "RESPONSE" /\ be_auth.aReq
         /\ BeResponse => \/ B = "REQUEST" /\ P = "AUTHENTICATING"
                          \/ B = "IDLE" /\ P = "AUTHENTICATING"
         /\ BeSuccess => /\ B = "RESPONSE" /\ P = "AUTHENTICATING"
                         /\ be_auth.aSuccess /\ ~be_auth.aFail
         /\ BeFail => B = "RESPONSE" /\ P = "AUTHENTICATING" /\ be_auth.aFail
         /\ BeTimeout => /\ B \in Working /\ P = "AUTHENTICATING" /\ timers.aWhile = 0
                         /\ ~be_auth.aReq \/ B = "REQUEST"
         /\ BeIdle => B \in Finished \cup {"INITIALIZE"}
  <1> USE ConstantsAssumption
      DEF ConstantsAssumption, IInv, TypeOK, P, B, PaeRecord, PaeStates, BeRecord,
          BeStates, TimerRecord, SmRecord, Working, Finished, Resting,
          Coupled, CoupledForBe, Signalled, Started, BeEnters, BeTarget,
          FromRequest, FromResponse
  <1>1. BeStays => \/ B = "IDLE" /\ P # "AUTHENTICATING"
                   \/ B = "REQUEST" /\ timers.aWhile # 0
                   \/ B = "RESPONSE" /\ timers.aWhile # 0 /\ ~be_auth.aReq
                        /\ ~be_auth.aFail /\ ~be_auth.aSuccess
    BY DEF BeStays
  <1>2. BeInitialize => sm.initialize \/ P = "ABORTING"
    BY DEF BeInitialize
  <1>3. BeRequest => \/ B = "REQUEST" /\ timers.aWhile = 0 /\ be_auth.reqCount # maxReq
                     \/ B = "RESPONSE" /\ be_auth.aReq
    BY DEF BeRequest
  <1>4. BeResponse => \/ B = "REQUEST" /\ P = "AUTHENTICATING"
                      \/ B = "IDLE" /\ P = "AUTHENTICATING"
    BY DEF BeResponse
  <1>5. BeSuccess => /\ B = "RESPONSE" /\ P = "AUTHENTICATING"
                     /\ be_auth.aSuccess /\ ~be_auth.aFail
    BY DEF BeSuccess
  <1>6. BeFail => B = "RESPONSE" /\ P = "AUTHENTICATING" /\ be_auth.aFail
    BY DEF BeFail
  <1>7. BeTimeout => /\ B \in Working /\ P = "AUTHENTICATING" /\ timers.aWhile = 0
                     /\ ~be_auth.aReq \/ B = "REQUEST"
    BY DEF BeTimeout
  <1>8. BeIdle => B \in Finished \cup {"INITIALIZE"}
    BY DEF BeIdle
  <1> QED
    BY ONLY <1>1, <1>2, <1>3, <1>4, <1>5, <1>6, <1>7, <1>8

-----------------------------------------------------------------------------
(* The registration of the tick                                            *)

LEMMA TickingStep == TypeOK /\ Ticking /\ Next => Ticking'
  <1> SUFFICES ASSUME TypeOK, Ticking, Next PROVE Ticking'
    OBVIOUS
  <1> USE DEF TypeOK, Ticking, InStep
  <1>1. CASE AuthPaeStep
    BY <1>1 DEF AuthPaeStep, PaeEnters, PaeStays, PaeInitialize, PaeDisconnected,
                PaeConnecting, PaeHeld, PaeAuthenticated, PaeAuthenticating,
                PaeAborting
  <1>2. CASE BeAuthStep
    BY <1>2 DEF BeAuthStep, BeEnters, BeStays, BeInitialize, BeRequest, BeResponse,
                BeSuccess, BeFail, BeTimeout, BeIdle
  <1>3. CASE ReauthTimerStep \/ AuthKeyTxStep
    BY <1>3 DEF ReauthTimerStep, ReauthEnters, ReauthStays, ReauthInitialize,
                ReauthReauthenticate, AuthKeyTxStep, KeyTxEnters, KeyTxStays,
                KeyTxNoKeyTransmit, KeyTxKeyTransmit
  <1>4. CASE LoopAgain \/ Deassert \/ Enable \/ Again \/ Return \/ Rearm
    BY <1>4 DEF LoopAgain, Deassert, Enable, Again, Return, Rearm, StepReturns,
                RunStep
  <1>5. CASE FreeAfterAccept \/ Disconnect
    BY <1>5 DEF FreeAfterAccept, Disconnect, FreeStation
  <1>6. CASE NewStation \/ Tick
    BY <1>6 DEF NewStation, Tick, RunStep
  <1>7. CASE Frame
    BY <1>7 DEF Frame, EapolStart, EapolLogoff, IdentityResponse, OtherResponse,
                OtherFrame, MalformedFrame, Receives, RunStep
  <1>8. CASE AccessAccept \/ AccessReject \/ AccessChallenge
    BY <1>8 DEF AccessAccept, AccessReject, AccessChallenge, Reply, RunStep
  <1> QED
    BY <1>1, <1>2, <1>3, <1>4, <1>5, <1>6, <1>7, <1>8 DEF Next, StepLoop

-----------------------------------------------------------------------------
(* The retry counters                                                      *)

LEMMA CountedStep == IInv /\ Counted /\ Next => Counted'
  <1> SUFFICES ASSUME IInv, Counted, Next PROVE Counted'
    OBVIOUS
  <1> USE ConstantsAssumption
      DEF ConstantsAssumption, IInv, TypeOK, Counted, P, B, PaeRecord, BeRecord
  <1>1. CASE AuthPaeStep
    <2> USE <1>1, PaeSources DEF PaeEnters
    <2>1. CASE PaeStays \/ PaeInitialize
      BY <2>1 DEF PaeStays, PaeInitialize
    <2>2. CASE PaeDisconnected
      BY <2>2 DEF PaeDisconnected
    <2>3. CASE PaeConnecting
      <3>1. auth_pae.reAuthCount <= reAuthMax
        BY <2>3
      <3>2. /\ auth_pae'.state = "CONNECTING" /\ be_auth' = be_auth
            /\ auth_pae'.reAuthCount = auth_pae.reAuthCount + 1
        BY <2>3 DEF PaeConnecting, ConnectingEntry
      <3> QED
        BY <3>1, <3>2
    <2>4. CASE PaeHeld
      BY <2>4 DEF PaeHeld
    <2>5. CASE PaeAuthenticated
      BY <2>5 DEF PaeAuthenticated
    <2>6. CASE PaeAuthenticating \/ PaeAborting
      BY <2>6 DEF PaeAuthenticating, PaeAborting
    <2> QED
      BY <2>1, <2>2, <2>3, <2>4, <2>5, <2>6 DEF AuthPaeStep
  <1>2. CASE BeAuthStep
    <2> USE <1>2, BeSources DEF BeEnters
    <2>1. CASE BeStays \/ BeInitialize
      BY <2>1 DEF BeStays, BeInitialize
    <2>2. CASE BeRequest
      BY <2>2 DEF BeRequest, RequestEntry
    <2>3. CASE BeResponse
      BY <2>3 DEF BeResponse, ResponseEntry
    <2>4. CASE BeSuccess \/ BeFail \/ BeTimeout
      BY <2>4 DEF BeSuccess, BeFail, BeTimeout
    <2>5. CASE BeIdle
      BY <2>5 DEF BeIdle
    <2> QED
      BY <2>1, <2>2, <2>3, <2>4, <2>5 DEF BeAuthStep
  <1>3. CASE ReauthTimerStep \/ AuthKeyTxStep
    BY <1>3 DEF ReauthTimerStep, ReauthEnters, ReauthStays, ReauthInitialize,
                ReauthReauthenticate, AuthKeyTxStep, KeyTxEnters, KeyTxStays,
                KeyTxNoKeyTransmit, KeyTxKeyTransmit
  <1>4. CASE LoopAgain \/ Deassert \/ Enable \/ Again \/ Return \/ Rearm
    BY <1>4 DEF LoopAgain, Deassert, Enable, Again, Return, Rearm, machines
  <1>5. CASE FreeAfterAccept \/ Disconnect
    BY <1>5 DEF FreeAfterAccept, Disconnect, FreeStation, NewPae, NewBe
  <1>6. CASE NewStation \/ Tick
    BY <1>6 DEF NewStation, Tick, machines
  <1>7. CASE Frame
    BY <1>7 DEF Frame, EapolStart, EapolLogoff, IdentityResponse, OtherResponse,
                OtherFrame, MalformedFrame, machines
  <1>8. CASE AccessAccept \/ AccessReject \/ AccessChallenge
    BY <1>8 DEF AccessAccept, AccessReject, AccessChallenge, Reply
  <1> QED
    BY <1>1, <1>2, <1>3, <1>4, <1>5, <1>6, <1>7, <1>8 DEF Next, StepLoop

-----------------------------------------------------------------------------
(* The inputs                                                              *)

LEMMA ServedStep == IInv /\ Served /\ Next => Served'
  <1> SUFFICES ASSUME IInv, Served, Next PROVE Served'
    OBVIOUS
  <1> USE DEF IInv, TypeOK, Served, AnotherPass, P, B, InStep, Inputs,
              PaeRecord, SmRecord
  <1>1. CASE AuthPaeStep
    <2> USE <1>1, PaeSources DEF PaeEnters
    <2>1. CASE PaeStays \/ PaeInitialize
      BY <2>1 DEF PaeStays, PaeInitialize
    <2>2. CASE PaeDisconnected
      BY <2>2 DEF PaeDisconnected
    <2>3. CASE PaeConnecting
      BY <2>3 DEF PaeConnecting, ConnectingEntry
    <2>4. CASE PaeHeld \/ PaeAuthenticated
      BY <2>4 DEF PaeHeld, PaeAuthenticated
    <2>5. CASE PaeAuthenticating
      BY <2>5 DEF PaeAuthenticating, AuthenticatingEntry
    <2>6. CASE PaeAborting
      BY <2>6 DEF PaeAborting, AbortingEntry
    <2> QED
      BY <2>1, <2>2, <2>3, <2>4, <2>5, <2>6 DEF AuthPaeStep
  <1>2. CASE BeAuthStep
    BY <1>2 DEF BeAuthStep, BeEnters, BeStays, BeInitialize, BeRequest, BeResponse,
                BeSuccess, BeFail, BeTimeout, BeIdle, TimeoutEntry, IdleEntry
  <1>3. CASE ReauthTimerStep
    BY <1>3 DEF ReauthTimerStep, ReauthEnters, ReauthStays, ReauthInitialize,
                ReauthReauthenticate, ReauthTarget
  <1>4. CASE AuthKeyTxStep
    BY <1>4 DEF AuthKeyTxStep, KeyTxEnters, KeyTxStays,
                KeyTxNoKeyTransmit, KeyTxKeyTransmit
  <1>5. CASE LoopAgain \/ Deassert \/ Enable \/ Again \/ Return \/ Rearm
    BY <1>5 DEF LoopAgain, Deassert, Enable, Again, Return, Rearm, machines,
                StepReturns, RunStep
  <1>6. CASE FreeAfterAccept \/ Disconnect
    BY <1>6 DEF FreeAfterAccept, Disconnect, FreeStation, NewPae
  <1>7. CASE NewStation \/ Tick
    BY <1>7 DEF NewStation, Tick, RunStep
  <1>8. CASE Frame
    BY <1>8 DEF Frame, EapolStart, EapolLogoff, IdentityResponse, OtherResponse,
                OtherFrame, MalformedFrame, machines, RunStep
  <1>9. CASE AccessAccept \/ AccessReject \/ AccessChallenge
    BY <1>9 DEF AccessAccept, AccessReject, AccessChallenge, RunStep
  <1> QED
    BY <1>1, <1>2, <1>3, <1>4, <1>5, <1>6, <1>7, <1>8, <1>9 DEF Next, StepLoop

-----------------------------------------------------------------------------
(* The timers                                                              *)

LEMMA TimedStep == IInv /\ Answered /\ Timed /\ Next => Timed'
  <1> SUFFICES ASSUME IInv, Answered, Timed, Next PROVE Timed'
    OBVIOUS
  <1> USE ConstantsAssumption
      DEF ConstantsAssumption, IInv, TypeOK, Started, Timed, AnotherPass, P, B, InStep,
          PaeRecord, BeRecord, SmRecord, TimerRecord
  <1>1. CASE AuthPaeStep
    <2> USE <1>1, PaeSources DEF PaeEnters
    <2>1. CASE PaeStays \/ PaeInitialize
      BY <2>1 DEF PaeStays, PaeInitialize
    <2>2. CASE PaeDisconnected
      BY <2>2 DEF PaeDisconnected
    <2>3. CASE PaeConnecting
      BY <2>3 DEF PaeConnecting, ConnectingEntry
    <2>4. CASE PaeHeld
      BY <2>4 DEF PaeHeld
    <2>5. CASE PaeAuthenticated
      BY <2>5 DEF PaeAuthenticated
    <2>6. CASE PaeAuthenticating
      BY <2>6 DEF PaeAuthenticating, AuthenticatingEntry
    <2>7. CASE PaeAborting
      BY <2>7 DEF PaeAborting, AbortingEntry
    <2> QED
      BY <2>1, <2>2, <2>3, <2>4, <2>5, <2>6, <2>7 DEF AuthPaeStep
  <1>2. CASE BeAuthStep
    <2> USE <1>2, BeSources DEF BeEnters
    <2>1. CASE BeStays \/ BeInitialize
      BY <2>1 DEF BeStays, BeInitialize
    <2>2. CASE BeRequest
      BY <2>2 DEF BeRequest, RequestEntry
    <2>3. CASE BeResponse
      BY <2>3 DEF BeResponse, ResponseEntry
    <2>4. CASE BeSuccess \/ BeFail \/ BeTimeout
      BY <2>4 DEF BeSuccess, BeFail, BeTimeout, TimeoutEntry
    <2>5. CASE BeIdle
      BY <2>5 DEF BeIdle, IdleEntry
    <2> QED
      BY <2>1, <2>2, <2>3, <2>4, <2>5 DEF BeAuthStep
  <1>3. CASE ReauthTimerStep
    <2> USE <1>3 DEF ReauthEnters, ReauthTarget, reAuthEnabled, ReauthRecord
    <2>1. CASE ReauthStays
      BY <2>1 DEF ReauthStays
    <2>2. CASE ReauthInitialize
      BY <2>2 DEF ReauthInitialize
    <2>3. CASE ReauthReauthenticate
      BY <2>3 DEF ReauthReauthenticate
    <2> QED
      BY <2>1, <2>2, <2>3 DEF ReauthTimerStep
  <1>4. CASE AuthKeyTxStep
    BY <1>4 DEF AuthKeyTxStep, KeyTxEnters, KeyTxStays,
                KeyTxNoKeyTransmit, KeyTxKeyTransmit
  <1>5. CASE LoopAgain \/ Deassert \/ Enable \/ Again \/ Return \/ Rearm
    BY <1>5 DEF LoopAgain, Deassert, Enable, Again, Return, Rearm, machines,
                StepReturns, RunStep
  <1>6. CASE FreeAfterAccept \/ Disconnect
    BY <1>6 DEF FreeAfterAccept, Disconnect, FreeStation, NewPae, NewBe, NewSm
  <1>7. CASE NewStation \/ Tick
    BY <1>7 DEF NewStation, Tick, RunStep, machines
  <1>8. CASE Frame
    BY <1>8 DEF Frame, EapolStart, EapolLogoff, IdentityResponse, OtherResponse,
                OtherFrame, MalformedFrame, machines, RunStep
  <1>9. CASE AccessAccept \/ AccessReject \/ AccessChallenge
    BY <1>9 DEF AccessAccept, AccessReject, AccessChallenge, RunStep, Reply, Answered
  <1> QED
    BY <1>1, <1>2, <1>3, <1>4, <1>5, <1>6, <1>7, <1>8, <1>9 DEF Next, StepLoop

-----------------------------------------------------------------------------
(* Challenges and their answers                                            *)

LEMMA AnsweredStep == IInv /\ Answered /\ Next => Answered'
  <1> SUFFICES ASSUME IInv, Answered, Next PROVE Answered'
    OBVIOUS
  <1> USE DEF IInv, TypeOK, Coupled, CoupledForPae, CoupledForBe, Resting, Working,
              Finished, Answered, P, B, PaeRecord, BeRecord, SmRecord, StaRecord,
              GhostRecord
  <1>1. CASE AuthPaeStep
    <2> USE <1>1, PaeSources DEF PaeEnters
    <2>1. CASE PaeStays \/ PaeInitialize
      BY <2>1 DEF PaeStays, PaeInitialize
    <2>2. CASE PaeDisconnected
      BY <2>2 DEF PaeDisconnected
    <2>3. CASE PaeConnecting
      BY <2>3 DEF PaeConnecting, ConnectingEntry, NewAuthSession
    <2>4. CASE PaeHeld \/ PaeAuthenticated
      BY <2>4, ZenonT(40) DEF PaeHeld, PaeAuthenticated
    <2>5. CASE PaeAuthenticating
      BY <2>5 DEF PaeAuthenticating, AuthenticatingEntry
    <2>6. CASE PaeAborting
      BY <2>6 DEF PaeAborting, AbortingEntry
    <2> QED
      BY <2>1, <2>2, <2>3, <2>4, <2>5, <2>6 DEF AuthPaeStep
  <1>2. CASE BeAuthStep
    <2> USE <1>2, BeSources DEF BeEnters
    <2>1. CASE BeStays \/ BeInitialize
      BY <2>1 DEF BeStays, BeInitialize
    <2>2. CASE BeRequest
      BY <2>2 DEF BeRequest, RequestEntry
    <2>3. CASE BeResponse
      BY <2>3 DEF BeResponse, ResponseEntry
    <2>4. CASE BeSuccess \/ BeFail \/ BeTimeout
      BY <2>4 DEF BeSuccess, BeFail, BeTimeout, TimeoutEntry
    <2>5. CASE BeIdle
      BY <2>5 DEF BeIdle, IdleEntry
    <2> QED
      BY <2>1, <2>2, <2>3, <2>4, <2>5 DEF BeAuthStep
  <1>3. CASE ReauthTimerStep \/ AuthKeyTxStep
    BY <1>3 DEF ReauthTimerStep, ReauthEnters, ReauthStays, ReauthInitialize,
                ReauthReauthenticate, AuthKeyTxStep, KeyTxEnters, KeyTxStays,
                KeyTxNoKeyTransmit, KeyTxKeyTransmit
  <1>4. CASE LoopAgain \/ Deassert \/ Enable \/ Again \/ Return \/ Rearm
    BY <1>4 DEF LoopAgain, Deassert, Enable, Again, Return, Rearm, machines
  <1>5. CASE FreeAfterAccept \/ Disconnect
    BY <1>5 DEF FreeAfterAccept, Disconnect, FreeStation, NewPae, NewBe, NewGhost
  <1>6. CASE NewStation \/ Tick
    BY <1>6 DEF NewStation, Tick, machines
  <1>7. CASE Frame
    <2> USE <1>7 DEF Receives, machines
    <2>1. CASE EapolStart \/ EapolLogoff \/ OtherFrame \/ MalformedFrame
      BY <2>1 DEF EapolStart, EapolLogoff, OtherFrame, MalformedFrame
    <2>2. CASE IdentityResponse
      BY <2>2 DEF IdentityResponse
    <2>3. CASE OtherResponse
      BY <2>3 DEF OtherResponse
    <2> QED
      BY <2>1, <2>2, <2>3 DEF Frame
  <1>8. CASE AccessAccept
    BY <1>8 DEF AccessAccept, Reply
  <1>9. CASE AccessReject
    BY <1>9 DEF AccessReject, Reply
  <1>10. CASE AccessChallenge
    BY <1>10 DEF AccessChallenge, Reply
  <1> QED
    BY <1>1, <1>2, <1>3, <1>4, <1>5, <1>6, <1>7, <1>8, <1>9, <1>10
    DEF Next, StepLoop

-----------------------------------------------------------------------------
(* The effect of a reject                                                  *)

LEMMA RejectedStep ==
  IInv /\ Served /\ Timed /\ Answered /\ Rejected /\ Next => Rejected'
  <1> SUFFICES ASSUME IInv, Served, Timed, Answered, Rejected, Next
               PROVE  Rejected'
    OBVIOUS
  <1> USE DEF IInv, TypeOK, Coupled, CoupledForPae, CoupledForBe, Resting, Working,
              Finished, Signalled, Evidence, Rejected, P, B, Inputs,
              PaeRecord, BeRecord, SmRecord, StaRecord, GhostRecord
  <1>1. CASE AuthPaeStep
    <2> USE <1>1, PaeSources DEF PaeEnters
    <2>1. CASE PaeStays \/ PaeInitialize
      BY <2>1 DEF PaeStays, PaeInitialize
    <2>2. CASE PaeDisconnected
      BY <2>2 DEF PaeDisconnected
    <2>3. CASE PaeConnecting
      BY <2>3 DEF PaeConnecting, ConnectingEntry, NewAuthSession
    <2>4. CASE PaeHeld
      BY <2>4 DEF PaeHeld
    <2>5. CASE PaeAuthenticated
      BY <2>5 DEF PaeAuthenticated
    <2>6. CASE PaeAuthenticating
      BY <2>6 DEF PaeAuthenticating, AuthenticatingEntry
    <2>7. CASE PaeAborting
      BY <2>7 DEF PaeAborting, AbortingEntry
    <2> QED
      BY <2>1, <2>2, <2>3, <2>4, <2>5, <2>6, <2>7 DEF AuthPaeStep
  <1>2. CASE BeAuthStep
    <2> USE <1>2, BeSources DEF BeEnters
    <2>1. CASE BeStays
      BY <2>1 DEF BeStays
    <2>2. CASE BeInitialize
      BY <2>2 DEF BeInitialize, Started
    <2>3. CASE BeRequest
      BY <2>3 DEF BeRequest, RequestEntry
    <2>4. CASE BeResponse
      BY <2>4 DEF BeResponse, ResponseEntry
    <2>5. CASE BeSuccess
      BY <2>5 DEF BeSuccess
    <2>6. CASE BeFail
      BY <2>6 DEF BeFail
    <2>7. CASE BeTimeout
      BY <2>7 DEF BeTimeout, TimeoutEntry, TimerRecord
    <2>8. CASE BeIdle
      BY <2>8 DEF BeIdle, IdleEntry
    <2> QED
      BY <2>1, <2>2, <2>3, <2>4, <2>5, <2>6, <2>7, <2>8 DEF BeAuthStep
  <1>3. CASE ReauthTimerStep \/ AuthKeyTxStep
    BY <1>3 DEF ReauthTimerStep, ReauthEnters, ReauthStays, ReauthInitialize,
                ReauthReauthenticate, AuthKeyTxStep, KeyTxEnters, KeyTxStays,
                KeyTxNoKeyTransmit, KeyTxKeyTransmit
  <1>4. CASE LoopAgain \/ Deassert \/ Enable \/ Again \/ Return \/ Rearm
    BY <1>4 DEF LoopAgain, Deassert, Enable, Again, Return, Rearm, machines,
                StepReturns, RunStep
  <1>5. CASE FreeAfterAccept \/ Disconnect
    BY <1>5 DEF FreeAfterAccept, Disconnect, FreeStation, NewPae, NewBe, NewGhost,
                NewSm
  <1>6. CASE NewStation \/ Tick
    BY <1>6 DEF NewStation, Tick, machines
  <1>7. CASE Frame
    BY <1>7 DEF Frame, EapolStart, EapolLogoff, IdentityResponse, OtherResponse,
                OtherFrame, MalformedFrame, Receives, machines
  <1>8. CASE AccessAccept
    BY <1>8 DEF AccessAccept, Reply
  <1>9. CASE AccessReject
    <2>1. CASE B = "RESPONSE"
      <3>1. /\ P = "AUTHENTICATING" /\ ~Inputs /\ timers.aWhile > 0
            /\ ~be_auth.aReq /\ ~sm.authTimeout
        BY <1>9, <2>1 DEF AccessReject, Reply, Served, AnotherPass, InStep, Timed,
                          Answered
      <3> QED
        BY <1>9, <2>1, <3>1 DEF AccessReject, Reply, RunStep
    <2>2. CASE B # "RESPONSE"
      BY <1>9, <2>2 DEF AccessReject, Reply
    <2> QED
      BY <2>1, <2>2
  <1>10. CASE AccessChallenge
    BY <1>10 DEF AccessChallenge, Reply
  <1> QED
    BY <1>1, <1>2, <1>3, <1>4, <1>5, <1>6, <1>7, <1>8, <1>9, <1>10
    DEF Next, StepLoop

-----------------------------------------------------------------------------
(* The invariant as a whole, and what follows from it                      *)

Kept == Ticking /\ Counted /\ Served /\ Timed /\ Answered /\ Rejected

LEMMA KeptInit == Init => Kept
  <1> SUFFICES ASSUME Init PROVE Kept
    OBVIOUS
  <1> USE DEF Init, FreshStation, NewPae, NewBe, NewSm, NewSta, NewGhost, NewTimers,
              P, B
  <1>1. Counted
    BY ConstantsAssumption DEF ConstantsAssumption, Counted
  <1>2. Ticking /\ Served /\ Timed /\ Answered /\ Rejected
    BY DEF Ticking, Served, Timed, Answered, Rejected
  <1> QED
    BY <1>1, <1>2 DEF Kept

LEMMA KeptStutter == Kept /\ UNCHANGED vars => Kept'
  BY DEF Kept, vars, Ticking, Counted, Served, Timed, Answered, Rejected,
         AnotherPass, P, B

LEMMA InductiveKept == Spec => [](IInv /\ Kept)
  <1>1. IInv /\ Kept /\ [Next]_vars => Kept'
    <2>1. IInv /\ Kept /\ Next => Kept'
      BY TickingStep, CountedStep, ServedStep, TimedStep, AnsweredStep, RejectedStep
      DEF Kept, IInv
    <2> QED
      BY <2>1, KeptStutter
  <1> QED
    BY <1>1, KeptInit, Inductive, PTL DEF Spec

\* One tick is registered for a station that exists, none for one that was
\* freed, whatever order frees, ticks and initializations come in.
THEOREM TickIsOwned == Spec => []TickOwned
  <1>1. Kept => TickOwned
    BY DEF Kept, Ticking, TickOwned
  <1> QED
    BY <1>1, InductiveKept, PTL

\* reqCount meets maxReq exactly and reAuthCount passes reAuthMax by one at
\* most, for every setting of the two limits.
THEOREM RetriesAreBounded == Spec => []RetriesBounded
  <1>1. Kept => RetriesBounded
    BY DEF Kept, Counted, RetriesBounded
  <1> QED
    BY <1>1, InductiveKept, PTL

\* eapol_sm_step returns only when the PAE has acted on every request of the
\* supplicant and of the reauthentication timer, or keeps it in HELD.
THEOREM InputsAreServed == Spec => []InputsServed
  <1>1. IInv /\ Kept => InputsServed
    BY DEF IInv, TypeOK, PaeRecord, SmRecord, Kept, Served, AnotherPass, InStep, P,
           InputsServed
  <1> QED
    BY <1>1, InductiveKept, PTL

\* Every state in which a handler leaves the machines waiting has a running
\* timer and a registered tick, whatever Session-Timeout the server sent.
THEOREM EveryWaitIsTimed == Spec => []EveryWaitTimed
  <1>1. IInv /\ Kept => EveryWaitTimed
    BY DEF IInv, TypeOK, Kept, Ticking, Timed, AnotherPass, InStep, P, B,
           EveryWaitTimed
  <1> QED
    BY <1>1, InductiveKept, PTL

\* A request that forwards the answer to a challenge carries its State.
THEOREM RepliesCarryState == Spec => []ReplyCarriesState
  <1>1. Kept => ReplyCarriesState
    BY DEF Kept, Answered, ReplyCarriesState
  <1> QED
    BY <1>1, InductiveKept, PTL

\* Once the handler of a timely Access-Reject has returned the port is shut, for
\* every history of timeouts, logoffs and late replies before it.
THEOREM RejectsRevoke == Spec => []RejectRevokes
  <1>1. IInv /\ Kept => RejectRevokes
    BY DEF IInv, TypeOK, SmRecord, Unfinished, Finished, Kept, Rejected, P, B,
           RejectRevokes
  <1> QED
    BY <1>1, InductiveKept, PTL

-----------------------------------------------------------------------------
(* The refinement of PortAccess.  A new authentication and a new request    *)
(* are Ask, a timely reply is Answer, AUTHENTICATED is Grant, DISCONNECTED  *)
(* and HELD are Revoke, the freed station is Leave; the rest stutters.      *)

portVars == <<sm.portStatus, ghost.verdict>>

LEMMA PortInit == Init => Port!Init
  BY DEF Init, FreshStation, NewSm, NewGhost, Port!Init

\* No authentication begins, and no request is sent, with a reject standing
\* against an open port.
LEMMA AskAllowed ==
  ASSUME IInv, Kept, PaeAuthenticating \/ BeResponse
  PROVE  ghost.verdict = "REJECT" => sm.portStatus = "Unauthorized"
  <1>1. CASE PaeAuthenticating
    BY <1>1, PaeSources DEF Kept, Rejected, P, B
  <1>2. CASE BeResponse
    BY <1>2, BeSources DEF Kept, Rejected, P, B
  <1> QED
    BY <1>1, <1>2

LEMMA PortPae == IInv /\ Kept /\ AuthPaeStep => Port!Next \/ UNCHANGED portVars
  <1> SUFFICES ASSUME IInv, Kept, AuthPaeStep
               PROVE  Port!Next \/ UNCHANGED portVars
    OBVIOUS
  <1> USE DEF portVars, IInv, TypeOK, SmRecord, GhostRecord
  <1>1. CASE PaeStays \/ PaeInitialize
    BY <1>1 DEF PaeStays, PaeInitialize
  <1>2. CASE PaeConnecting \/ PaeAborting
    BY <1>2 DEF PaeConnecting, PaeAborting, AbortingEntry
  <1>3. CASE PaeDisconnected \/ PaeHeld
    <2>1. Port!Revoke
      BY <1>3 DEF PaeDisconnected, PaeHeld, Port!Revoke
    <2> QED
      BY <2>1 DEF Port!Next
  <1>4. CASE PaeAuthenticated
    <2>1. ghost.verdict = "ACCEPT"
      BY <1>4, PaeSources DEF Evidence, P, B
    <2>2. Port!Grant
      BY <1>4, <2>1 DEF PaeAuthenticated, Port!Grant
    <2> QED
      BY <2>2 DEF Port!Next
  <1>5. CASE PaeAuthenticating
    <2>1. Port!Ask
      BY <1>5, AskAllowed DEF PaeAuthenticating, AuthenticatingEntry, Port!Ask
    <2> QED
      BY <2>1 DEF Port!Next
  <1> QED
    BY <1>1, <1>2, <1>3, <1>4, <1>5 DEF AuthPaeStep

LEMMA PortBe == IInv /\ Kept /\ BeAuthStep => Port!Next \/ UNCHANGED portVars
  <1> SUFFICES ASSUME IInv, Kept, BeAuthStep
               PROVE  Port!Next \/ UNCHANGED portVars
    OBVIOUS
  <1> USE DEF portVars, IInv, TypeOK, SmRecord, GhostRecord
  <1>1. CASE BeResponse
    <2>1. Port!Ask
      BY <1>1, AskAllowed DEF BeResponse, Port!Ask
    <2> QED
      BY <2>1 DEF Port!Next
  <1>2. CASE ~BeResponse
    BY <1>2 DEF BeAuthStep, BeStays, BeInitialize, BeRequest, BeSuccess, BeFail,
                BeTimeout, BeIdle, TimeoutEntry, IdleEntry
  <1> QED
    BY <1>1, <1>2

LEMMA PortLoop == IInv /\ Kept /\ StepLoop => Port!Next \/ UNCHANGED portVars
  <1> SUFFICES ASSUME IInv, Kept, StepLoop
               PROVE  Port!Next \/ UNCHANGED portVars
    OBVIOUS
  <1> USE DEF portVars, IInv, TypeOK, SmRecord, GhostRecord
  <1>1. CASE ReauthTimerStep \/ AuthKeyTxStep
    BY <1>1 DEF ReauthTimerStep, ReauthEnters, ReauthStays, ReauthInitialize,
                ReauthReauthenticate, AuthKeyTxStep, KeyTxEnters, KeyTxStays,
                KeyTxNoKeyTransmit, KeyTxKeyTransmit
  <1>2. CASE LoopAgain \/ Deassert \/ Enable \/ Again \/ Return \/ Rearm
    BY <1>2 DEF LoopAgain, Deassert, Enable, Again, Return, Rearm
  <1>3. CASE FreeAfterAccept
    <2>1. Port!Leave
      BY <1>3 DEF FreeAfterAccept, FreeStation, NewSm, NewGhost, Port!Leave
    <2> QED
      BY <2>1 DEF Port!Next
  <1> QED
    BY <1>1, <1>2, <1>3, PortPae, PortBe DEF StepLoop

\* A reply that comes in time is the first to its request.
LEMMA PortReply ==
  ASSUME IInv, Kept, NEW code \in Codes, Reply(code), UNCHANGED sm.portStatus
  PROVE  Port!Answer \/ UNCHANGED portVars
  <1> USE DEF IInv, TypeOK, GhostRecord, Reply, portVars
  <1>1. CASE B = "RESPONSE"
    BY <1>1 DEF Kept, Rejected, B, Port!Answer, Port!Codes, Codes
  <1>2. CASE B # "RESPONSE"
    BY <1>2 DEF B
  <1> QED
    BY <1>1, <1>2

LEMMA PortHandlers ==
  IInv /\ Kept /\ (NewStation \/ Tick \/ Frame \/ AccessAccept \/ AccessReject
                   \/ AccessChallenge \/ Disconnect)
    => Port!Next \/ UNCHANGED portVars
  <1> SUFFICES ASSUME IInv, Kept,
                      NewStation \/ Tick \/ Frame \/ AccessAccept
                      \/ AccessReject \/ AccessChallenge \/ Disconnect
               PROVE  Port!Next \/ UNCHANGED portVars
    OBVIOUS
  <1>1. CASE NewStation \/ Tick
    BY <1>1 DEF NewStation, Tick, portVars
  <1>2. CASE Frame
    BY <1>2 DEF Frame, EapolStart, EapolLogoff, IdentityResponse, OtherResponse,
                OtherFrame, MalformedFrame, portVars, IInv, TypeOK, GhostRecord
  <1>3. CASE AccessAccept \/ AccessReject \/ AccessChallenge
    <2>1. UNCHANGED sm.portStatus
      BY <1>3 DEF AccessAccept, AccessReject, AccessChallenge, IInv, TypeOK, SmRecord
    <2>2. \E code \in Codes : Reply(code)
      BY <1>3 DEF AccessAccept, AccessReject, AccessChallenge, Codes
    <2> QED
      BY <2>1, <2>2, PortReply DEF Port!Next
  <1>4. CASE Disconnect
    <2>1. Port!Leave
      BY <1>4 DEF Disconnect, FreeStation, NewSm, NewGhost, Port!Leave
    <2> QED
      BY <2>1 DEF Port!Next
  <1> QED
    BY <1>1, <1>2, <1>3, <1>4

\* The authenticator implements PortAccess: every step of its machines, handlers
\* and timers is a step that the abstract port allows, or changes nothing of it.
THEOREM PortAccessImplemented == Spec => ImplementsPortAccess
  <1>1. IInv /\ Kept /\ [Next]_vars => [Port!Next]_portVars
    <2>1. UNCHANGED vars => UNCHANGED portVars
      BY DEF vars, portVars
    <2> QED
      BY <2>1, PortLoop, PortHandlers DEF Next
  <1> QED
    BY <1>1, PortInit, InductiveKept, PTL
    DEF Spec, ImplementsPortAccess, Port!Spec, portVars
=============================================================================
