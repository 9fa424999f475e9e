------------------------------- MODULE EapolSm -------------------------------
(***************************************************************************)
(* The IEEE 802.1X authenticator of one station: the four state machines   *)
(* of eapol_sm.c (Authenticator PAE, Backend Authentication, Reauth Timer, *)
(* Key Transmit), the do-while loop of eapol_sm_step that runs them, and   *)
(* the handlers of ieee802_1x.c that feed them.                            *)
(*                                                                         *)
(* The daemon is single threaded: eloop_run calls one handler at a time.   *)
(* A handler sets inputs and calls eapol_sm_step; `pc' says where that     *)
(* call is, so one TLA+ step is one SM_STEP_RUN of the loop body and no    *)
(* other handler is enabled before the loop has ended.                     *)
(*                                                                         *)
(* Abstracted data: EAP identifiers (a response either carries currentId   *)
(* or is dropped), packet contents, statistics counters.  portControl is   *)
(* only ever assigned Auto, so FORCE_AUTH and FORCE_UNAUTH, which need     *)
(* another value, are unreachable and left out; so is portValid = FALSE.   *)
(***************************************************************************)
EXTENDS Naturals

CONSTANTS
  reAuthMax,           \* AUTH_PAE_DEFAULT_reAuthMax
  txPeriod,            \* AUTH_PAE_DEFAULT_txPeriod
  quietPeriod,         \* conf->quiet_interval
  maxReq,              \* BE_AUTH_DEFAULT_maxReq
  serverTimeout,       \* BE_AUTH_DEFAULT_serverTimeout
  DefaultSuppTimeout,  \* BE_AUTH_DEFAULT_suppTimeout
  DefaultReAuthPeriod, \* conf->session_timeout_interval, or the 3600 s default
  SessionTimeouts,     \* values of Session-Timeout that the server may send
  SessionTimeoutSet    \* conf->session_timeout_set == 1

ASSUME ConstantsAssumption ==
  /\ reAuthMax \in Nat
  /\ txPeriod \in Nat \ {0}
  /\ quietPeriod \in Nat \ {0}
  /\ maxReq \in Nat \ {0}
  /\ serverTimeout \in Nat \ {0}
  /\ DefaultSuppTimeout \in Nat \ {0}
  /\ DefaultReAuthPeriod \in Nat \ {0}
  /\ SessionTimeouts \subseteq Nat
  /\ SessionTimeoutSet \in BOOLEAN

VARIABLES
  pc,            \* what the daemon does about this station, see Places
  changed,       \* some prev_xxx of this pass of the loop differs by now
  after,         \* what the handler does when eapol_sm_step returns
  auth_pae,      \* sm->auth_pae
  be_auth,       \* sm->be_auth
  reauth_timer,  \* sm->reauth_timer
  auth_key_tx,   \* sm->auth_key_tx.state
  timers,        \* sm->aWhile, quietWhile, reAuthWhen, txWhen
  sm,            \* the signals between the machines, and the port status
  sta,           \* sta_info: outstanding RADIUS request, last reply received
  tick,          \* registrations of eapol_port_timers_tick for this sm
  ghost          \* history, read by properties only

vars == <<pc, changed, after, auth_pae, be_auth, reauth_timer, auth_key_tx,
          timers, sm, sta, tick, ghost>>

-----------------------------------------------------------------------------
PaeStates == {"INITIALIZE", "DISCONNECTED", "CONNECTING", "AUTHENTICATING",
              "AUTHENTICATED", "ABORTING", "HELD"}
BeStates == {"REQUEST", "RESPONSE", "SUCCESS", "FAIL", "TIMEOUT", "IDLE",
             "INITIALIZE"}
Codes == {"ACCEPT", "REJECT", "CHALLENGE"}

\* absent: no such station; frame: the station was created for a frame that is
\* still to be handled; idle: in eloop_run; otherwise inside eapol_sm_step,
\* about to run the named machine or, at while, to test the loop condition.
InStep == {"AUTH_PAE", "BE_AUTH", "REAUTH_TIMER", "AUTH_KEY_TX", "while"}
Places == {"absent", "frame", "idle"} \cup InStep

\* deassert, enable: inside eapol_sm_initialize; again: a second eapol_sm_step
\* follows; rearm: the tick registers itself again; free: Ap_free_sta follows.
Continuations == {"deassert", "enable", "again", "return", "rearm", "free"}

PaeRecord == [state : PaeStates, eapLogoff : BOOLEAN, eapStart : BOOLEAN,
              rxInitialRsp : BOOLEAN, reAuthCount : Nat]
BeRecord == [state : BeStates, rxResp : BOOLEAN, aSuccess : BOOLEAN,
             aFail : BOOLEAN, aReq : BOOLEAN, reqCount : Nat,
             suppTimeout : Nat]
ReauthRecord == [state : {"INITIALIZE", "REAUTHENTICATE"}, reAuthPeriod : Nat]
TimerRecord == [aWhile : Nat, quietWhile : Nat, reAuthWhen : Nat, txWhen : Nat]
SmRecord == [initialize : BOOLEAN, portEnabled : BOOLEAN,
             portStatus : {"Unauthorized", "Authorized"},
             authStart : BOOLEAN, authSuccess : BOOLEAN, authFail : BOOLEAN,
             authTimeout : BOOLEAN, authAbort : BOOLEAN,
             reAuthenticate : BOOLEAN, keyAvailable : BOOLEAN]
StaRecord == [pending : BOOLEAN, lastRecv : Codes \cup {"none"}]
GhostRecord == [verdict : Codes \cup {"none"}, answers : BOOLEAN,
                withState : BOOLEAN, isReply : BOOLEAN]

TypeOK ==
  /\ pc \in Places
  /\ changed \in BOOLEAN
  /\ after \in Continuations
  /\ auth_pae \in PaeRecord
  /\ be_auth \in BeRecord
  /\ reauth_timer \in ReauthRecord
  /\ auth_key_tx \in {"NO_KEY_TRANSMIT", "KEY_TRANSMIT"}
  /\ timers \in TimerRecord
  /\ sm \in SmRecord
  /\ sta \in StaRecord
  /\ tick \in Nat
  /\ ghost \in GhostRecord

-----------------------------------------------------------------------------
(* eapol_sm_alloc: the memset and the assignments that follow it.          *)
NewPae == [state |-> "INITIALIZE", eapLogoff |-> FALSE, eapStart |-> FALSE,
           rxInitialRsp |-> FALSE, reAuthCount |-> 0]
NewBe == [state |-> "INITIALIZE", rxResp |-> FALSE, aSuccess |-> FALSE,
          aFail |-> FALSE, aReq |-> FALSE, reqCount |-> 0,
          suppTimeout |-> DefaultSuppTimeout]
NewReauth == [state |-> "INITIALIZE", reAuthPeriod |-> DefaultReAuthPeriod]
NewTimers == [aWhile |-> 0, quietWhile |-> 0, reAuthWhen |-> 0, txWhen |-> 0]
NewSm == [initialize |-> TRUE, portEnabled |-> FALSE,
          portStatus |-> "Unauthorized",
          authStart |-> FALSE, authSuccess |-> FALSE, authFail |-> FALSE,
          authTimeout |-> FALSE, authAbort |-> FALSE,
          reAuthenticate |-> FALSE, keyAvailable |-> FALSE]
NewSta == [pending |-> FALSE, lastRecv |-> "none"]

\* History.  verdict: the server's answer to the latest request of this
\* authentication, if it came while the Backend still waited for it.
\* answers: last_eap_supp is the supplicant's response to the challenge held in
\* last_recv_radius.  withState, isReply: whether the latest Access-Request
\* carried a State attribute, and whether it was a reply to a challenge.
NewGhost == [verdict |-> "none", answers |-> FALSE, withState |-> FALSE,
             isReply |-> FALSE]

\* reAuthEnabled is TRUE by default and never assigned anything else.
reAuthEnabled == TRUE

FreshStation ==
  /\ auth_pae = NewPae /\ be_auth = NewBe /\ reauth_timer = NewReauth
  /\ auth_key_tx = "NO_KEY_TRANSMIT" /\ timers = NewTimers /\ sm = NewSm
  /\ sta = NewSta /\ ghost = NewGhost

Init ==
  /\ pc = "absent" /\ changed = FALSE /\ after = "return" /\ tick = 0
  /\ FreshStation

-----------------------------------------------------------------------------
(* SM_STEP(AUTH_PAE): the state it enters, or "stay".                      *)
FromConnecting ==
  IF auth_pae.eapLogoff \/ auth_pae.reAuthCount > reAuthMax
  THEN "DISCONNECTED"
  ELSE IF auth_pae.rxInitialRsp THEN "AUTHENTICATING"
  ELSE IF timers.txWhen = 0 \/ auth_pae.eapStart \/ sm.reAuthenticate
  THEN "CONNECTING" ELSE "stay"

\* Mutant: a logoff is not looked at.
FromAuthenticatedNoLogoff ==
  IF auth_pae.eapStart \/ sm.reAuthenticate THEN "CONNECTING" ELSE "stay"

FromAuthenticated ==
  IF auth_pae.eapStart \/ sm.reAuthenticate THEN "CONNECTING"
  ELSE IF auth_pae.eapLogoff THEN "DISCONNECTED" ELSE "stay"

FromAuthenticating ==
  IF sm.authSuccess THEN "AUTHENTICATED"
  ELSE IF sm.authFail THEN "HELD"
  ELSE IF sm.reAuthenticate \/ auth_pae.eapStart \/ auth_pae.eapLogoff
          \/ sm.authTimeout
  THEN "ABORTING" ELSE "stay"

FromAborting ==
  IF sm.authAbort THEN "stay"
  ELSE IF auth_pae.eapLogoff THEN "DISCONNECTED" ELSE "CONNECTING"

PaeTarget ==
  IF sm.initialize \/ ~sm.portEnabled THEN "INITIALIZE"
  ELSE CASE auth_pae.state = "INITIALIZE" -> "DISCONNECTED"
         [] auth_pae.state = "DISCONNECTED" -> "CONNECTING"
         [] auth_pae.state = "HELD" ->
              IF timers.quietWhile = 0 THEN "CONNECTING" ELSE "stay"
         [] auth_pae.state = "CONNECTING" -> FromConnecting
         [] auth_pae.state = "AUTHENTICATED" -> FromAuthenticated
         [] auth_pae.state = "AUTHENTICATING" -> FromAuthenticating
         [] auth_pae.state = "ABORTING" -> FromAborting

\* SM_ENTER(AUTH_PAE, s), and the loop goes on to the Backend.
PaeEnters(s) ==
  /\ pc = "AUTH_PAE" /\ PaeTarget = s
  /\ pc' = "BE_AUTH"
  /\ changed' = (changed \/ s \notin {auth_pae.state, "stay"})
  /\ UNCHANGED <<after, be_auth, reauth_timer, auth_key_tx, tick>>

PaeStays ==
  /\ PaeEnters("stay")
  /\ UNCHANGED <<auth_pae, timers, sm, sta, ghost>>

PaeInitialize ==
  /\ PaeEnters("INITIALIZE")
  /\ auth_pae' = [auth_pae EXCEPT !.state = "INITIALIZE"]
  /\ UNCHANGED <<timers, sm, sta, ghost>>

PaeDisconnected ==
  /\ PaeEnters("DISCONNECTED")
  /\ auth_pae' = [auth_pae EXCEPT !.state = "DISCONNECTED",
                                  !.eapLogoff = FALSE, !.reAuthCount = 0]
  /\ sm' = [sm EXCEPT !.portStatus = "Unauthorized"]
  /\ UNCHANGED <<timers, sta, ghost>>

\* Mutant: reAuthCount is not incremented.
ConnectingEntryUncounted(p) ==
  [p EXCEPT !.state = "CONNECTING", !.eapStart = FALSE,
            !.rxInitialRsp = FALSE]

ConnectingEntry(p) ==
  [p EXCEPT !.state = "CONNECTING", !.eapStart = FALSE,
            !.rxInitialRsp = FALSE, !.reAuthCount = p.reAuthCount + 1]

\* ieee802_1x_request_identity starts with ieee802_1x_new_auth_session.
NewAuthSession(s) == [s EXCEPT !.lastRecv = "none"]

PaeConnecting ==
  /\ PaeEnters("CONNECTING")
  /\ auth_pae' = ConnectingEntry(auth_pae)
  /\ sm' = [sm EXCEPT !.reAuthenticate = FALSE]
  /\ timers' = [timers EXCEPT !.txWhen = txPeriod]
  /\ sta' = NewAuthSession(sta)
  /\ UNCHANGED ghost

\* Mutant: the port keeps its status.
PaeHeldKeepsPort ==
  /\ PaeEnters("HELD")
  /\ auth_pae' = [auth_pae EXCEPT !.state = "HELD", !.eapLogoff = FALSE]
  /\ timers' = [timers EXCEPT !.quietWhile = quietPeriod]
  /\ UNCHANGED <<sm, sta, ghost>>

PaeHeld ==
  /\ PaeEnters("HELD")
  /\ auth_pae' = [auth_pae EXCEPT !.state = "HELD", !.eapLogoff = FALSE]
  /\ sm' = [sm EXCEPT !.portStatus = "Unauthorized"]
  /\ timers' = [timers EXCEPT !.quietWhile = quietPeriod]
  /\ UNCHANGED <<sta, ghost>>

PaeAuthenticated ==
  /\ PaeEnters("AUTHENTICATED")
  /\ auth_pae' = [auth_pae EXCEPT !.state = "AUTHENTICATED", !.reAuthCount = 0]
  /\ sm' = [sm EXCEPT !.portStatus = "Authorized"]
  /\ UNCHANGED <<timers, sta, ghost>>

AuthenticatingEntry(s) ==
  [s EXCEPT !.authSuccess = FALSE, !.authFail = FALSE,
            !.authTimeout = FALSE, !.authStart = TRUE]

PaeAuthenticating ==
  /\ PaeEnters("AUTHENTICATING")
  /\ auth_pae' = [auth_pae EXCEPT !.state = "AUTHENTICATING"]
  /\ sm' = AuthenticatingEntry(sm)
  /\ ghost' = [ghost EXCEPT !.verdict = "none"]
  /\ UNCHANGED <<timers, sta>>

AbortingEntry(s) == [s EXCEPT !.authAbort = TRUE]

PaeAborting ==
  /\ PaeEnters("ABORTING")
  /\ auth_pae' = [auth_pae EXCEPT !.state = "ABORTING"]
  /\ sm' = AbortingEntry(sm)
  /\ UNCHANGED <<timers, sta, ghost>>

AuthPaeStep ==
  \/ PaeStays \/ PaeInitialize \/ PaeDisconnected \/ PaeConnecting
  \/ PaeHeld \/ PaeAuthenticated \/ PaeAuthenticating \/ PaeAborting

-----------------------------------------------------------------------------
(* SM_STEP(BE_AUTH)                                                        *)
FromRequest ==
  IF timers.aWhile = 0 /\ be_auth.reqCount # maxReq THEN "REQUEST"
  ELSE IF be_auth.rxResp THEN "RESPONSE"
  ELSE IF timers.aWhile = 0 /\ be_auth.reqCount >= maxReq
  THEN "TIMEOUT" ELSE "stay"

FromResponse ==
  IF be_auth.aReq THEN "REQUEST"
  ELSE IF timers.aWhile = 0 THEN "TIMEOUT"
  ELSE IF be_auth.aFail THEN "FAIL"
  ELSE IF be_auth.aSuccess THEN "SUCCESS" ELSE "stay"

BeTarget ==
  IF sm.initialize \/ sm.authAbort THEN "INITIALIZE"
  ELSE CASE be_auth.state \in {"INITIALIZE", "SUCCESS", "FAIL", "TIMEOUT"} ->
              "IDLE"
         [] be_auth.state = "REQUEST" -> FromRequest
         [] be_auth.state = "RESPONSE" -> FromResponse
         [] be_auth.state = "IDLE" ->
              IF sm.authStart THEN "RESPONSE" ELSE "stay"

BeEnters(s) ==
  /\ pc = "BE_AUTH" /\ BeTarget = s
  /\ pc' = "REAUTH_TIMER"
  /\ changed' = (changed \/ s \notin {be_auth.state, "stay"})
  /\ UNCHANGED <<after, auth_pae, reauth_timer, auth_key_tx, tick>>

BeStays ==
  /\ BeEnters("stay")
  /\ UNCHANGED <<be_auth, timers, sm, sta, ghost>>

BeInitialize ==
  /\ BeEnters("INITIALIZE")
  /\ be_auth' = [be_auth EXCEPT !.state = "INITIALIZE"]
  /\ sm' = [sm EXCEPT !.authAbort = FALSE]
  /\ UNCHANGED <<timers, sta, ghost>>

RequestEntry(b) == [b EXCEPT !.state = "REQUEST", !.reqCount = b.reqCount + 1]

BeRequest ==
  /\ BeEnters("REQUEST")
  /\ be_auth' = RequestEntry(be_auth)
  /\ timers' = [timers EXCEPT !.aWhile = be_auth.suppTimeout]
  /\ UNCHANGED <<sm, sta, ghost>>

\* Mutants: an old aSuccess, or the old reqCount, survives the new request.
ResponseEntryKeepsSuccess(b) ==
  [b EXCEPT !.state = "RESPONSE", !.aReq = FALSE,
            !.rxResp = FALSE, !.aFail = FALSE, !.reqCount = 0]
ResponseEntryKeepsCount(b) ==
  [b EXCEPT !.state = "RESPONSE", !.aReq = FALSE, !.aSuccess = FALSE,
            !.rxResp = FALSE, !.aFail = FALSE]

ResponseEntry(b) ==
  [b EXCEPT !.state = "RESPONSE", !.aReq = FALSE, !.aSuccess = FALSE,
            !.rxResp = FALSE, !.aFail = FALSE, !.reqCount = 0]

\* sendRespToServer: ieee802_1x_encapsulate_radius takes a new identifier and
\* copies State if the last reply received was an Access-Challenge.
BeResponse ==
  /\ BeEnters("RESPONSE")
  /\ be_auth' = ResponseEntry(be_auth)
  /\ sm' = [sm EXCEPT !.authTimeout = FALSE]
  /\ timers' = [timers EXCEPT !.aWhile = serverTimeout]
  /\ sta' = [sta EXCEPT !.pending = TRUE]
  /\ ghost' = [ghost EXCEPT !.withState = (sta.lastRecv = "CHALLENGE"),
                            !.isReply = ghost.answers,
                            !.verdict = "none"]

BeSuccess ==
  /\ BeEnters("SUCCESS")
  /\ be_auth' = [be_auth EXCEPT !.state = "SUCCESS"]
  /\ sm' = [sm EXCEPT !.authSuccess = TRUE]
  /\ UNCHANGED <<timers, sta, ghost>>

BeFail ==
  /\ BeEnters("FAIL")
  /\ be_auth' = [be_auth EXCEPT !.state = "FAIL"]
  /\ sm' = [sm EXCEPT !.authFail = TRUE]
  /\ UNCHANGED <<timers, sta, ghost>>

\* Mutant: the PAE is not told.
TimeoutEntrySilent(s) == s

TimeoutEntry(s) == [s EXCEPT !.authTimeout = TRUE]

BeTimeout ==
  /\ BeEnters("TIMEOUT")
  /\ be_auth' = [be_auth EXCEPT !.state = "TIMEOUT"]
  /\ sm' = TimeoutEntry(sm)
  /\ UNCHANGED <<timers, sta, ghost>>

IdleEntry(s) == [s EXCEPT !.authStart = FALSE]

BeIdle ==
  /\ BeEnters("IDLE")
  /\ be_auth' = [be_auth EXCEPT !.state = "IDLE", !.reqCount = 0]
  /\ sm' = IdleEntry(sm)
  /\ UNCHANGED <<timers, sta, ghost>>

BeAuthStep ==
  \/ BeStays \/ BeInitialize \/ BeRequest \/ BeResponse \/ BeSuccess
  \/ BeFail \/ BeTimeout \/ BeIdle

-----------------------------------------------------------------------------
(* SM_STEP(REAUTH_TIMER)                                                   *)
ReauthTarget ==
  IF sm.initialize \/ sm.portStatus = "Unauthorized" \/ ~reAuthEnabled
     \/ reauth_timer.state = "REAUTHENTICATE"
  THEN "INITIALIZE"
  ELSE IF timers.reAuthWhen = 0 THEN "REAUTHENTICATE" ELSE "stay"

ReauthEnters(s) ==
  /\ pc = "REAUTH_TIMER" /\ ReauthTarget = s
  /\ pc' = "AUTH_KEY_TX"
  /\ changed' = (changed \/ s \notin {reauth_timer.state, "stay"})
  /\ UNCHANGED <<after, auth_pae, be_auth, auth_key_tx, sta, tick, ghost>>

ReauthStays == ReauthEnters("stay") /\ UNCHANGED <<reauth_timer, timers, sm>>

ReauthInitialize ==
  /\ ReauthEnters("INITIALIZE")
  /\ reauth_timer' = [reauth_timer EXCEPT !.state = "INITIALIZE"]
  /\ timers' = [timers EXCEPT !.reAuthWhen = reauth_timer.reAuthPeriod]
  /\ UNCHANGED sm

ReauthReauthenticate ==
  /\ ReauthEnters("REAUTHENTICATE")
  /\ reauth_timer' = [reauth_timer EXCEPT !.state = "REAUTHENTICATE"]
  /\ sm' = [sm EXCEPT !.reAuthenticate = TRUE]
  /\ UNCHANGED timers

ReauthTimerStep == ReauthStays \/ ReauthInitialize \/ ReauthReauthenticate

-----------------------------------------------------------------------------
(* SM_STEP(AUTH_KEY_TX), keyTxEnabled being TRUE                           *)
KeyTxTarget ==
  IF sm.initialize THEN "NO_KEY_TRANSMIT"
  ELSE IF auth_key_tx = "NO_KEY_TRANSMIT"
  THEN IF sm.keyAvailable /\ sm.authSuccess THEN "KEY_TRANSMIT" ELSE "stay"
  ELSE IF sm.authFail \/ auth_pae.eapLogoff THEN "NO_KEY_TRANSMIT"
  ELSE IF sm.keyAvailable THEN "KEY_TRANSMIT" ELSE "stay"

KeyTxEnters(s) ==
  /\ pc = "AUTH_KEY_TX" /\ KeyTxTarget = s
  /\ pc' = "while"
  /\ changed' = (changed \/ s \notin {auth_key_tx, "stay"})
  /\ UNCHANGED <<after, auth_pae, be_auth, reauth_timer, timers, sta, tick,
                 ghost>>

KeyTxStays == KeyTxEnters("stay") /\ UNCHANGED <<auth_key_tx, sm>>

KeyTxNoKeyTransmit ==
  /\ KeyTxEnters("NO_KEY_TRANSMIT")
  /\ auth_key_tx' = "NO_KEY_TRANSMIT"
  /\ UNCHANGED sm

KeyTxKeyTransmit ==
  /\ KeyTxEnters("KEY_TRANSMIT")
  /\ auth_key_tx' = "KEY_TRANSMIT"
  /\ sm' = [sm EXCEPT !.keyAvailable = FALSE]

AuthKeyTxStep == KeyTxStays \/ KeyTxNoKeyTransmit \/ KeyTxKeyTransmit

-----------------------------------------------------------------------------
(* The end of a pass of eapol_sm_step's loop, and the rest of the handler. *)
machines == <<auth_pae, be_auth, reauth_timer, auth_key_tx, timers>>

RunStep(k) == pc' = "AUTH_PAE" /\ changed' = FALSE /\ after' = k

LoopAgain ==
  /\ pc = "while" /\ changed
  /\ RunStep(after)
  /\ UNCHANGED <<machines, sm, sta, tick, ghost>>

StepReturns(k) == pc = "while" /\ ~changed /\ after = k

\* eapol_sm_initialize: initialize is deasserted after the first run.
Deassert ==
  /\ StepReturns("deassert")
  /\ sm' = [sm EXCEPT !.initialize = FALSE]
  /\ RunStep("enable")
  /\ UNCHANGED <<machines, sta, tick, ghost>>

\* The tick is registered and ieee802_1x_new_station sets portEnabled, without
\* running the machines.
Enable ==
  /\ StepReturns("enable")
  /\ sm' = [sm EXCEPT !.portEnabled = TRUE]
  /\ tick' = 1
  /\ pc' = "frame"
  /\ UNCHANGED <<changed, after, machines, sta, ghost>>

Again ==
  /\ StepReturns("again")
  /\ RunStep("return")
  /\ UNCHANGED <<machines, sm, sta, tick, ghost>>

Return ==
  /\ StepReturns("return")
  /\ pc' = "idle"
  /\ UNCHANGED <<changed, after, machines, sm, sta, tick, ghost>>

\* Mutant: the tick is not registered again.
RearmForgotten ==
  /\ StepReturns("rearm")
  /\ pc' = "idle"
  /\ UNCHANGED <<changed, after, machines, sm, sta, tick, ghost>>

\* The end of eapol_port_timers_tick.
Rearm ==
  /\ StepReturns("rearm")
  /\ pc' = "idle"
  /\ tick' = tick + 1
  /\ UNCHANGED <<changed, after, machines, sm, sta, ghost>>

\* Mutant: the tick is not cancelled.
FreeStationKeepsTick ==
  /\ pc' = "absent" /\ changed' = FALSE /\ after' = "return"
  /\ UNCHANGED tick
  /\ auth_pae' = NewPae /\ be_auth' = NewBe /\ reauth_timer' = NewReauth
  /\ auth_key_tx' = "NO_KEY_TRANSMIT" /\ timers' = NewTimers /\ sm' = NewSm
  /\ sta' = NewSta /\ ghost' = NewGhost

\* Ap_free_sta: eapol_sm_free cancels the tick, the station's memory is gone.
\* What an absent station's variables hold is what the next one starts from.
FreeStation ==
  /\ pc' = "absent" /\ changed' = FALSE /\ after' = "return"
  /\ tick' = 0
  /\ auth_pae' = NewPae /\ be_auth' = NewBe /\ reauth_timer' = NewReauth
  /\ auth_key_tx' = "NO_KEY_TRANSMIT" /\ timers' = NewTimers /\ sm' = NewSm
  /\ sta' = NewSta /\ ghost' = NewGhost

FreeAfterAccept == StepReturns("free") /\ FreeStation

StepLoop ==
  \/ AuthPaeStep \/ BeAuthStep \/ ReauthTimerStep \/ AuthKeyTxStep
  \/ LoopAgain \/ Deassert \/ Enable \/ Again \/ Return \/ Rearm
  \/ FreeAfterAccept

-----------------------------------------------------------------------------
(* Handlers                                                                *)

\* Ap_get_sta finds no station for the frame's source and creates it:
\* ieee802_1x_new_station, eapol_sm_alloc, eapol_sm_initialize.
NewStation ==
  /\ pc = "absent"
  /\ RunStep("deassert")
  /\ UNCHANGED <<machines, sm, sta, tick, ghost>>

\* Mutant: a timer at zero is decremented.
DecBelowZero(n) == n - 1

\* eapol_port_timers_tick
Dec(n) == IF n > 0 THEN n - 1 ELSE 0

Tick ==
  /\ pc = "idle" /\ tick > 0
  /\ tick' = tick - 1
  /\ timers' = [t \in DOMAIN timers |-> Dec(timers[t])]
  /\ RunStep("rearm")
  /\ UNCHANGED <<auth_pae, be_auth, reauth_timer, auth_key_tx, sm, sta, ghost>>

\* ieee802_1x_receive: EAPOL-Start and EAPOL-Logoff run the machines twice.
Receives == pc \in {"idle", "frame"}

EapolStart ==
  /\ Receives
  /\ auth_pae' = [auth_pae EXCEPT !.eapStart = TRUE]
  /\ RunStep("again")
  /\ UNCHANGED <<be_auth, reauth_timer, auth_key_tx, timers, sm, sta, tick,
                 ghost>>

EapolLogoff ==
  /\ Receives
  /\ auth_pae' = [auth_pae EXCEPT !.eapLogoff = TRUE]
  /\ RunStep("again")
  /\ UNCHANGED <<be_auth, reauth_timer, auth_key_tx, timers, sm, sta, tick,
                 ghost>>

\* handle_eap_response: an EAP response whose identifier is currentId.
IdentityResponse ==
  /\ Receives
  /\ auth_pae' = [auth_pae EXCEPT !.rxInitialRsp = TRUE]
  /\ ghost' = [ghost EXCEPT !.answers = FALSE]
  /\ RunStep("return")
  /\ UNCHANGED <<be_auth, reauth_timer, auth_key_tx, timers, sm, sta, tick>>

OtherResponse ==
  /\ Receives
  /\ be_auth' = [be_auth EXCEPT !.rxResp = TRUE]
  /\ ghost' = [ghost EXCEPT !.answers = (be_auth.state = "REQUEST")]
  /\ RunStep("return")
  /\ UNCHANGED <<auth_pae, reauth_timer, auth_key_tx, timers, sm, sta, tick>>

\* Any other well-formed frame, such as a response with a wrong identifier,
\* sets no input, but the machines run.
OtherFrame ==
  /\ Receives
  /\ RunStep("return")
  /\ UNCHANGED <<machines, sm, sta, tick, ghost>>

\* A frame too short, or of an unsupported version: early return.
MalformedFrame ==
  /\ pc = "frame"
  /\ pc' = "idle"
  /\ UNCHANGED <<changed, after, machines, sm, sta, tick, ghost>>

Frame ==
  \/ EapolStart \/ EapolLogoff \/ IdentityResponse \/ OtherResponse
  \/ OtherFrame \/ MalformedFrame

\* Mutant: last_recv_radius is not replaced.
ReplyNotKept(code) ==
  /\ pc = "idle" /\ sta.pending
  /\ sta' = [sta EXCEPT !.pending = FALSE]
  /\ ghost' = [ghost EXCEPT
        !.verdict = IF be_auth.state = "RESPONSE" THEN code ELSE @,
        !.answers = (ghost.answers /\ code # "CHALLENGE")]
  /\ UNCHANGED <<auth_pae, auth_key_tx, timers, tick>>

\* ieee802_1x_receive_auth: a reply that Ap_get_sta_radius_identifier matches
\* with this station and that verifies.
Reply(code) ==
  /\ pc = "idle" /\ sta.pending
  /\ sta' = [pending |-> FALSE, lastRecv |-> code]
  /\ ghost' = [ghost EXCEPT
        !.verdict = IF be_auth.state = "RESPONSE" THEN code ELSE @,
        !.answers = (ghost.answers /\ code # "CHALLENGE")]
  /\ UNCHANGED <<auth_pae, auth_key_tx, timers, tick>>

\* Access-Accept.  keys: the reply carries MS-MPPE keys that the driver took
\* (ieee802_1x_get_keys).  Termination-Action RADIUS-Request makes the
\* Session-Timeout the reauthentication period; otherwise it, or the configured
\* one, becomes a session timer; with neither the station is freed in the end.
AccessAccept ==
  /\ Reply("ACCEPT")
  /\ be_auth' = [be_auth EXCEPT !.aSuccess = TRUE]
  /\ \E keys \in BOOLEAN :
        sm' = [sm EXCEPT !.keyAvailable = @ \/ keys]
  /\ \/ /\ \E t \in SessionTimeouts :
              reauth_timer' = [reauth_timer EXCEPT !.reAuthPeriod = t]
        /\ RunStep("return")
     \/ /\ SessionTimeoutSet \/ SessionTimeouts # {}
        /\ RunStep("return") /\ UNCHANGED reauth_timer
     \/ ~SessionTimeoutSet /\ RunStep("free") /\ UNCHANGED reauth_timer

AccessReject ==
  /\ Reply("REJECT")
  /\ be_auth' = [be_auth EXCEPT !.aFail = TRUE]
  /\ RunStep("return")
  /\ UNCHANGED <<sm, reauth_timer>>

AccessChallenge ==
  /\ Reply("CHALLENGE")
  /\ \E t \in SessionTimeouts \cup {be_auth.suppTimeout} :
        be_auth' = [be_auth EXCEPT !.aReq = TRUE, !.suppTimeout = t]
  /\ RunStep("return")
  /\ UNCHANGED <<sm, reauth_timer>>

\* DOT1X_DISCONNECT_ENTRY from the driver, or the stations freed by a reload.
Disconnect == pc = "idle" /\ FreeStation

Next ==
  \/ StepLoop \/ NewStation \/ Tick \/ Frame
  \/ AccessAccept \/ AccessReject \/ AccessChallenge \/ Disconnect

Spec == Init /\ [][Next]_vars

\* A call of eapol_sm_step runs on; eloop_run takes a due timeout before it
\* looks at the sockets, so frames cannot keep the tick from running.
Fairness ==
  /\ WF_vars(StepLoop \/ (pc = "frame" /\ Frame))
  /\ SF_vars(Tick)

FairSpec == Spec /\ Fairness
-----------------------------------------------------------------------------
(* Properties                                                              *)

\* SM_STATE(AUTH_PAE, AUTHENTICATED) is entered only on the strength of an
\* Access-Accept that answers the latest Access-Request of the current
\* authentication.  A reply that comes after the Backend gave up waiting leaves
\* aSuccess set; it never authorizes the port in a later authentication.
AuthorizedByAccept ==
  auth_pae.state = "AUTHENTICATED" => ghost.verdict = "ACCEPT"

\* Once the handler of a timely Access-Reject has returned, the port is
\* unauthorized, also when it was authorized before a reauthentication, and
\* it stays so until a new request is sent.
RejectRevokes ==
  pc = "idle" /\ ghost.verdict = "REJECT" => sm.portStatus = "Unauthorized"

\* Between handlers the PAE and the Backend agree: the Backend is at work
\* exactly while the PAE is AUTHENTICATING, no abort is left unanswered and
\* authStart is up exactly while the Backend is at work.
Lockstep ==
  pc = "idle" =>
    /\ be_auth.state \in IF auth_pae.state = "AUTHENTICATING"
                         THEN {"REQUEST", "RESPONSE"} ELSE {"IDLE"}
    /\ sm.authStart = (auth_pae.state = "AUTHENTICATING")
    /\ ~sm.authAbort

\* Between handlers every wait is guarded by a running timer, and the one tick
\* that counts the timers down is registered: no lost frame or reply can leave
\* a station waiting for ever.  (A zero Session-Timeout in an Access-Challenge
\* leaves aWhile at zero, which the next tick acts upon.)
EveryWaitTimed ==
  pc = "idle" =>
    /\ tick = 1
    /\ auth_pae.state = "CONNECTING" => timers.txWhen > 0
    /\ auth_pae.state = "HELD" => timers.quietWhile > 0
    /\ be_auth.state = "RESPONSE" => timers.aWhile > 0
    /\ be_auth.state = "REQUEST" =>
         timers.aWhile > 0 \/ be_auth.suppTimeout = 0
    /\ sm.portStatus = "Authorized" => timers.reAuthWhen > 0

\* eapol_port_timers_tick of a freed state machine is never left registered,
\* and no second one is registered beside the first.
TickOwned == tick <= 1 /\ (pc = "absent" => tick = 0)

\* Between handlers no request of the supplicant, nor of the reauthentication
\* timer, is left unserved, except in HELD, which keeps them for later.
InputsServed ==
  pc = "idle" /\ auth_pae.state \notin {"HELD", "INITIALIZE"} =>
    ~auth_pae.eapStart /\ ~auth_pae.eapLogoff /\ ~sm.reAuthenticate

\* The retry counters stop where their tests expect them: reqCount is compared
\* with maxReq by # and must not step over it; reAuthCount passes reAuthMax by
\* one at most.
RetriesBounded ==
  /\ be_auth.reqCount <= maxReq
  /\ auth_pae.reAuthCount <= reAuthMax + 1

\* An Access-Request that forwards the response to a challenge carries that
\* challenge's State (ieee802_1x_encapsulate_radius).
ReplyCarriesState == ghost.isReply => ghost.withState

\* Every call of eapol_sm_step returns: the four machines cannot chase each
\* other for ever, whatever Session-Timeout the server sends, zero included.
StepTerminates == pc \in InStep ~> pc \notin InStep

\* An authorized station in reauthentication either succeeds or loses the
\* port, even if neither the supplicant nor the server ever answers.
ReauthConcludes ==
  sm.portStatus = "Authorized" /\ auth_pae.state # "AUTHENTICATED" ~>
    sm.portStatus = "Unauthorized" \/ auth_pae.state = "AUTHENTICATED"

\* What the comment in ieee802_1x_encapsulate_radius says: "State attribute
\* must be copied if and only if this packet is Access-Request reply to the
\* previous Access-Challenge".  The only-if half does not hold.
StateOnlyOnReply == ghost.withState => ghost.isReply

\* What the README says of session_timeout_interval = 0: "will disable
\* reauthenticate service".  It does not, even where the server has not asked
\* for reauthentication with a period of its own.
ZeroDisablesReauth ==
  ~SessionTimeoutSet /\ reauth_timer.reAuthPeriod = DefaultReAuthPeriod =>
    reauth_timer.state # "REAUTHENTICATE"

\* The authenticator keeps the promise of PortAccess: whatever frames, replies,
\* time-outs and disconnects come in whatever order, the port opens only on the
\* timely Access-Accept of the latest request, a request is answered once, and
\* no authentication that was rejected is followed by another with the port
\* still open from the session before.
Port == INSTANCE PortAccess WITH port <- sm.portStatus,
                                 verdict <- ghost.verdict

ImplementsPortAccess == Port!Spec
=============================================================================
