---------------------------- MODULE RadiusClient ----------------------------
(***************************************************************************)
(* The RADIUS client of radius_client.c: the list of requests waiting for  *)
(* a reply, their retransmission with exponential backoff, the change of   *)
(* server after repeated failures and back to the primary one, and the     *)
(* reload of the configuration; with the part of sta_info.c that assigns   *)
(* a reply to a station by its radius_identifier.                          *)
(*                                                                         *)
(* The handlers of eloop_run are atomic with respect to each other.  Only  *)
(* Radius_client_timer is split: one TLA+ step is one pass of its while    *)
(* loop, and nothing else is enabled until the handler returns.            *)
(*                                                                         *)
(* Time is in seconds.  A field holds how long it still is until an        *)
(* absolute time of the code, never less than zero, as the code only       *)
(* compares such a time with now.  A configuration gives each BSS its      *)
(* servers, and of a server only its shared secret.                        *)
(***************************************************************************)
EXTENDS Integers, SequencesExt

CONSTANTS
  Sta,          \* station addresses
  Ap,           \* indexes of the BSSs (ApIdx)
  Secrets,      \* shared secrets
  Confs,        \* configurations: the secrets of each BSS's servers, in order
  IdMod,        \* 256: identifiers are u8
  MaxEntries,   \* RADIUS_CLIENT_MAX_ENTRIES
  MaxRetries,   \* RADIUS_CLIENT_MAX_RETRIES
  NumFailover,  \* RADIUS_CLIENT_NUM_FAILOVER
  FirstWait,    \* RADIUS_CLIENT_FIRST_WAIT
  MaxWait,      \* RADIUS_CLIENT_MAX_WAIT
  MaxTimers     \* model bound: registrations of Radius_client_timer

ASSUME ConstantsAssumption ==
  /\ Confs \subseteq [Ap -> Seq(Secrets)]
  /\ \A c \in Confs, a \in Ap : c[a] # <<>>
  /\ IdMod \in Nat \ {0}
  /\ MaxEntries \in Nat \ {0}
  /\ MaxRetries \in Nat \ {0}
  /\ NumFailover \in Nat
  /\ FirstWait \in Nat \ {0}
  /\ MaxWait \in Nat /\ 2 * FirstWait <= MaxWait

VARIABLES
  msgs,      \* radius->msgs, the newest request first
  num_msgs,  \* radius->num_msgs
  next_id,   \* radius->next_radius_identifier
  timers,    \* registrations of Radius_client_timer by the seconds left
  conf,      \* rtapd->conf
  server,    \* conf->mbss_auth_server[ApIdx], as an index
  sta_list,  \* the stations, the newest first
  entry,     \* Radius_client_timer's entry as an index; 0: in eloop_run
  failover   \* its mbss_auth_failover: the BSSs counted so far

vars == <<msgs, num_msgs, next_id, timers, conf, server, sta_list, entry,
          failover>>

-----------------------------------------------------------------------------
Ids == 0 .. IdMod - 1
Delays == 0 .. MaxWait

\* radius_msg_list.  sta is the Calling-Station-Id in the message, age the time
\* since first_try as far as it matters.
MsgRecord == [id : Ids, sta : Sta, ap : Ap, secret : Secrets, attempts : Nat,
              wait : Delays, backoff : Delays, age : 0 .. FirstWait]
StaRecord == [addr : Sta, ap : Ap, radius_identifier : Ids \cup {-1}]

TypeOK ==
  /\ msgs \in Seq(MsgRecord)
  /\ num_msgs \in Nat
  /\ next_id \in Ids
  /\ timers \in [Delays -> Nat]
  /\ conf \in Confs
  /\ server \in [Ap -> Nat \ {0}] /\ \A a \in Ap : server[a] <= Len(conf[a])
  /\ sta_list \in Seq(StaRecord)
  /\ entry \in 0 .. Len(msgs) + 1
  /\ failover \subseteq Ap

NoTimers == [d \in Delays |-> 0]
Register(ts, d) == [ts EXCEPT ![d] = ts[d] + 1]
Registered == MapThenSumSet(LAMBDA d : timers[d], Delays)

Primary == [a \in Ap |-> 1]

Init ==
  /\ msgs = <<>> /\ num_msgs = 0 /\ next_id = 0 /\ timers = NoTimers
  /\ conf \in Confs /\ server = Primary
  /\ sta_list = <<>> /\ entry = 0 /\ failover = {}

InEloop == entry = 0

-----------------------------------------------------------------------------
(* The stations, as far as they concern the client.                        *)
stations == <<next_id, sta_list>>
client == <<msgs, num_msgs, timers, conf, server, entry, failover>>

\* Ap_get_sta for an unknown address.
Ap_get_sta(a, ap) ==
  /\ InEloop
  /\ \A k \in DOMAIN sta_list : sta_list[k].addr # a
  /\ sta_list' = <<[addr |-> a, ap |-> ap, radius_identifier |-> -1]>>
                   \o sta_list
  /\ UNCHANGED <<next_id, client>>

\* Ap_free_sta does not touch the station's requests.
Ap_free_sta(k) ==
  /\ InEloop
  /\ sta_list' = RemoveAt(sta_list, k)
  /\ UNCHANGED <<next_id, client>>

-----------------------------------------------------------------------------
(* ieee802_1x_encapsulate_radius, Radius_client_send                       *)

\* Mutant: the request with the same identifier stays.
RemovedNothing(q, id) == q

\* Radius_client_get_id removes the request that has the same identifier.
\* At most one has (UniqueIds); of two neighbours its loop would unlink the
\* second by writing to the first, which it has just freed.
Removed(q, id) ==
  IF \E i \in DOMAIN q : q[i].id = id
  THEN RemoveAt(q, CHOOSE i \in DOMAIN q : q[i].id = id) ELSE q

\* Mutant: the counter is wider than the identifier.
GetIdWide(k) ==
  /\ next_id' = next_id + 1
  /\ sta_list' = [sta_list EXCEPT ![k].radius_identifier = next_id]

GetId(k) ==
  /\ next_id' = (next_id + 1) % IdMod
  /\ sta_list' = [sta_list EXCEPT ![k].radius_identifier = next_id]

NewEntry(s) ==
  [id |-> next_id, sta |-> s.addr, ap |-> s.ap,
   secret |-> conf[s.ap][server[s.ap]], attempts |-> 1, wait |-> FirstWait,
   backoff |-> 2 * FirstWait, age |-> 0]

\* Mutant: the limit is tested with > instead of >=.
ListAddOneMore(q, e) ==
  /\ timers' = IF q = <<>> THEN Register(timers, FirstWait) ELSE timers
  /\ IF num_msgs > MaxEntries
     THEN /\ msgs' = IF q = <<>> THEN <<e>> ELSE <<e>> \o Front(q)
          /\ UNCHANGED num_msgs
     ELSE /\ msgs' = <<e>> \o q
          /\ num_msgs' = num_msgs + 1

\* Radius_client_list_add on the list q.
ListAdd(q, e) ==
  /\ timers' = IF q = <<>> THEN Register(timers, FirstWait) ELSE timers
  /\ IF num_msgs >= MaxEntries
     THEN /\ msgs' = IF q = <<>> THEN <<e>> ELSE <<e>> \o Front(q)
          /\ UNCHANGED num_msgs
     ELSE /\ msgs' = <<e>> \o q
          /\ num_msgs' = num_msgs + 1

Radius_client_send(k) ==
  /\ InEloop /\ Registered < MaxTimers
  /\ GetId(k)
  /\ ListAdd(Removed(msgs, next_id), NewEntry(sta_list[k]))
  /\ UNCHANGED <<conf, server, entry, failover>>

\* The message cannot be built, or the list has no memory for it.
SendFails(k) ==
  /\ InEloop
  /\ GetId(k)
  /\ msgs' = Removed(msgs, next_id)
  /\ UNCHANGED <<num_msgs, timers, conf, server, entry, failover>>

-----------------------------------------------------------------------------
(* Radius_change_server, for every BSS whose server is no longer new[a].   *)
Flush ==
  /\ msgs' = <<>> /\ num_msgs' = 0 /\ timers' = NoTimers

ResetEntry(e) ==
  [e EXCEPT !.wait = FirstWait - e.age, !.attempts = 0,
            !.backoff = 2 * FirstWait]

\* Mutant: the secrets are not compared.
SecretChangesIgnored(new) == FALSE

SecretChanges(new) == \E a \in Ap : conf[a][new[a]] # conf[a][server[a]]

\* Mutant: the timeout is cancelled but not registered again.
ChangeServerUntimed(new, ts) ==
  /\ server' = new
  /\ \/ SecretChanges(new) /\ Flush
     \/ /\ ~SecretChanges(new)
        /\ new # server /\ msgs # <<>>
        /\ msgs' = [i \in DOMAIN msgs |-> ResetEntry(msgs[i])]
        /\ timers' = NoTimers
        /\ UNCHANGED num_msgs
     \/ /\ new = server \/ (~SecretChanges(new) /\ msgs = <<>>)
        /\ timers' = ts
        /\ UNCHANGED <<msgs, num_msgs>>

\* ts: the timers registered when it is called.
ChangeServer(new, ts) ==
  /\ server' = new
  /\ \/ SecretChanges(new) /\ Flush
     \/ /\ ~SecretChanges(new)
        /\ new # server /\ msgs # <<>>
        /\ msgs' = [i \in DOMAIN msgs |-> ResetEntry(msgs[i])]
        /\ timers' = Register(NoTimers, FirstWait)
        /\ UNCHANGED num_msgs
     \/ /\ new = server \/ (~SecretChanges(new) /\ msgs = <<>>)
        /\ timers' = ts
        /\ UNCHANGED <<msgs, num_msgs>>

-----------------------------------------------------------------------------
(* Radius_client_timer                                                     *)
TimerFires ==
  /\ InEloop /\ timers[0] > 0
  /\ timers' = [timers EXCEPT ![0] = timers[0] - 1]
  /\ entry' = IF msgs = <<>> THEN 0 ELSE 1
  /\ UNCHANGED <<msgs, num_msgs, conf, server, failover, stations>>

\* Mutant: attempts is not incremented.
RetransmitUncounted(e) ==
  [e EXCEPT !.wait = e.backoff,
            !.backoff = IF 2 * e.backoff > MaxWait
                        THEN MaxWait ELSE 2 * e.backoff]

\* Radius_client_retransmit
Retransmit(e) ==
  [e EXCEPT !.attempts = e.attempts + 1, !.wait = e.backoff,
            !.backoff = IF 2 * e.backoff > MaxWait
                        THEN MaxWait ELSE 2 * e.backoff]

Visited(e) == IF e.wait = 0 THEN Retransmit(e) ELSE e

GivenUp(e) == e.wait = 0 /\ Retransmit(e).attempts >= MaxRetries

RemoveEntry ==
  /\ entry \in DOMAIN msgs /\ GivenUp(msgs[entry])
  /\ msgs' = RemoveAt(msgs, entry)
  /\ num_msgs' = num_msgs - 1
  /\ UNCHANGED <<timers, conf, server, entry, failover, stations>>

KeepEntry ==
  /\ entry \in DOMAIN msgs /\ ~GivenUp(msgs[entry])
  /\ msgs' = [msgs EXCEPT ![entry] = Visited(msgs[entry])]
  /\ failover' = IF Visited(msgs[entry]).attempts > NumFailover
                 THEN failover \cup {msgs[entry].ap} ELSE failover
  /\ entry' = entry + 1
  /\ UNCHANGED <<num_msgs, timers, conf, server, stations>>

\* first - now, where first is the earliest next_try left.
FirstTry(d) ==
  IF msgs = <<>> THEN d = 0
  ELSE /\ \E i \in DOMAIN msgs : msgs[i].wait = d
       /\ \A i \in DOMAIN msgs : d <= msgs[i].wait

NextServer(a) == IF server[a] < Len(conf[a]) THEN server[a] + 1 ELSE 1

\* A BSS that failed often enough moves on, if it has another server.
AfterFailover ==
  [a \in Ap |-> IF a \in failover THEN NextServer(a) ELSE server[a]]

LoopEnds ==
  /\ entry = Len(msgs) + 1
  /\ \E d \in Delays :
        /\ FirstTry(d)
        /\ ChangeServer(AfterFailover,
              IF msgs = <<>> THEN timers ELSE Register(timers, d))
  /\ entry' = 0
  /\ failover' = {}
  /\ UNCHANGED <<conf, stations>>

Radius_client_timer == TimerFires \/ RemoveEntry \/ KeepEntry \/ LoopEnds

\* Radius_retry_primary_timer, its period left open.
Radius_retry_primary_timer ==
  /\ InEloop /\ server # Primary
  /\ ChangeServer(Primary, timers)
  /\ UNCHANGED <<conf, entry, failover, stations>>

-----------------------------------------------------------------------------
(* Radius_client_receive: a message whose identifier is that of msgs[i].   *)
Acknowledge(i) ==
  /\ InEloop
  /\ msgs' = RemoveAt(msgs, i)
  /\ num_msgs' = num_msgs - 1
  /\ UNCHANGED <<next_id, timers, conf, server, entry, failover>>

\* Ap_get_sta_radius_identifier
Matches(k, id) ==
  /\ sta_list[k].radius_identifier = id
  /\ \A j \in 1 .. k - 1 : sta_list[j].radius_identifier # id

\* The message verifies, and ieee802_1x_receive_auth takes it for station k.
Radius_client_receive(i, k) ==
  /\ Acknowledge(i)
  /\ Matches(k, msgs[i].id)
  /\ sta_list' = [sta_list EXCEPT ![k].radius_identifier = -1]

\* No station has the identifier, or the message does not verify or has an
\* unknown code; the request is gone all the same.
ReceiveDropped(i) ==
  /\ Acknowledge(i)
  /\ UNCHANGED sta_list

-----------------------------------------------------------------------------
\* Handle_reload_config.  Radius_client_init then connects every BSS to the
\* first of its servers.
Handle_reload_config ==
  /\ InEloop
  /\ Flush
  /\ conf' \in Confs
  /\ sta_list' = <<>>
  /\ server' = Primary
  /\ UNCHANGED <<next_id, entry, failover>>

\* One second goes by.  A timeout that is due may be served late.
Elapse(e) ==
  [e EXCEPT !.wait = IF e.wait > 0 THEN e.wait - 1 ELSE 0,
            !.age = IF e.age < FirstWait THEN e.age + 1 ELSE FirstWait]

Tick ==
  /\ InEloop
  /\ msgs' = [i \in DOMAIN msgs |-> Elapse(msgs[i])]
  /\ timers' = [d \in Delays |->
                  IF d = 0 THEN timers[0] + timers[1]
                  ELSE IF d = MaxWait THEN 0 ELSE timers[d + 1]]
  /\ UNCHANGED <<num_msgs, conf, server, entry, failover, stations>>

Next ==
  \/ \E a \in Sta, ap \in Ap : Ap_get_sta(a, ap)
  \/ \E k \in DOMAIN sta_list :
        Ap_free_sta(k) \/ Radius_client_send(k) \/ SendFails(k)
  \/ \E i \in DOMAIN msgs :
        \/ \E k \in DOMAIN sta_list : Radius_client_receive(i, k)
        \/ ReceiveDropped(i)
  \/ Radius_client_timer
  \/ Radius_retry_primary_timer
  \/ Handle_reload_config
  \/ Tick

Spec == Init /\ [][Next]_vars

\* Time goes by, and eloop_run serves a timeout that is due: it looks at the
\* timeouts before it looks at the sockets.
Fairness == WF_vars(Tick) /\ WF_vars(Radius_client_timer)

FairSpec == Spec /\ Fairness
-----------------------------------------------------------------------------
(* Properties                                                              *)

\* No two requests in the list have the same identifier: a reply finds its own
\* request, and the loop of Radius_client_get_id, which writes to an entry it
\* has freed if two neighbours match, is safe.
UniqueIds ==
  \A i, j \in DOMAIN msgs : msgs[i].id = msgs[j].id => i = j

\* While a request is in the list and the daemon is in eloop_run,
\* Radius_client_timer is registered: no interleaving of replies, failovers,
\* flushes and identifier reuse leaves requests that nobody retransmits.
TimerArmed ==
  InEloop /\ msgs # <<>> => \E d \in Delays : timers[d] > 0

\* num_msgs may drift above the length of the list (Radius_client_get_id does
\* not count the removal) but never below it, so the unsigned counter does not
\* wrap and the list never outgrows RADIUS_CLIENT_MAX_ENTRIES.
NumMsgsCovers == Len(msgs) <= num_msgs /\ num_msgs <= MaxEntries

\* Every request in the list was made with the shared secret of the server it
\* would be retransmitted to, across failover, return to the primary server
\* and reload.  (entry->shared_secret points into the configuration: after a
\* reload it would dangle.)
SecretCurrent ==
  \A i \in DOMAIN msgs :
    msgs[i].secret = conf[msgs[i].ap][server[msgs[i].ap]]

\* RADIUS_CLIENT_MAX_RETRIES: "maximum number of retransmit attempts before
\* entry is removed from retransmit list".  Unless requests are sent for ever,
\* the list becomes empty.  So it does where every BSS has one server; with a
\* second server of the same secret the attempts start over for ever.
Drains == []<><<next_id' # next_id>>_vars \/ []<>(msgs = <<>>)

\* Radius_client_get_id removes entries "to avoid using new reply from the
\* RADIUS server with an old request": a reply is taken by the station that
\* the request was sent for.
NewReplyNewRequest ==
  [][\A i \in DOMAIN msgs, k \in DOMAIN sta_list :
       Radius_client_receive(i, k) => msgs[i].sta = sta_list[k].addr]_vars

\* "Defaults for RADIUS retransmit values (exponential backoff)",
\* RADIUS_CLIENT_FIRST_WAIT 1 second: some timer is due no later than the
\* request that is to be retransmitted.
RetransmitsOnTime ==
  InEloop => \A i \in DOMAIN msgs : \E d \in 0 .. msgs[i].wait : timers[d] > 0
=============================================================================
