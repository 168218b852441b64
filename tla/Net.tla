-------------------------------- MODULE Net --------------------------------
(***************************************************************************)
(* task_net.c: the Wi-Fi event handler, which runs in the event loop's     *)
(* task, and the NET task, which polls three flags once per second and     *)
(* posts one telemetry message.  The flags are plain variables shared by   *)
(* the two tasks without a lock.                                           *)
(*                                                                         *)
(* The Wi-Fi driver, the event loop's queue and the SNTP client are not in *)
(* the repository; they are modelled from how task_net.c and timeutil.c    *)
(* use them: a connection attempt ends in an association or in a           *)
(* STA_DISCONNECTED event, an association in a GOT_IP event or a drop, and *)
(* events reach the handler one at a time, in order.                       *)
(*                                                                         *)
(* The three stores of the GOT_IP branch are one step: a poll between two  *)
(* of them acts like a poll before or after the three, unless a whole HTTP *)
(* exchange fits between two adjacent stores.                              *)
(***************************************************************************)
EXTENDS Integers, Sequences

CONSTANT WIFI_MAX_RETRY     \* config.h

ASSUME RetryAssumption == WIFI_MAX_RETRY \in Nat

VARIABLES
    s_retry_count, s_wifi_ready, s_sent_telemetry,  \* task_net.c
    s_time_set,                                     \* timeutil.c
    net_pc,     \* the NET task
    wifi,       \* the station: "off", "idle", "connecting", "linked", "up"
    events,     \* the event loop's queue
    sntp,       \* does an SNTP client run?
    \* Not in the code: what has happened since the last GOT_IP was handled.
    failures,   \* disconnections
    attempts    \* calls of net_send_test_telemetry

flags == <<s_retry_count, s_wifi_ready, s_sent_telemetry>>
vars  == <<flags, s_time_set, net_pc, wifi, events, sntp, failures, attempts>>

Events == {"STA_START", "STA_DISCONNECTED", "GOT_IP"}

Init ==
    /\ s_retry_count = 0 /\ s_wifi_ready = FALSE /\ s_sent_telemetry = FALSE
    /\ s_time_set = FALSE
    /\ net_pc = "init"
    /\ wifi = "off" /\ events = <<>> /\ sntp = FALSE
    /\ failures = 0 /\ attempts = 0

-----------------------------------------------------------------------------
(***************************************************************************)
(* The NET task.                                                           *)
(***************************************************************************)

\* Its start-up ends with esp_wifi_start, which makes the driver post
\* STA_START.  A failure before that aborts (ESP_ERROR_CHECK), and the firmware
\* starts over: it is back where it was.
NetStart ==
    /\ net_pc = "init"
    /\ net_pc' = "poll"
    /\ wifi' = "idle"
    /\ events' = Append(events, "STA_START")
    /\ UNCHANGED <<flags, s_time_set, sntp, failures, attempts>>

\* The condition of the poll loop; when it is false the task sleeps.
NetPoll ==
    /\ net_pc = "poll"
    /\ s_wifi_ready /\ ~s_sent_telemetry /\ s_time_set
    /\ net_pc' = "call"
    /\ UNCHANGED <<flags, s_time_set, wifi, events, sntp, failures, attempts>>

\* net_send_test_telemetry begins ...
NetSend ==
    /\ net_pc = "call"
    /\ net_pc' = "sending"
    /\ attempts' = attempts + 1
    /\ UNCHANGED <<flags, s_time_set, wifi, events, sntp, failures>>

NetSent_NotMarked ==        \* mutant: the flag is not set after the send
    /\ net_pc = "sending"
    /\ net_pc' = "poll"
    /\ UNCHANGED <<flags, s_time_set, wifi, events, sntp, failures, attempts>>

\* ... and returns, whether the server answered, the request failed or it was
\* never made; the result is only logged, and the flag is set in each case.
NetSent ==
    /\ net_pc = "sending"
    /\ net_pc' = "poll"
    /\ s_sent_telemetry' = TRUE
    /\ UNCHANGED <<s_retry_count, s_wifi_ready, s_time_set, wifi, events, sntp,
                   failures, attempts>>

Net == NetStart \/ NetPoll \/ NetSend \/ NetSent
-----------------------------------------------------------------------------
(***************************************************************************)
(* wifi_event_handler.                                                     *)
(***************************************************************************)
Receive(event) ==
    /\ events # <<>>
    /\ Head(events) = event
    /\ events' = Tail(events)

\* esp_wifi_connect: without effect unless the station is idle.
Connect == wifi' = IF wifi = "idle" THEN "connecting" ELSE wifi

HandleStart ==
    /\ Receive("STA_START")
    /\ Connect
    /\ UNCHANGED <<flags, s_time_set, net_pc, sntp, failures, attempts>>

HandleDisconnected_OneMore ==   \* mutant: one retry too many
    /\ Receive("STA_DISCONNECTED")
    /\ s_wifi_ready' = FALSE
    /\ failures' = failures + 1
    /\ \/ /\ s_retry_count <= WIFI_MAX_RETRY
          /\ Connect
          /\ s_retry_count' = s_retry_count + 1
       \/ /\ s_retry_count > WIFI_MAX_RETRY
          /\ UNCHANGED <<wifi, s_retry_count>>
    /\ UNCHANGED <<s_sent_telemetry, s_time_set, net_pc, sntp, attempts>>

HandleDisconnected_ReadyKept ==     \* mutant: the flag is cleared on giving up only
    /\ Receive("STA_DISCONNECTED")
    /\ failures' = failures + 1
    /\ \/ /\ s_retry_count < WIFI_MAX_RETRY
          /\ Connect
          /\ s_retry_count' = s_retry_count + 1
          /\ UNCHANGED s_wifi_ready
       \/ /\ s_retry_count >= WIFI_MAX_RETRY
          /\ s_wifi_ready' = FALSE
          /\ UNCHANGED <<wifi, s_retry_count>>
    /\ UNCHANGED <<s_sent_telemetry, s_time_set, net_pc, sntp, attempts>>

HandleDisconnected ==
    /\ Receive("STA_DISCONNECTED")
    /\ s_wifi_ready' = FALSE
    /\ failures' = failures + 1
    /\ \/ /\ s_retry_count < WIFI_MAX_RETRY
          /\ Connect
          /\ s_retry_count' = s_retry_count + 1
       \/ /\ s_retry_count >= WIFI_MAX_RETRY
          /\ UNCHANGED <<wifi, s_retry_count>>
    /\ UNCHANGED <<s_sent_telemetry, s_time_set, net_pc, sntp, attempts>>

HandleGotIp_CountKept ==    \* mutant: the retry count is not reset
    /\ Receive("GOT_IP")
    /\ sntp' = TRUE
    /\ s_wifi_ready' = TRUE
    /\ s_sent_telemetry' = FALSE
    /\ failures' = 0 /\ attempts' = 0
    /\ UNCHANGED <<s_retry_count, s_time_set, net_pc, wifi>>

\* timeutil_init_sntp, which stops a running SNTP client and starts a new
\* one, and the three stores.
HandleGotIp ==
    /\ Receive("GOT_IP")
    /\ sntp' = TRUE
    /\ s_retry_count' = 0
    /\ s_wifi_ready' = TRUE
    /\ s_sent_telemetry' = FALSE
    /\ failures' = 0 /\ attempts' = 0
    /\ UNCHANGED <<s_time_set, net_pc, wifi>>

\* The ESP_ERROR_CHECK of timeutil_init_sntp, which every GOT_IP passes through,
\* aborts when the new client cannot be had; the panic handler restarts the
\* processor (CONFIG_ESP_SYSTEM_PANIC_PRINT_REBOOT) and the memory is lost.
Reboot ==
    /\ events # <<>> /\ Head(events) = "GOT_IP"
    /\ s_retry_count' = 0 /\ s_wifi_ready' = FALSE /\ s_sent_telemetry' = FALSE
    /\ s_time_set' = FALSE
    /\ net_pc' = "init"
    /\ wifi' = "off" /\ events' = <<>> /\ sntp' = FALSE
    /\ failures' = 0 /\ attempts' = 0

Handler == HandleStart \/ HandleDisconnected \/ HandleGotIp \/ Reboot
-----------------------------------------------------------------------------
(***************************************************************************)
(* The driver, the access point and the time server.                       *)
(***************************************************************************)
Associate ==
    /\ wifi = "connecting"
    /\ wifi' = "linked"
    /\ UNCHANGED <<flags, s_time_set, net_pc, events, sntp, failures, attempts>>

Lease ==
    /\ wifi = "linked"
    /\ wifi' = "up"
    /\ events' = Append(events, "GOT_IP")
    /\ UNCHANGED <<flags, s_time_set, net_pc, sntp, failures, attempts>>

\* An attempt that fails, or a link that is lost.
LinkLost(from) ==
    /\ wifi \in from
    /\ wifi' = "idle"
    /\ events' = Append(events, "STA_DISCONNECTED")
    /\ UNCHANGED <<flags, s_time_set, net_pc, sntp, failures, attempts>>

ConnectFails == LinkLost({"connecting"})
Drop         == LinkLost({"linked", "up"})

\* time_sync_cb
TimeSync ==
    /\ sntp /\ wifi = "up"
    /\ s_time_set' = TRUE
    /\ UNCHANGED <<flags, net_pc, wifi, events, sntp, failures, attempts>>

Environment == Associate \/ Lease \/ ConnectFails \/ Drop \/ TimeSync

Next == Net \/ Handler \/ Environment

Spec == Init /\ [][Next]_vars

(***************************************************************************)
(* The NET task and the event loop's task run when they are ready.  The    *)
(* driver answers every attempt, an association that lasts gets an         *)
(* address, and a station that stays up hears from the time server.        *)
(* Nothing says that an attempt succeeds or that a link lasts.             *)
(***************************************************************************)
Fairness ==
    /\ WF_vars(Net)
    /\ WF_vars(Handler)
    /\ WF_vars(Associate \/ ConnectFails)
    /\ WF_vars(Lease)
    /\ WF_vars(TimeSync)

FairSpec == Spec /\ Fairness

\* An access point that would accept an attempt if it kept being asked.
FairSpecGoodAP == FairSpec /\ SF_vars(Associate) /\ SF_vars(Lease)
-----------------------------------------------------------------------------
TypeOK ==
    /\ s_retry_count \in 0 .. WIFI_MAX_RETRY
    /\ s_wifi_ready \in BOOLEAN /\ s_sent_telemetry \in BOOLEAN /\ s_time_set \in BOOLEAN
    /\ net_pc \in {"init", "poll", "call", "sending"}
    /\ wifi \in {"off", "idle", "connecting", "linked", "up"}
    /\ events \in Seq(Events)
    /\ sntp \in BOOLEAN
    /\ failures \in Nat /\ attempts \in Nat

\* The station gives up after the attempts it is allowed: since it last had
\* an address it has never been refused more than WIFI_MAX_RETRY + 1 times
\* (task_net.c:150-159).
RetriesBounded == failures <= WIFI_MAX_RETRY + 1

\* When every event has been handled the flag the NET task polls tells
\* whether the station has an address (task_net.c:148 and 168).
ReadyFollowsLink == events = <<>> => (s_wifi_ready <=> wifi = "up")

\* One connection never causes two sends (task_net.c:26 and 239-244), even
\* if it begins or ends while a send is under way.
AtMostOnePerConnection == attempts <= 1

\* Unless it is refused more than WIFI_MAX_RETRY times in a row, the station
\* comes back, however often the link is lost (task_net.c:146-170), or the
\* firmware keeps starting over (timeutil.c:37).
ComesBack ==
    [](failures <= WIFI_MAX_RETRY) => []<>(s_wifi_ready \/ net_pc = "init")
-----------------------------------------------------------------------------
(***************************************************************************)
(* What comments of the source say and the code does not do; each is       *)
(* checked by a run that expects its violation.                            *)
(***************************************************************************)

\* task_net.c:26 "send test telemetry once per connection": a connection that
\* lasts, with the time known, gets its send.
OncePerConnection == s_wifi_ready /\ s_time_set ~> attempts > 0 \/ ~s_wifi_ready

\* task_net.c:174 "bring up Wi-Fi station and keep it running": with an access
\* point that accepts attempts again and again, the station is up again and
\* again, or the firmware starts over.
KeptRunning == []<>(s_wifi_ready \/ net_pc = "init")
=============================================================================
