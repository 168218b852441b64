------------------------------ MODULE NetProofs ------------------------------
(***************************************************************************)
(* Theorems about Net, for every retry limit.                              *)
(*                                                                         *)
(* The event loop's queue is unbounded in Net; LinkInv says that it never  *)
(* holds more than an address and its loss, and that a station which waits *)
(* for nothing is one that has given up.  The flags and the two counts     *)
(* follow the station from there.                                          *)
(***************************************************************************)
EXTENDS Net, TLAPS

\* What the station and the queue may be at the same time.
Links ==
    {<<"off", <<>>>>, <<"idle", <<"STA_START">>>>,
     <<"connecting", <<>>>>, <<"linked", <<>>>>,
     <<"up", <<"GOT_IP">>>>, <<"up", <<>>>>,
     <<"idle", <<"STA_DISCONNECTED">>>>,
     <<"idle", <<"GOT_IP", "STA_DISCONNECTED">>>>,
     <<"idle", <<>>>>}

LinkInv ==
    /\ <<wifi, events>> \in Links
    /\ wifi = "off" <=> net_pc = "init"

\* The disconnections since the last address are the retries, and one more
\* when the station has given up.
RetryInv ==
    IF wifi = "idle" /\ events = <<>>
    THEN failures = WIFI_MAX_RETRY + 1
    ELSE failures = s_retry_count

\* The flag is set from the handling of an address to that of its loss.
ReadyInv ==
    /\ wifi = "up" /\ events = <<>> => s_wifi_ready
    /\ s_wifi_ready => \/ wifi = "up" /\ events = <<>>
                       \/ wifi = "idle" /\ events = <<"STA_DISCONNECTED">>

\* A connection that was not marked as served has not been served.
SendInv ==
    /\ attempts <= 1
    /\ net_pc = "poll" /\ ~s_sent_telemetry => attempts = 0
    /\ net_pc \in {"init", "call"} => attempts = 0

IInv == TypeOK /\ LinkInv /\ RetryInv /\ ReadyInv /\ SendInv
-----------------------------------------------------------------------------
(***************************************************************************)
(* The queues of at most two events that occur.                            *)
(***************************************************************************)
LEMMA OneEvent ==
    ASSUME NEW e
    PROVE  /\ Append(<<>>, e) = <<e>>
           /\ <<e>> # <<>> /\ Head(<<e>>) = e /\ Tail(<<e>>) = <<>>
<1>1. Append(<<>>, e) = <<e>>
  OBVIOUS
<1>2. <<e>> # <<>> /\ Head(<<e>>) = e
  OBVIOUS
<1>3. Tail(<<e>>) = <<>>
  OBVIOUS
<1> QED BY <1>1, <1>2, <1>3

LEMMA TwoEvents ==
    ASSUME NEW d, NEW e
    PROVE  /\ Append(<<d>>, e) = <<d, e>>
           /\ <<d, e>> # <<>> /\ Head(<<d, e>>) = d /\ Tail(<<d, e>>) = <<e>>
<1>1. Append(<<d>>, e) = <<d, e>>
  <2> DEFINE S     == {d, e}
             left  == Append(<<d>>, e)
             right == <<d, e>>
  <2>1. left \in Seq(S) /\ Len(left) = 2 /\ left[1] = d /\ left[2] = e
    <3>1. <<d>> \in Seq(S) /\ Len(<<d>>) = 1 /\ <<d>>[1] = d
      OBVIOUS
    <3> QED BY <3>1
  <2>2. right \in Seq(S) /\ Len(right) = 2 /\ right[1] = d /\ right[2] = e
    OBVIOUS
  <2> HIDE DEF S, left, right
  <2>3. left = right
    BY <2>1, <2>2
  <2> QED BY <2>3 DEF left, right
<1>2. <<d, e>> # <<>> /\ Head(<<d, e>>) = d
  OBVIOUS
<1>3. Tail(<<d, e>>) = <<e>>
  OBVIOUS
<1> QED BY <1>1, <1>2, <1>3

\* What the handler finds with an event: the station is idle, unless the
\* event is an address it still has.
LEMMA Received ==
    ASSUME LinkInv
    PROVE  /\ Receive("STA_START") =>
                 wifi = "idle" /\ events = <<"STA_START">> /\ events' = <<>>
           /\ Receive("STA_DISCONNECTED") =>
                 wifi = "idle" /\ events = <<"STA_DISCONNECTED">> /\ events' = <<>>
           /\ Receive("GOT_IP") =>
                 \/ wifi = "up" /\ events = <<"GOT_IP">> /\ events' = <<>>
                 \/ /\ wifi = "idle" /\ events = <<"GOT_IP", "STA_DISCONNECTED">>
                    /\ events' = <<"STA_DISCONNECTED">>
<1>1. <<wifi, events>> \in Links
  BY DEF LinkInv
<1>2. CASE events = <<>>
  BY <1>2 DEF Receive
<1>3. CASE wifi = "idle" /\ events = <<"STA_START">>
  BY <1>3, OneEvent DEF Receive
<1>4. CASE wifi = "up" /\ events = <<"GOT_IP">>
  BY <1>4, OneEvent DEF Receive
<1>5. CASE wifi = "idle" /\ events = <<"STA_DISCONNECTED">>
  BY <1>5, OneEvent DEF Receive
<1>6. CASE wifi = "idle" /\ events = <<"GOT_IP", "STA_DISCONNECTED">>
  BY <1>6, TwoEvents DEF Receive
<1> QED BY <1>1, <1>2, <1>3, <1>4, <1>5, <1>6 DEF Links

\* The possible queues are queues of events.
LEMMA LinksType ==
    ASSUME NEW station, NEW queue, <<station, queue>> \in Links
    PROVE  queue \in Seq(Events)
<1>1. /\ <<>> \in Seq(Events) /\ <<"STA_START">> \in Seq(Events)
      /\ <<"GOT_IP">> \in Seq(Events) /\ <<"STA_DISCONNECTED">> \in Seq(Events)
      /\ <<"GOT_IP", "STA_DISCONNECTED">> \in Seq(Events)
  BY DEF Events
<1> QED BY <1>1 DEF Links
-----------------------------------------------------------------------------
(***************************************************************************)
(* The inductive invariant.                                                *)
(***************************************************************************)

\* At the start nothing runs and nothing has happened.
LEMMA InitIInv == Init => IInv
<1> SUFFICES ASSUME Init PROVE IInv
  OBVIOUS
<1>1. LinkInv
  BY DEF Init, LinkInv, Links
<1>2. events \in Seq(Events)
  BY <1>1, LinksType DEF LinkInv
<1>3. s_retry_count \in 0 .. WIFI_MAX_RETRY
  BY RetryAssumption DEF Init
<1>4. TypeOK
  BY <1>2, <1>3 DEF Init, TypeOK
<1>5. RetryInv /\ ReadyInv /\ SendInv
  BY DEF Init, RetryInv, ReadyInv, SendInv
<1> QED BY <1>1, <1>4, <1>5 DEF IInv

\* Station and queue stay in step: the driver posts one event for each change
\* of the station it makes on its own, and the handler asks for a connection
\* only when there is no event left.
LEMMA NextLinkInv == LinkInv /\ [Next]_vars => LinkInv'
<1> SUFFICES ASSUME LinkInv, [Next]_vars PROVE LinkInv'
  OBVIOUS
<1>1. <<wifi, events>> \in Links
  BY DEF LinkInv
<1>2. CASE NetStart
  <2>1. wifi = "off" /\ events = <<>>
    BY <1>1, <1>2 DEF LinkInv, Links, NetStart
  <2>2. events' = <<"STA_START">>
    BY <1>2, <2>1, OneEvent DEF NetStart
  <2> QED BY <1>2, <2>1, <2>2 DEF LinkInv, Links, NetStart
<1>3. CASE NetPoll \/ NetSend \/ NetSent
  BY <1>3 DEF LinkInv, NetPoll, NetSend, NetSent
<1>4. CASE HandleStart
  BY <1>4, Received DEF LinkInv, Links, HandleStart, Connect
<1>5. CASE HandleDisconnected
  BY <1>5, Received DEF LinkInv, Links, HandleDisconnected, Connect
<1>6. CASE HandleGotIp
  BY <1>6, Received DEF LinkInv, Links, HandleGotIp
<1>7. CASE Reboot
  BY <1>7 DEF LinkInv, Links, Reboot
<1>8. CASE Associate
  BY <1>1, <1>8 DEF LinkInv, Links, Associate
<1>9. CASE Lease
  <2>1. events = <<>>
    BY <1>1, <1>9 DEF Links, Lease
  <2>2. events' = <<"GOT_IP">>
    BY <1>9, <2>1, OneEvent DEF Lease
  <2> QED BY <1>9, <2>2 DEF LinkInv, Links, Lease
<1>10. CASE ConnectFails \/ Drop
  <2>1. wifi \in {"connecting", "linked", "up"} /\ wifi' = "idle"
    BY <1>10 DEF ConnectFails, Drop, LinkLost
  <2>2. events \in {<<>>, <<"GOT_IP">>}
    BY <1>1, <2>1 DEF Links
  <2>3. events' = Append(events, "STA_DISCONNECTED")
    BY <1>10 DEF ConnectFails, Drop, LinkLost
  <2>4. CASE events = <<>>
    BY <1>10, <2>1, <2>3, <2>4, OneEvent DEF LinkInv, Links, ConnectFails, Drop, LinkLost
  <2>5. CASE events = <<"GOT_IP">>
    <3>1. events' = <<"GOT_IP", "STA_DISCONNECTED">>
      BY <2>3, <2>5, TwoEvents
    <3> QED
      BY <1>10, <2>1, <3>1 DEF LinkInv, Links, ConnectFails, Drop, LinkLost
  <2> QED BY <2>2, <2>4, <2>5
<1>11. CASE TimeSync
  BY <1>11 DEF LinkInv, TimeSync
<1>12. CASE UNCHANGED vars
  BY <1>12 DEF LinkInv, vars
<1> QED BY <1>2, <1>3, <1>4, <1>5, <1>6, <1>7, <1>8, <1>9, <1>10, <1>11, <1>12
           DEF Next, Net, Handler, Environment

\* The flags and the counts follow.
LEMMA NextIInv == IInv /\ [Next]_vars => IInv'
<1> SUFFICES ASSUME IInv, [Next]_vars PROVE IInv'
  OBVIOUS
<1>1. LinkInv' /\ events' \in Seq(Events)
  <2>1. LinkInv'
    BY NextLinkInv DEF IInv
  <2> QED BY <2>1, LinksType DEF LinkInv
<1> USE RetryAssumption DEF IInv, TypeOK, RetryInv, ReadyInv, SendInv, flags
<1>2. CASE NetStart
  BY <1>1, <1>2 DEF NetStart, LinkInv, Links
<1>3. CASE NetPoll
  BY <1>1, <1>3 DEF NetPoll
<1>4. CASE NetSend
  BY <1>1, <1>4 DEF NetSend
<1>5. CASE NetSent
  BY <1>1, <1>5 DEF NetSent
<1>6. CASE HandleStart
  BY <1>1, <1>6, Received DEF HandleStart, Connect
<1>7. CASE HandleDisconnected
  <2>1. wifi = "idle" /\ events = <<"STA_DISCONNECTED">> /\ events' = <<>>
    BY <1>7, Received DEF HandleDisconnected
  <2>2. failures = s_retry_count
    BY <2>1, OneEvent
  <2>3. s_retry_count' \in 0 .. WIFI_MAX_RETRY
    BY <1>7 DEF HandleDisconnected
  <2>4. wifi' \in {"idle", "connecting"} /\ failures' \in Nat
    BY <1>7, <2>1 DEF HandleDisconnected, Connect
  <2>5. RetryInv'
    <3>1. CASE s_retry_count < WIFI_MAX_RETRY
      BY <1>7, <2>1, <2>2, <3>1 DEF HandleDisconnected, Connect
    <3>2. CASE s_retry_count >= WIFI_MAX_RETRY
      <4>1. s_retry_count = WIFI_MAX_RETRY
        BY <3>2
      <4> QED
        BY <1>7, <2>1, <2>2, <4>1 DEF HandleDisconnected, Connect
    <3> QED BY <3>1, <3>2
  <2>6. ReadyInv'
    BY <1>7, <2>4 DEF HandleDisconnected
  <2>7. SendInv'
    BY <1>7 DEF HandleDisconnected
  <2>8. TypeOK'
    BY <1>1, <1>7, <2>3, <2>4 DEF HandleDisconnected
  <2> QED BY <1>1, <2>5, <2>6, <2>7, <2>8
<1>8. CASE HandleGotIp
  <2>1. \/ wifi' = "up" /\ events' = <<>>
        \/ wifi' = "idle" /\ events' = <<"STA_DISCONNECTED">>
    BY <1>8, Received DEF HandleGotIp
  <2>2. RetryInv'
    BY <1>8, <2>1, OneEvent DEF HandleGotIp
  <2>3. ReadyInv'
    BY <1>8, <2>1, OneEvent DEF HandleGotIp
  <2>4. net_pc' # "init"
    BY <1>8, Received DEF HandleGotIp, LinkInv, Links
  <2>5. SendInv'
    BY <1>8, <2>4 DEF HandleGotIp
  <2>6. s_retry_count' \in 0 .. WIFI_MAX_RETRY
    BY <1>8 DEF HandleGotIp
  <2>7. TypeOK'
    BY <1>1, <1>8, <2>6 DEF HandleGotIp
  <2> QED BY <1>1, <2>2, <2>3, <2>5, <2>7
<1>9. CASE Reboot
  <2>1. s_retry_count' \in 0 .. WIFI_MAX_RETRY
    BY <1>9 DEF Reboot
  <2>2. TypeOK'
    BY <1>1, <1>9, <2>1 DEF Reboot
  <2>3. RetryInv' /\ ReadyInv' /\ SendInv'
    BY <1>9 DEF Reboot
  <2> QED BY <1>1, <2>2, <2>3
<1>10. CASE Associate
  BY <1>1, <1>10 DEF Associate
<1>11. CASE Lease
  BY <1>1, <1>11 DEF Lease, LinkInv, Links
<1>12. CASE ConnectFails \/ Drop
  BY <1>1, <1>12 DEF ConnectFails, Drop, LinkLost, LinkInv, Links
<1>13. CASE TimeSync
  BY <1>1, <1>13 DEF TimeSync
<1>14. CASE UNCHANGED vars
  BY <1>1, <1>14 DEF vars
<1> QED BY <1>2, <1>3, <1>4, <1>5, <1>6, <1>7, <1>8, <1>9, <1>10, <1>11, <1>12, <1>13, <1>14
           DEF Next, Net, Handler, Environment

\* IInv holds in every reachable state.
LEMMA Inductive == Spec => []IInv
BY InitIInv, NextIInv, PTL DEF Spec
-----------------------------------------------------------------------------
(***************************************************************************)
(* The theorems.                                                           *)
(***************************************************************************)

\* Every variable keeps its type; the queue holds events only and the count
\* of retries never passes the limit.
THEOREM TypeCorrect == Spec => []TypeOK
<1>1. IInv => TypeOK
  BY DEF IInv
<1> QED BY <1>1, Inductive, PTL

\* Between two addresses the station is refused at most once more than it is
\* allowed to ask again (task_net.c:150-159).
THEOREM GivesUp == Spec => []RetriesBounded
<1>1. IInv => RetriesBounded
  BY RetryAssumption DEF IInv, TypeOK, RetryInv, RetriesBounded
<1> QED BY <1>1, Inductive, PTL

\* With no event waiting the flag NET polls is the state of the station
\* (task_net.c:148 and 168).
THEOREM FlagFollowsLink == Spec => []ReadyFollowsLink
<1>1. IInv => ReadyFollowsLink
  BY OneEvent DEF IInv, ReadyInv, ReadyFollowsLink
<1> QED BY <1>1, Inductive, PTL

\* No connection is served twice, whatever happens to it during a send
\* (task_net.c:239-244).
THEOREM ServedAtMostOnce == Spec => []AtMostOnePerConnection
<1>1. IInv => AtMostOnePerConnection
  BY DEF IInv, SendInv, AtMostOnePerConnection
<1> QED BY <1>1, Inductive, PTL
=============================================================================
