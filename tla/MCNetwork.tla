----------------------------- MODULE MCNetwork ------------------------------
(***************************************************************************)
(* What nodes tell one another, in machines that do not meet: how nodes    *)
(* pass on alerts and addresses; how they find one another on IRC; and the *)
(* bytes of one connection.  The first state says which of them runs.      *)
(***************************************************************************)
EXTENDS Alerts, Addresses, Wire, Irc, TLC

VARIABLE part

\* Two nodes that connect to a third.
MCDials == {<<"a", "b">>, <<"c", "b">>}
\* One alert for all, one that cancels it and is for one node only, and one that cancels both.
MCAlerts ==
  {[id |-> 1, cancels |-> {}, expires |-> 1, relayUntil |-> 1, audience |-> {"a", "b", "c"}, priority |-> 2],
   [id |-> 2, cancels |-> {1}, expires |-> 1, relayUntil |-> 0, audience |-> {"c"}, priority |-> 1],
   [id |-> 3, cancels |-> {1, 2}, expires |-> 2, relayUntil |-> 1, audience |-> {"a", "b", "c"}, priority |-> 1]}

\* One end pushes a message that holds a message start, and one without data; another of its
\* threads one more.
MCMsgScript == [n \in Ends |-> IF n = Outbound THEN <<Message(4, <<8, 9>>), Ping>> ELSE <<>>]
MCUiScript == [n \in Ends |-> IF n = Outbound THEN <<Message(5, <<2>>)>> ELSE <<>>]

\* Two nodes behind one router; two of which one uses Tor and knows its address; and two of
\* which one does not know its address.
Setting(homes, proxies, knowing) ==
  [home |-> ("s1" :> homes[1] @@ "s2" :> homes[2]),
   proxy |-> ("s1" :> proxies[1] @@ "s2" :> proxies[2]), localKnown |-> knowing]
MCSettings ==
  {Setting(<<"h1", "h1">>, <<"no", "no">>, {"s1"}), Setting(<<"h1", "h2">>, <<"no", "tor">>, {"s2"}),
   Setting(<<"h1", "h2">>, <<"no", "no">>, {"s2"})}

Idle(but) ==
  /\ IF but = "alerts" THEN TRUE ELSE UNCHANGED alertVars
  /\ IF but = "addresses" THEN TRUE ELSE UNCHANGED addressVars
  /\ IF but = "irc" THEN TRUE ELSE UNCHANGED ircVars
  /\ IF but = "wire" THEN TRUE ELSE UNCHANGED wireVars

NetworkInit ==
  /\ AddressesInit
  /\ \/ part \in {"addresses", "wire", "irc"} /\ AlertsInit({}, 0)
     \* With a connection that may break there are two alerts.
     \/ /\ part = "alerts"
        /\ AlertsInit(AlertTable, MaxBreaks) \/ AlertsInit({x \in AlertTable : x.id # 2}, 0)
  /\ WireInit(IF part = "wire" THEN {"old", "new", "spoken"} ELSE {"old"})
  /\ IrcInit(IF part = "irc" THEN HomeSettings ELSE {Setting(<<"h1", "h2">>, <<"no", "no">>, {})})
NetworkNext ==
  /\ UNCHANGED part
  /\ \/ part = "alerts" /\ AlertsNext
     \/ part = "addresses" /\ AddressesNext
     \/ part = "wire" /\ WireNext
     \/ part = "irc" /\ IrcNext
  /\ Idle(part)
NetworkSpec == NetworkInit /\ [][NetworkNext]_<<part, alertVars, addressVars, wireVars, ircVars>>

\* What nodes tell one another of alerts and of addresses, find out on IRC, and send over a
\* connection that garbles nothing.
NetworkIsSound ==
  CASE part = "alerts" -> AlertsAreRight
    [] part = "addresses" -> AddressesAreRight
    [] part = "irc" -> IrcIsRight
    [] part = "wire" -> ArrivesInOrder
=============================================================================
