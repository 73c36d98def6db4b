------------------------------- MODULE MCUmqt -------------------------------
(* Instances of Umqt for TLC. *)
EXTENDS UmqtAnycast, TLC

CONSTANTS client, s1, s2, topic, small, large

\* One client and one server.
OneServer == {<<client, topic, s1>>}
OneSubscribes == {<<s1, topic>>}

\* One client and two servers of the same topic.
TwoServers == {<<client, topic, s1>>, <<client, topic, s2>>}
ServersSubscribe == {<<s1, topic>>, <<s2, topic>>}
ServersAlike == Permutations({s1, s2})
=============================================================================
