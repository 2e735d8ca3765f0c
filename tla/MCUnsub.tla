------------------------------ MODULE MCUnsub ------------------------------
\* Instances of Unsub for TLC.
EXTENDS Unsub

Link(scheme, host, port) == [scheme |-> scheme, host |-> host, port |-> port]
Offer(uris, oneClick) == [uris |-> uris, oneClick |-> oneClick]

\* A one-click sender and a plain link on one host, the first known from a
\* stored message that outdates the plan, and a sender to write to.
ThreePlanned ==
  << Offer(<<Link("http", "b", 80)>>, FALSE),
     Offer(<<Link("mailto", "list", 0), Link("http", "a", 80)>>, FALSE),
     Offer(<<Link("mailto", "list", 0)>>, FALSE) >>
ThreeStored ==
  << <<Offer(<< >>, FALSE), Offer(<<Link("https", "a", 443)>>, TRUE)>>, << >>, << >> >>
=============================================================================
