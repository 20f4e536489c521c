------------------------------ MODULE ExchangeMC ------------------------------
(* Three domains in a row.  The first two have their messages buffered, so *)
(* that a domain can be two exchanges ahead of another; the sends of the   *)
(* third complete only when they are received.                             *)
EXTENDS Exchange

MCDomain == 1 .. 3
InARow == {<<1, 2>>, <<2, 1>>, <<2, 3>>, <<3, 2>>}
TwoEager == {1, 2}
=============================================================================
