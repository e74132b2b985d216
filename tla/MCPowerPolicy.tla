--------------------------- MODULE MCPowerPolicy ---------------------------
(***************************************************************************)
(* Small instances of PowerPolicy for TLC.                                 *)
(***************************************************************************)
EXTENDS PowerPolicy

\* 5V 1A5 from an outlet; 9V 3A from a battery; 15V 1A8 from an outlet, the
\* same power as the second.
Low == [mv |-> 5000, ma |-> 1500, unconstrained |-> TRUE]
High == [mv |-> 9000, ma |-> 3000, unconstrained |-> FALSE]
HighToo == [mv |-> 15000, ma |-> 1800, unconstrained |-> TRUE]
ThreeConsumers == {Low, High, HighToo}
OneConsumer == {High}

\* Type-C 5V at 1A, 1A5 and 3A.
P1A0 == [mv |-> 5000, ma |-> 1000]
P1A5 == [mv |-> 5000, ma |-> 1500]
P3A0 == [mv |-> 5000, ma |-> 3000]
ThreeProviders == {P1A0, P1A5, P3A0}
TwoProviders == {P1A5, P3A0}
=============================================================================
