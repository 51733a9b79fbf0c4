--------------------------- MODULE MCBlockReceiver ---------------------------
\* An instance of BlockReceiver for TLC.
EXTENDS BlockReceiver

\* A block of two events (9 and 10, which decimal strings order the other way
\* round), one without events, two of one event and another one of two.
AcrossTen == <<10, 10, 11, 12, 14>>

\* The first three blocks are of the same second.
SameSecond == <<1, 1, 1, 2, 3>>

\* The events of one block may not validate, and another may not have been stored.
TheFourth == {4}
TheThird == {3}

\* Neighbouring events go into different transactions.
TwoFids == [e \in 1 .. 99 |-> e % 2]
===============================================================================
