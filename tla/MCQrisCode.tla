----------------------------- MODULE MCQrisCode -----------------------------
EXTENDS QrisCode

\* Two merchants whose NMIDs differ in a digit.  The second's name is written in characters
\* of four bytes each, 25 of them: it passes the check of the request and is 100 bytes long.
MCMerchants ==
    {[nmid |-> <<73, 49>>, name |-> <<75>>, city |-> <<74, 75>>, mcc |-> <<53, 52, 49, 49>>,
      postal |-> <<49, 50>>, account |-> "a1"],
     [nmid |-> <<73, 50>>, name |-> [i \in 1..100 |-> 65], city |-> <<66>>,
      mcc |-> <<53, 52, 49, 50>>, postal |-> <<>>, account |-> "a2"]}

\* 0.05, 10.50 and a static code.
MCOrders ==
    {[type |-> "DYNAMIC", amount |-> 5, label |-> <<82>>],
     [type |-> "DYNAMIC", amount |-> 1050, label |-> <<>>],
     [type |-> "STATIC", amount |-> 0, label |-> <<82>>]}

\* 1, 2, 9, minus, A, a.
MCMisread == {49, 50, 57, 45, 65, 97}

MCGUID == <<81>>
=============================================================================
