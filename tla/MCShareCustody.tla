---------------------------- MODULE MCShareCustody ----------------------------
(* ShareCustody for TLC: three shares with threshold two, two write-ahead    *)
(* names, two runs, and the payloads that differ in what the code does.      *)
EXTENDS ShareCustody

\* Complete; complete without a token; one entry empty; the array too short;
\* too long; nothing that parses.
MCPayloads ==
  {[shares |-> 1..N, sized |-> TRUE, token |-> TRUE],
   [shares |-> 1..N, sized |-> TRUE, token |-> FALSE],
   [shares |-> {1, 3}, sized |-> TRUE, token |-> TRUE],
   [shares |-> 1..2, sized |-> FALSE, token |-> TRUE],
   [shares |-> 1..N, sized |-> FALSE, token |-> TRUE],
   [shares |-> {}, sized |-> FALSE, token |-> FALSE]}

===============================================================================
