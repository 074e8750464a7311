----------------------------- MODULE ResolveNow -----------------------------
(***************************************************************************)
(* What fee resolution promises, with no cache and no index: tables change *)
(* in any way, and every answer is the one the tables give when it is      *)
(* asked for.                                                              *)
(***************************************************************************)
EXTENDS StoreTables

VARIABLE answer  \* the last answer given

Change == UNCHANGED answer

Ask(a, k) ==
  /\ UNCHANGED tables
  /\ answer' = [acct |-> a, key |-> k, fee |-> Current(a, k)]

Next == Change \/ \E a \in Accounts, k \in Keys : Ask(a, k)

Spec == answer = NoAnswer /\ [][Next]_<<tables, answer>>

=============================================================================
