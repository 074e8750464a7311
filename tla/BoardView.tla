------------------------------ MODULE BoardView ------------------------------
(***************************************************************************)
(* What the binding board promises: it is a view of rules, enrollments and *)
(* date.  A request changes the tables and leaves the board of every       *)
(* account either right for what it made of them or as it was, and as it   *)
(* was only if it is right still or was not right before.  How the board is*)
(* written, by which diff and for whom, is not in this module.             *)
(***************************************************************************)
EXTENDS FeePolicy

CONSTANT MaxEnrollments  \* bound on enrollment rows

VARIABLES
  day,     \* business date
  status,  \* statuses of the rules
  grants,  \* enrollments
  board    \* board[a][c]: what account a is assigned in cell c

viewVars == <<day, status, grants, board>>

Orders ==
  {ord \in [1..MaxEnrollments -> 1..MaxEnrollments] :
     \A i, j \in 1..MaxEnrollments : ord[i] = ord[j] => i = j}

(* The policies account a may have in cell c.                              *)
Offers(ord, a, c) ==
  {r \in Rules : InRanking(status, r, day) /\ Matches(r, c) /\ Passes(grants, ord, a, r, day)}

Best(S) == {r \in S : \A s \in S \ {r} : Before(r, s)}

(* The best of them with its dates: nothing if it is the base fee, or has  *)
(* no dates, or the account has not opened the class, or no active rule    *)
(* gives the cell a line of its own.                                       *)
Assigned(ord, a, c) ==
  {[rule |-> r, dates |-> Window(grants, ord, a, r)] :
     r \in {x \in Best(Offers(ord, a, c)) :
              /\ Rule[x].type # "BASE"
              /\ Window(grants, ord, a, x).from # NoDate
              /\ ClassOf[c.base] \in Opened[a]
              /\ c \in Universe(Active(status))}}

Right(a) == \E ord \in Orders : \A c \in Cells : board[a][c] = Assigned(ord, a, c)

Init == day = 1 /\ board = [a \in Accounts |-> [c \in Cells |-> {}]]

Handle ==
  /\ day' = day
  /\ \A a \in Accounts : Right(a)' \/ (~Right(a) /\ board'[a] = board[a])

(* Rejecting an active rule refreshes nothing.                             *)
Withdraw(r) ==
  /\ status[r] = "ACTIVE"
  /\ status' = [status EXCEPT ![r] = "REJECTED"]
  /\ UNCHANGED <<day, grants, board>>

Dawn == day' = day + 1 /\ UNCHANGED <<status, grants, board>>

Next == Handle \/ Dawn \/ \E r \in Rules : Withdraw(r)

Spec == Init /\ [][Next]_viewVars

=============================================================================
