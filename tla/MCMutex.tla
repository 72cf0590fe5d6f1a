------------------------------ MODULE MCMutex ------------------------------
(* Instances of Mutex for TLC. *)
EXTENDS Mutex, TLC

CONSTANTS idle, low, mid, high, mtx1, mtx2

Tasks == {idle, low, mid, high}
Priorities == idle :> 0 @@ low :> 1 @@ mid :> 2 @@ high :> 3
OneMutex == idle :> {} @@ low :> {mtx1} @@ mid :> {mtx1} @@ high :> {mtx1}
AllMutexes == idle :> {} @@ low :> {mtx1, mtx2} @@ mid :> {mtx1, mtx2} @@ high :> {mtx1, mtx2}

(* Applications of either kind, of one of them, and of the other.          *)
BothUsages == {OneMutex, AllMutexes}
OneUsage == {OneMutex}
AllUsage == {AllMutexes}

(* Without is SelectSeq of the tasks that stay, on every list of up to     *)
(* three tasks.                                                            *)
Lists == UNION {[1 .. n -> Tasks] : n \in 0 .. 3}

ASSUME WithoutSelects ==
    \A list \in Lists, E \in SUBSET Tasks :
        Without(list, E) = SelectSeq(list, LAMBDA t : t \notin E)
=============================================================================
