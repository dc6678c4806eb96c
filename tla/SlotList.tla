------------------------------ MODULE SlotList ------------------------------
(***************************************************************************)
(* The sorted, doubly linked list that both registries keep in slot coins. *)
(*                                                                         *)
(* A slot is a zero-amount coin that stands for one value.  An action      *)
(* reads a value by spending a coin that holds exactly that value, and     *)
(* writes one by creating a coin; a slot by itself does not make a key     *)
(* unique (the warning in singleton/slot.rue), only the list built on top  *)
(* of it does.  The set of unspent slot coins is modelled as a set of      *)
(* records with at least the fields                                        *)
(*    key (handle_hash / tail_hash), left, right, counter.                 *)
(***************************************************************************)
EXTENDS Integers

Keys(S) == {s.key : s \in S}

\* Mutant: the value is re-created unchanged.
Touched_sameCounter(s) == s

\* Mutant: the counter counts down.
Touched_down(s) == [s EXCEPT !.counter = @ - 1]

\* What every action that only reads a slot leaves behind: the same value
\* under the next counter.
Touched(s) == [s EXCEPT !.counter = @ + 1]

\* Mutant: the pair is not checked to be adjacent.
Brackets_anyPair(l, r, k) == l.key < k /\ k < r.key

\* The slot pair (l, r) a registration names for key k: k lies strictly
\* between them and each of the two values it spends points at the other.
Brackets(l, r, k) ==
    /\ l.key < k
    /\ k < r.key
    /\ l.right = r.key
    /\ r.left = l.key

RelinkRight(l, k) == [l EXCEPT !.counter = @ + 1, !.right = k]

\* Mutant: the right neighbour keeps pointing at the old left neighbour.
RelinkLeft_stale(r, k) == [r EXCEPT !.counter = @ + 1]

RelinkLeft(r, k) == [r EXCEPT !.counter = @ + 1, !.left = k]

\* The slots after the registration that splices `new` between l and r.
Splice(S, l, r, new) ==
    (S \ {l, r})
        \cup {new, RelinkRight(l, new.key), RelinkLeft(r, new.key)}

-----------------------------------------------------------------------------
\* At most one unspent slot per key.
OneSlotPerKey(S) ==
    \A s, t \in S : s.key = t.key => s = t

\* No registered key lies strictly inside the gap a pointer jumps over.
NothingInGaps(S) ==
    \A s, t \in S : s.key < t.key => s.right <= t.key /\ s.key <= t.left

\* Pointers between keys lead to registered keys and are answered by a
\* pointer back.
Mirrored(S, lo, hi) ==
    /\ \A s \in S : s.key # hi => \E t \in S : t.key = s.right /\ t.left = s.key
    /\ \A s \in S : s.key # lo => \E t \in S : t.key = s.left /\ t.right = s.key

\* Right pointers lead up and left pointers down, the ends' outer ones apart.
Ascending(S, lo, hi) ==
    \A s \in S : (s.key # hi => s.key < s.right) /\ (s.key # lo => s.left < s.key)

Bounded(S, lo, hi) ==
    /\ lo \in Keys(S) /\ hi \in Keys(S)
    /\ \A s \in S : lo <= s.key /\ s.key <= hi

ListInv(S, lo, hi) ==
    /\ OneSlotPerKey(S)
    /\ NothingInGaps(S)
    /\ Mirrored(S, lo, hi)
    /\ Ascending(S, lo, hi)
    /\ Bounded(S, lo, hi)
=============================================================================
