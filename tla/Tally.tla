-------------------------------- MODULE Tally --------------------------------
(***************************************************************************)
(* A dict of vote counts as the vision code keeps them: keys in the order  *)
(* of their first vote, since max(votes.items(), key=count) answers the    *)
(* first key among those with the most votes.                              *)
(***************************************************************************)
EXTENDS Naturals, Sequences

\* {} of the code.
NoVotes == <<>>

Keys(votes) == {votes[i].key : i \in DOMAIN votes}

\* No key twice; used by the proofs.
IsTally(votes) ==
  /\ \E K : votes \in Seq([key : K, n : Nat])
  /\ \A i, j \in DOMAIN votes : votes[i].key = votes[j].key => i = j

\* votes.get(key, 0)
VotesFor(votes, key) ==
  IF key \in Keys(votes)
    THEN votes[CHOOSE i \in DOMAIN votes : votes[i].key = key].n
    ELSE 0

\* votes[key] = votes.get(key, 0) + 1
Cast(votes, key) ==
  IF key \in Keys(votes)
    THEN [i \in DOMAIN votes |->
            IF votes[i].key = key THEN [votes[i] EXCEPT !.n = @ + 1] ELSE votes[i]]
    ELSE Append(votes, [key |-> key, n |-> 1])

\* max(votes.items(), key=lambda kv: kv[1])[0]
Leader(votes) ==
  votes[CHOOSE i \in DOMAIN votes : \A j \in DOMAIN votes :
          /\ votes[j].n <= votes[i].n
          /\ j < i => votes[j].n < votes[i].n].key
=============================================================================
