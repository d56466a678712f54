---------------------------- MODULE MCEngineTurn ----------------------------
(* What the narrator proposes in the runs of EngineTurn. *)
EXTENDS EngineTurn, TLC

Says == {"three guards", "a few guards", "five guards"}
\* Numbers on one anchor conflict; a near duplicate reinforces.
Clash == {<<"three guards", "five guards">>, <<"five guards", "three guards">>}
Near == {<<"three guards", "a few guards">>, <<"a few guards", "three guards">>}

Words == {"as told", "in other words"}
D(kind, n, to) == [kind |-> kind, n |-> n, to |-> to, reason |-> "as told"]
Reworded(d) == [d EXCEPT !.reason = "in other words"]

\* One delta or two of every kind, chosen so that each rule has both outcomes.
Proposals ==
    { D("currency", -1, ""), D("hp", -2, ""),
      D("stat", 2, "might"), D("inventory_add", 1, ""),
      Reworded(D("inventory_add", 1, "")), D("inventory_remove", 1, ""), D("status_add", 0, ""),
      D("status_remove", 0, ""), D("mood", 1, ""),
      D("lead_transition", 0, "rumored"), D("lead_transition", 0, "abandoned"),
      D("relationship", 3, "slow"), D("relationship", -1, ""),
      D("relationship", -3, ""),
      D("fact", 0, "three guards"), D("fact", 0, "a few guards"),
      D("fact", 0, "five guards") }

\* A stat delta may name any stat, the purse too.
OnThePurse == { D("stat", -2, "purse"), D("stat", 1, "might"), D("currency", 1, ""), D("hp", -2, ""),
                D("fact", 0, "three guards") }

\* The least a stat may be; -10 in the code.
Lowest == -1

Threads == Permutations(Requests)
=============================================================================
