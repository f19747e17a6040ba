---------------------------- MODULE MCTypeSearch ----------------------------
(***************************************************************************)
(* Three domains of up to two assemblies of up to two modules each; method *)
(* tables of up to three slots.                                            *)
(***************************************************************************)
EXTENDS Naturals, Sequences, TLC

VARIABLES target, s

Assemblies ==
  {[name |-> n, data |-> TRUE, modules |-> ms] :
     n \in {"ends", "other", "short"}, ms \in {<<"yes">>, <<"unloaded", "yes">>, <<"bad", "no">>}}
  \cup {[name |-> "ends", data |-> FALSE, modules |-> <<"yes">>],
        [name |-> "ends", data |-> TRUE, modules |-> <<>>]}

Readable(as) == [ok |-> TRUE, assemblies |-> as]
AnyDomain ==
  {[ok |-> FALSE, assemblies |-> <<>>], Readable(<<>>)}
  \cup {Readable(<<x>>) : x \in Assemblies} \cup {Readable(<<x, y>>) : x, y \in Assemblies}
Few ==
  {[ok |-> FALSE, assemblies |-> <<[name |-> "ends", data |-> TRUE, modules |-> <<"yes">>]>>],
   Readable(<<>>), Readable(<<[name |-> "ends", data |-> TRUE, modules |-> <<"yes">>]>>)}

Slots == UNION {[1..n -> {"no", "yes", "bad"}] : n \in 0..3}

AllTargets ==
  {[domains |-> <<x, y, z>>, list |-> l, slots |-> <<>>] :
     x \in Few, y \in AnyDomain, z \in Few, l \in BOOLEAN}
  \cup {[domains |-> <<>>, list |-> TRUE, slots |-> sl] : sl \in Slots}

INSTANCE TypeSearch WITH Targets <- AllTargets, Operations <- {"type", "method"}
=============================================================================
