------------------------------ MODULE Balancers ------------------------------
(***************************************************************************)
(* Load balancing over the instances that discovery knows:                 *)
(* Discovery.Pick and the balancers of pkg/etcd/balancer.go.               *)
(*                                                                         *)
(* A pick copies the list under the lock and lets the balancer choose      *)
(* afterwards; picks overlap each other and changes of the list.  The list *)
(* keeps its order between changes: one watched prefix, as the default     *)
(* configuration has it.                                                   *)
(***************************************************************************)
EXTENDS Integers, FiniteSets, Sequences

CONSTANTS Pickers,        \* goroutines that call Pick with one round robin
          Weights,        \* weights of instances
          MaxInstances,   \* bound: instances of the service
          MaxPicks,       \* bound: picks of one list
          W               \* bits of the counter

\* That a power of two is a number above one is stated: the provers know no
\* arithmetic of powers.
ASSUME BalancersAssumption ==
    /\ MaxInstances \in Nat
    /\ Weights \subseteq Int
    /\ W \in Nat \ {0}
    /\ 2^W \in Nat \ {0, 1}

VARIABLES
    insts,      \* the weights of the instances in the cache
    counter,    \* RoundRobinBalancer
    copied,     \* lists that picks in progress hold, empty when there is none
    (* history, for the properties *)
    picks,      \* how often each instance was picked, since the last change
    skewed      \* whether the counter wrapped or served another list since then

balancersVars == <<insts, counter, copied, picks, skewed>>

InstanceLists == UNION {[1 .. n -> Weights] : n \in 0 .. MaxInstances}

BalancersInit ==
    /\ insts \in InstanceLists
    /\ counter = 0
    /\ copied = [p \in Pickers |-> <<>>]
    /\ picks = [i \in DOMAIN insts |-> 0]
    /\ skewed = FALSE

\* reloadPrefix puts another list in the place of the old one.
ChangeInstances ==
    /\ insts' \in InstanceLists
    /\ picks' = [i \in DOMAIN insts' |-> 0]
    /\ skewed' = \E p \in Pickers : copied[p] # <<>>
    /\ UNCHANGED <<counter, copied>>

\* GetInstances; without instances Pick answers ErrNoInstances.
GetInstances(p) ==
    /\ copied[p] = <<>>
    /\ insts # <<>>
    /\ copied' = [copied EXCEPT ![p] = insts]
    /\ UNCHANGED <<insts, counter, picks, skewed>>

\* (Mutation: the counter is an atomic.Int64, and the remainder may be negative.)
AdvanceSigned(c) == IF c + 1 = 2^(W - 1) THEN -(2^(W - 1)) ELSE c + 1

Advance(c) == (c + 1) % 2^W

\* (Mutation: the counter is raised once more for the log.)
AdvanceTwice(c) == (c + 2) % 2^W

\* RoundRobinBalancer.Pick: one atomic Add, and the remainder.
PickNext(p) ==
    /\ copied[p] # <<>>
    /\ LET i == (counter % Len(copied[p])) + 1 IN
        IF copied[p] = insts
        THEN /\ picks[i] < MaxPicks
             /\ picks' = [picks EXCEPT ![i] = @ + 1]
        ELSE UNCHANGED picks
    /\ counter' = Advance(counter)
    /\ skewed' = (skewed \/ copied[p] # insts \/ counter' < counter)
    /\ copied' = [copied EXCEPT ![p] = <<>>]
    /\ UNCHANGED insts

BalancersNext ==
    \/ ChangeInstances
    \/ \E p \in Pickers : GetInstances(p) \/ PickNext(p)

BalancersSpec == BalancersInit /\ [][BalancersNext]_balancersVars

-----------------------------------------------------------------------------
(* WeightedRandomBalancer.Pick, as a function of the number it draws *)

EffectiveWeight(w) == IF w <= 0 THEN 1 ELSE w

WeightUpTo(ws) ==
    LET sum[i \in 0 .. Len(ws)] == IF i = 0 THEN 0 ELSE sum[i - 1] + EffectiveWeight(ws[i])
    IN sum

TotalWeight(ws) == WeightUpTo(ws)[Len(ws)]

\* (Mutation: one draw of every instance goes to its neighbour.)
ExhaustedLate(r) == r <= 0

\* The weight of the instance at hand is taken off, and what is left compared.
Exhausted(r) == r < 0

\* The first instance at which the number drawn is exhausted, else the last.
PickWeighted(ws, r) ==
    LET hits == {i \in DOMAIN ws : Exhausted(r - WeightUpTo(ws)[i])} IN
    IF hits = {} THEN Len(ws) ELSE CHOOSE i \in hits : \A j \in hits : i <= j

-----------------------------------------------------------------------------
(* Properties *)

BalancersTypeOK ==
    /\ insts \in InstanceLists
    /\ counter \in 0 .. 2^W - 1
    /\ copied \in [Pickers -> InstanceLists]
    /\ picks \in [DOMAIN insts -> Nat]
    /\ skewed \in BOOLEAN

\* However many goroutines pick at once, no instance of a list is ever two picks
\* ahead of another, until the counter wraps or a pick of an older list takes
\* one of its numbers (balancer.go 18-29, discovery.go 149-162).
RoundRobinEven ==
    skewed \/ \A i, j \in DOMAIN insts : picks[i] <= picks[j] + 1

\* Of the numbers that can be drawn, exactly as many lead to an instance as its
\* weight says, a weight that is not positive counting as one
\* (balancer.go 40-63).
WeightedShares ==
    \A i \in DOMAIN insts :
        Cardinality({r \in 0 .. TotalWeight(insts) - 1 : PickWeighted(insts, r) = i})
            = EffectiveWeight(insts[i])

\* Either balancer gives every instance its share.
BalancersFair == RoundRobinEven /\ WeightedShares

=============================================================================
